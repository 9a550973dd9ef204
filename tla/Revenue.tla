------------------------------ MODULE Revenue ------------------------------
(***************************************************************************)
(* Recurring revenue (packages/core/src/revenue.ts): a ledger of signed    *)
(* changes (mrr_delta_usd), computed as the difference between what a      *)
(* provider's event says and the sum of the rows so far, and the figure    *)
(* that is kept on each customer.  Reading the sum, inserting the change,  *)
(* reading the customer's sum and writing it are four statements.          *)
(*                                                                         *)
(* The provider delivers an event at least once, in any order, and again   *)
(* when a delivery was not answered; what an event says is an input, fixed *)
(* by its first delivery.  An event of a sync is one that is delivered     *)
(* once.  Events that are ignored (another currency or type) and amounts   *)
(* that are not recurring are left out, but for the row of a charge.       *)
(***************************************************************************)
EXTENDS Integers, FiniteSetsExt, TLC

CONSTANTS
  Event,           \* external ids of provider events
  Manual,          \* ids of the entries made by hand
  Subscription, Customer,
  CustomerOf,      \* [Subscription -> Customer]
  Call,            \* concurrent calls of applyVerified and recordManual
  MaxMrr,          \* bound of the model: largest recurring amount
  NoRow, NoEvent

ASSUME RevenueAssumption ==
  /\ CustomerOf \in [Subscription -> Customer]
  /\ MaxMrr \in Nat
  /\ Event \cap Manual = {}
  /\ NoEvent \notin Event \cup Manual

\* For model checking: every subscription is that of one customer, and entries,
\* calls and subscriptions are interchangeable.
OneCustomer == [s \in Subscription |-> CHOOSE c \in Customer : TRUE]
RevenueSymmetry ==
  Permutations(Event) \cup Permutations(Manual) \cup Permutations(Call)
    \cup Permutations(Subscription)

VARIABLES
  says,        \* [Event -> Message]: what the provider's event says
  ledger,      \* [Event \cup Manual -> Row]: revenue_events, or NoRow
  mrr,         \* [Customer -> Int]: customers.mrr_usd
  churned,     \* SUBSET Customer: customers.status = 'churned'
  phase,       \* [Call -> Phase]: where the call is
  on,          \* [Call -> Event \cup Manual]: what it applies
  entry,       \* [Call -> Message]: its content
  sum,         \* [Call -> Int]: what its last SELECT SUM returned
  answered,    \* history: what a call has returned for, since its row if it has one
  overlapped,  \* history: customers for whom two calls were going at once
  followed     \* [Subscription -> Nat]: history, the target last applied

ledgerVars == <<says, ledger>>
customerVars == <<mrr, churned>>
callVars == <<phase, on, entry, sum>>
history == <<answered, overlapped, followed>>
vars == <<ledgerVars, customerVars, callVars, history>>

\* What an event, or an entry made by hand, says.  A cancellation by hand may
\* give the amount or leave it to the customer's sum.
Kind == {"charge", "upsert", "canceled",
         "manual_started", "manual_changed", "manual_canceled", "manual_canceled_all"}
Message == [kind : Kind, sub : Subscription, mrr : 0..MaxMrr]
ByHand == {"manual_started", "manual_changed", "manual_canceled", "manual_canceled_all"}
NoMessage == [kind |-> "none"]

RowType == {"charge", "subscription_started", "subscription_changed", "subscription_canceled"}
Row == [type : RowType, delta : Int, sub : Subscription, source : {"stripe", "manual"}]
ASSUME RowAssumption == NoRow \notin Row

Phase == {"idle", "reading", "inserting", "refreshing", "writing"}

TypeOK ==
  /\ says \in [Event -> Message \cup {NoMessage}]
  /\ ledger \in [Event \cup Manual -> Row \cup {NoRow}]
  /\ mrr \in [Customer -> Int]
  /\ churned \subseteq Customer
  /\ phase \in [Call -> Phase]
  /\ on \in [Call -> Event \cup Manual \cup {NoEvent}]
  /\ entry \in [Call -> Message \cup {NoMessage}]
  /\ sum \in [Call -> Int]
  /\ answered \subseteq Event \cup Manual
  /\ overlapped \subseteq Customer
  /\ followed \in [Subscription -> 0..MaxMrr]

Init ==
  /\ says = [e \in Event |-> NoMessage]
  /\ ledger = [r \in Event \cup Manual |-> NoRow]
  /\ mrr = [c \in Customer |-> 0]
  /\ churned = {}
  /\ phase = [k \in Call |-> "idle"]
  /\ on = [k \in Call |-> NoEvent]
  /\ entry = [k \in Call |-> NoMessage]
  /\ sum = [k \in Call |-> 0]
  /\ answered = {} /\ overlapped = {}
  /\ followed = [s \in Subscription |-> 0]

-----------------------------------------------------------------------------
(* Sums over the ledger *)

Rows == {r \in Event \cup Manual : ledger[r] # NoRow}
RowsOf(c) == {r \in Rows : CustomerOf[ledger[r].sub] = c}
Total(rows) == MapThenSumSet(LAMBDA r : ledger[r].delta, rows)

\* customerMrr: every row of the customer, whatever its source.
CustomerMrr(c) == Total(RowsOf(c))

\* Mutant: the sum that a subscription's event is compared with is taken over
\* the customer's subscriptions.
ProviderMrrOfCustomer(s) ==
  Total({r \in RowsOf(CustomerOf[s]) : ledger[r].source = "stripe"})

\* `current` of applyVerified: the provider's rows of the subscription.
ProviderMrr(s) == Total({r \in Rows : ledger[r].source = "stripe" /\ ledger[r].sub = s})

-----------------------------------------------------------------------------
(* The steps of a call *)

CustomerOn(k) == CustomerOf[entry[k].sub]

Goto(k, p) ==
  /\ phase' = [phase EXCEPT ![k] = p]
  /\ UNCHANGED <<on, entry>>

Over(k) ==
  /\ phase' = [phase EXCEPT ![k] = "idle"]
  /\ on' = [on EXCEPT ![k] = NoEvent]
  /\ entry' = [entry EXCEPT ![k] = NoMessage]
  /\ sum' = [sum EXCEPT ![k] = 0]

\* A call begins; only some kinds read a sum before they insert.
Begin(k, r, m) ==
  /\ phase[k] = "idle"
  /\ phase' = [phase EXCEPT ![k] =
                 IF m.kind \in {"charge", "manual_started", "manual_canceled"}
                 THEN "inserting" ELSE "reading"]
  /\ on' = [on EXCEPT ![k] = r]
  /\ entry' = [entry EXCEPT ![k] = m]
  /\ overlapped' = IF \E j \in Call : phase[j] # "idle" /\ CustomerOn(j) = CustomerOf[m.sub]
                   THEN overlapped \cup {CustomerOf[m.sub]} ELSE overlapped
  /\ UNCHANGED <<sum, customerVars, ledger, answered, followed>>

\* A signed webhook, or an item of a sync, reaches applyVerified: for the
\* first time or again.
Deliver(k, e, m) ==
  /\ m.kind \notin ByHand
  /\ says[e] \in {NoMessage, m}
  /\ says' = [says EXCEPT ![e] = m]
  /\ Begin(k, e, m)

\* recordManual; every entry has an id of its own.
RecordManual(k, r, m) ==
  /\ m.kind \in ByHand
  /\ ledger[r] = NoRow /\ \A j \in Call : on[j] # r
  /\ Begin(k, r, m)
  /\ UNCHANGED says

Target(m) == IF m.kind = "canceled" THEN 0 ELSE m.mrr

\* What applyVerified compares with, and recordManual for some changes.
Current(k) ==
  IF entry[k].kind \in ByHand THEN CustomerMrr(CustomerOn(k)) ELSE ProviderMrr(entry[k].sub)

ChangesNothing(k) == entry[k].kind \notin ByHand /\ Current(k) = Target(entry[k])

Follow(k) == followed' = [followed EXCEPT ![entry[k].sub] = Target(entry[k])]

ReadChange(k) ==
  /\ phase[k] = "reading" /\ ~ChangesNothing(k)
  /\ sum' = [sum EXCEPT ![k] = Current(k)]
  /\ Goto(k, "inserting")
  /\ UNCHANGED <<ledgerVars, customerVars, history>>

\* Mutant: a delivery that changes nothing returns before the customer is
\* refreshed.
ReadNoChangeAndReturn(k) ==
  /\ phase[k] = "reading" /\ ChangesNothing(k)
  /\ Over(k)
  /\ Follow(k)
  /\ answered' = answered \cup {on[k]}
  /\ UNCHANGED <<ledgerVars, customerVars, overlapped>>

\* An event that changes nothing is not recorded; the customer is refreshed.
ReadNoChange(k) ==
  /\ phase[k] = "reading" /\ ChangesNothing(k)
  /\ sum' = [sum EXCEPT ![k] = Current(k)]
  /\ Goto(k, "refreshing")
  /\ Follow(k)
  /\ UNCHANGED <<ledgerVars, customerVars, answered, overlapped>>

Delta(m, current) ==
  CASE m.kind = "charge" -> 0
    [] m.kind \in {"upsert", "canceled", "manual_changed"} -> Target(m) - current
    [] m.kind = "manual_started" -> m.mrr
    [] m.kind = "manual_canceled" -> -m.mrr
    [] m.kind = "manual_canceled_all" -> -current

\* Mutant: the row of a provider's change takes the name of the event.
TypeOfEvent(m, current) ==
  IF m.kind = "upsert" THEN "subscription_updated" ELSE "subscription_canceled"

TypeOf(m, current) ==
  CASE m.kind = "charge" -> "charge"
    [] m.kind = "manual_started" -> "subscription_started"
    [] m.kind = "manual_changed" -> "subscription_changed"
    [] m.kind \in {"canceled", "manual_canceled", "manual_canceled_all"} -> "subscription_canceled"
    [] m.kind = "upsert" -> IF m.mrr = 0 THEN "subscription_canceled"
                            ELSE IF current = 0 THEN "subscription_started"
                            ELSE "subscription_changed"

InsertedRow(k) ==
  [type |-> TypeOf(entry[k], sum[k]), delta |-> Delta(entry[k], sum[k]), sub |-> entry[k].sub,
   source |-> IF entry[k].kind \in ByHand THEN "manual" ELSE "stripe"]

InsertRow(k) ==
  /\ ledger' = [ledger EXCEPT ![on[k]] = InsertedRow(k)]
  /\ answered' = answered \ {on[k]}
  /\ IF entry[k].kind \in {"upsert", "canceled"} THEN Follow(k) ELSE UNCHANGED followed
  /\ Goto(k, "refreshing")
  /\ UNCHANGED sum

\* ON CONFLICT DO NOTHING: an event that has a row keeps the one it has.
Insert(k) ==
  /\ phase[k] = "inserting"
  /\ \/ ledger[on[k]] = NoRow /\ InsertRow(k)
     \/ ledger[on[k]] # NoRow /\ Goto(k, "refreshing")
                              /\ UNCHANGED <<ledger, sum, answered, followed>>
  /\ UNCHANGED <<says, customerVars, overlapped>>

\* refreshCustomer: the SELECT, and the UPDATE with what it returned.  Whether
\* the customer has ever cancelled is looked up by the UPDATE itself.
ReadCustomer(k) ==
  /\ phase[k] = "refreshing"
  /\ sum' = [sum EXCEPT ![k] = CustomerMrr(CustomerOn(k))]
  /\ Goto(k, "writing")
  /\ UNCHANGED <<ledgerVars, customerVars, history>>

\* An error after the UPDATE leaves the call unanswered.
WriteCustomer(k, answers) ==
  LET c == CustomerOn(k)
      cancelled == \E r \in RowsOf(c) : ledger[r].type = "subscription_canceled"
  IN /\ phase[k] = "writing"
     /\ mrr' = [mrr EXCEPT ![c] = sum[k]]
     /\ churned' = IF sum[k] > 0 THEN churned \ {c}
                   ELSE IF cancelled THEN churned \cup {c} ELSE churned
     /\ answered' = IF answers THEN answered \cup {on[k]} ELSE answered
     /\ Over(k)
     /\ UNCHANGED <<ledgerVars, overlapped, followed>>

CallDies(k) ==
  /\ phase[k] # "idle"
  /\ Over(k)
  /\ UNCHANGED <<ledgerVars, customerVars, history>>

-----------------------------------------------------------------------------

Next ==
  \E k \in Call :
    \/ \E e \in Event, m \in Message : Deliver(k, e, m)
    \/ \E r \in Manual, m \in Message : RecordManual(k, r, m)
    \/ ReadChange(k)
    \/ ReadNoChange(k)
    \/ Insert(k)
    \/ ReadCustomer(k)
    \/ \E answers \in BOOLEAN : WriteCustomer(k, answers)
    \/ CallDies(k)

Spec == Init /\ [][Next]_vars

-----------------------------------------------------------------------------
(* Properties *)

\* As long as no two calls for a customer overlap, the provider's rows of a
\* subscription add up to what the event applied last says, whatever events
\* were delivered twice, out of order, or died half-way: the differences do
\* not drift.
SumFollowsEvents ==
  \A s \in Subscription : CustomerOf[s] \notin overlapped => ProviderMrr(s) = followed[s]

\* Under the same condition the figure on a customer agrees with the ledger,
\* and a customer that pays is not shown as churned, whenever every call that
\* recorded something for it has been answered in the end: a delivery that
\* died between the ledger and the customer is made good by the next one,
\* though that one records nothing.
CustomerAgreesWithLedger ==
  \A c \in Customer :
    /\ c \notin overlapped
    /\ \A k \in Call : phase[k] # "idle" => CustomerOn(k) # c
    /\ RowsOf(c) \subseteq answered
    => /\ mrr[c] = CustomerMrr(c)
       /\ c \in churned => CustomerMrr(c) <= 0

\* "Idempotent by event id": an event whose delivery was answered is not
\* applied by a later one.
AppliedOnce ==
  [][\A e \in Event : e \in answered => ledger'[e] = ledger[e]]_vars
=============================================================================
