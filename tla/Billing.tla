------------------------------ MODULE Billing ------------------------------
(***************************************************************************)
(* Payments on their way from Stripe into the ledger: signed webhooks      *)
(* (handleStripeWebhook of packages/core/src/revenue.ts, with              *)
(* verifyStripeSignature and normalizeStripeEvent of packages/billing) and *)
(* the backfill from its API (syncStripe).  Stripe, which is external,     *)
(* tells the same payment in several events, signs a delivery again each   *)
(* time it is made, and repeats, reorders or gives up deliveries.          *)
(* Recurring amounts are the subject of module Revenue.                    *)
(***************************************************************************)
EXTENDS Integers, FiniteSetsExt

CONSTANTS
  Payment,
  MaxAmount,    \* bound: largest amount paid
  Page,         \* invoices that one answer of Stripe lists
  MaxKeys       \* bound: webhook secrets made

VARIABLES
  paid,         \* what Stripe knows of a payment: [amount, invoiced, refunded]
  told,         \* events Stripe has created: [type, of, amount, before]
  ledger,       \* revenue_events of source stripe: [id, amount]
  taken,        \* history: events whose delivery was accepted
  key,          \* number of the secret Stripe signs with, and of ours (0: none)
  sync,         \* invoices that the running backfill still has to apply
  synced        \* history: payments that a backfill has applied

billingVars == <<paid, told, ledger, taken, key, sync, synced>>

NotPaid == [amount |-> -1, invoiced |-> FALSE, refunded |-> 0]

Init ==
  /\ paid = [p \in Payment |-> NotPaid]
  /\ told = {} /\ ledger = {} /\ taken = {} /\ synced = {} /\ sync = {}
  /\ key = [theirs |-> 1, ours |-> 0]

-----------------------------------------------------------------------------
(* Stripe *)
StripeEvent(type, p, amount, before) ==
  [type |-> type, of |-> p, amount |-> amount, before |-> before]
Tells(events) == told' = told \cup events /\ UNCHANGED <<ledger, taken, key, sync, synced>>

(* A payment has a charge, and an invoice if it is one of a subscription;   *)
(* an invoice of nothing (a trial) has no charge.                           *)
Pay(p, amount, invoiced) ==
  /\ paid[p] = NotPaid /\ (amount > 0 \/ invoiced)
  /\ paid' = [paid EXCEPT ![p] = [amount |-> amount, invoiced |-> invoiced, refunded |-> 0]]
  /\ Tells({StripeEvent(type, p, amount, 0) :
              type \in (IF amount > 0 THEN {"charge.succeeded"} ELSE {})
                       \cup IF invoiced THEN {"invoice.paid", "invoice.payment_succeeded"}
                                        ELSE {}})

(* amount_refunded of a charge is what all of its refunds add up to. *)
Refund(p, amount) ==
  /\ paid[p].refunded + amount <= paid[p].amount
  /\ paid' = [paid EXCEPT ![p].refunded = @ + amount]
  /\ Tells({StripeEvent("charge.refunded", p, paid[p].refunded + amount, paid[p].refunded)})

RollKey ==
  /\ key.theirs < MaxKeys /\ key' = [key EXCEPT !.theirs = @ + 1]
  /\ UNCHANGED <<paid, told, ledger, taken, sync, synced>>

EnterKey ==
  /\ key.ours # key.theirs /\ key' = [key EXCEPT !.ours = key.theirs]
  /\ UNCHANGED <<paid, told, ledger, taken, sync, synced>>

-----------------------------------------------------------------------------
(* normalizeStripeEvent: the rows an event asks for.                        *)
Row(id, p, which, amount) == [id |-> <<id, p, which>>, amount |-> amount]

(* A variant that takes every charge for a payment without an invoice. *)
ChargeOfAll(e) == {Row("ch", e.of, 0, e.amount)}

ChargeRows(e) == IF paid[e.of].invoiced THEN {} ELSE {Row("ch", e.of, 0, e.amount)}

InvoiceRows(e) == IF e.amount = 0 THEN {} ELSE {Row("in", e.of, 0, e.amount)}

(* A variant that names a refund after its charge alone. *)
RefundOfCharge(e) == {Row("re", e.of, 0, e.before - e.amount)}

RefundRows(e) == {Row("re", e.of, e.amount, e.before - e.amount)}

RowsOf(e) ==
  CASE e.type = "charge.succeeded" -> ChargeRows(e)
    [] e.type = "charge.refunded" -> RefundRows(e)
    [] OTHER -> InvoiceRows(e)

(* ON CONFLICT (org_id, source, external_id) DO NOTHING. *)
Recorded(e) == ledger \cup {r \in RowsOf(e) : \A old \in ledger : old.id # r.id}

(* verifyStripeSignature: signed with the secret that we have, within the   *)
(* last 300 s.                                                              *)
Valid(signed, late) == key.ours = signed /\ ~late

(* A delivery, signed when it is made; any other answer than 200 is a       *)
(* refusal, which changes nothing here.                                     *)
Webhook(e, late) ==
  /\ Valid(key.theirs, late)
  /\ ledger' = Recorded(e) /\ taken' = taken \cup {e}
  /\ UNCHANGED <<paid, told, key, sync, synced>>

(* listPaidInvoices: one page of them, whether there are more or not. *)
Listed == LET invoices == {p \in Payment : paid[p].invoiced}
              size == IF Cardinality(invoices) < Page THEN Cardinality(invoices) ELSE Page
          IN {page \in SUBSET invoices : Cardinality(page) = size}

(* syncStripe applies one page of invoices in turn. *)
SyncBegins ==
  /\ sync = {} /\ sync' \in Listed /\ sync' # {}
  /\ UNCHANGED <<paid, told, ledger, taken, key, synced>>

SyncApplies(p) ==
  /\ p \in sync
  /\ ledger' = Recorded(StripeEvent("invoice.paid", p, paid[p].amount, 0))
  /\ sync' = sync \ {p} /\ synced' = synced \cup {p}
  /\ UNCHANGED <<paid, told, taken, key>>

SyncDies ==
  /\ sync # {} /\ sync' = {}
  /\ UNCHANGED <<paid, told, ledger, taken, key, synced>>

Next ==
  \/ \E p \in Payment, amount \in 0..MaxAmount, invoiced \in BOOLEAN : Pay(p, amount, invoiced)
  \/ \E p \in Payment, amount \in 1..MaxAmount : Refund(p, amount)
  \/ RollKey
  \/ EnterKey
  \/ \E e \in told, late \in BOOLEAN : Webhook(e, late)
  \/ SyncBegins
  \/ \E p \in Payment : SyncApplies(p)
  \/ SyncDies

Spec == Init /\ [][Next]_billingVars

-----------------------------------------------------------------------------
(* Payments, events, rows and keys have their types. *)
TypeOK ==
  /\ \A p \in Payment : /\ paid[p].amount \in -1..MaxAmount /\ paid[p].invoiced \in BOOLEAN
                        /\ paid[p].refunded \in 0..MaxAmount
  /\ taken \subseteq told /\ {r.id[2] : r \in ledger} \subseteq Payment
  /\ key \in [theirs : 1..MaxKeys, ours : 0..MaxKeys]
  /\ sync \cup synced \subseteq Payment

EventsOf(p) == {e \in told : e.of = p}
Booked(p) == MapThenSumSet(LAMBDA r : r.amount, {r \in ledger : r.id[2] = p})
BookedPaid(p) == MapThenSumSet(LAMBDA r : r.amount, {r \in ledger : r.id[2] = p /\ r.amount > 0})

(* However often and in whatever order Stripe tells of a payment, and       *)
(* whether the backfill finds it too, it is counted once and never more of  *)
(* it is given back than was; and once every event of a payment has come    *)
(* through, the ledger has what the payment has brought in the end.         *)
MoneyIsCountedOnce ==
  \A p \in Payment : paid[p] # NotPaid =>
    /\ BookedPaid(p) \in {0, paid[p].amount}
    /\ BookedPaid(p) - Booked(p) <= paid[p].refunded
    /\ EventsOf(p) \subseteq taken => Booked(p) = paid[p].amount - paid[p].refunded
    /\ p \in synced => BookedPaid(p) = paid[p].amount
=============================================================================
