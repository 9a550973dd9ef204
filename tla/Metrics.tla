------------------------------- MODULE Metrics ------------------------------
(***************************************************************************)
(* computeRevenueMetrics (packages/analytics/src/saas.ts) over the ledger  *)
(* as recordManual and applyVerified fill it (packages/core/src/           *)
(* revenue.ts): rows carry the date they are about, customers the date     *)
(* they were first and last heard of.                                      *)
(*                                                                         *)
(* Time is counted in half months: a calendar month is two of them, and so *)
(* is a window of 30 days.  Amounts are whole numbers, so nothing is       *)
(* rounded.  The ratios (margin, CAC, LTV, growth) divide these sums and   *)
(* are left out.  The second part is reports.ts, which prints these sums.  *)
(***************************************************************************)
EXTENDS Integers, Sequences, FiniteSetsExt

CONSTANTS
  Customer,
  Amounts,        \* recurring amounts
  MonthsBack,     \* input.months
  MaxRows,        \* bound: rows of the ledger
  MaxTime         \* bound: half months that pass

VARIABLES now, ledger, customers

metricVars == <<now, ledger, customers>>

Types == {"charge", "refund", "subscription_started", "subscription_changed",
          "subscription_canceled"}
Unknown == [status |-> "none", started |-> 0, churned |-> 0]
NotChurned == 0
First == 2 * MonthsBack        \* the first moment, so that every month has a number

Init ==
  /\ now = First /\ ledger = <<>>
  /\ customers = [c \in Customer |-> Unknown]

Total(rows, value(_)) == MapThenSumSet(LAMBDA i : value(ledger[i]), rows)
Delta(r) == r.delta
Amount(r) == r.amount
Rows == DOMAIN ledger
CustomerMrr(c) == Total({i \in Rows : ledger[i].customer = c}, Delta)

-----------------------------------------------------------------------------
(* recordManual, or applyVerified: the row's change of the recurring       *)
(* amount, then upsertCustomer and refreshCustomer.                        *)
DeltaOf(type, c, amount) ==
  CASE type = "subscription_started" -> amount
    [] type = "subscription_changed" -> amount - CustomerMrr(c)
    [] type = "subscription_canceled" -> 0 - CustomerMrr(c)
    [] OTHER -> 0

(* The status is kept, and the date forgotten, unless the customer pays    *)
(* again or has left.                                                      *)
Refreshed(c, was, mrr, everCanceled) ==
  IF mrr > 0 THEN [was EXCEPT !.status = "active", !.churned = NotChurned]
  ELSE IF everCanceled
         THEN [was EXCEPT !.status = "churned",
                          !.churned = IF @ = NotChurned THEN now ELSE @]
         ELSE [was EXCEPT !.churned = NotChurned]

Record(type, c, amount, at, verified) ==
  /\ Len(ledger) < MaxRows
  /\ LET row == [type |-> type, customer |-> c, delta |-> DeltaOf(type, c, amount),
                 amount |-> IF type \in {"charge", "refund"} THEN amount ELSE 0,
                 at |-> at, verified |-> verified]
         was == IF customers[c] = Unknown
                  THEN [status |-> "active", started |-> now, churned |-> NotChurned]
                  ELSE customers[c]
         canceled == type = "subscription_canceled" \/
                     \E i \in Rows : ledger[i].customer = c
                                       /\ ledger[i].type = "subscription_canceled"
     IN /\ ledger' = Append(ledger, row)
        /\ customers' = [customers EXCEPT ![c] =
                           Refreshed(c, was, CustomerMrr(c) + row.delta, canceled)]
  /\ UNCHANGED now

Tick ==
  /\ now < First + MaxTime
  /\ now' = now + 1
  /\ UNCHANGED <<ledger, customers>>

Next ==
  \/ Tick
  \/ \E type \in Types, c \in Customer, amount \in Amounts, verified \in BOOLEAN,
        at \in {now - 1, now, now + 1} : Record(type, c, amount, at, verified)

Spec == Init /\ [][Next]_metricVars

-----------------------------------------------------------------------------
(* computeRevenueMetrics *)

Events(verifiedOnly) == {i \in Rows : verifiedOnly => ledger[i].verified}
OfType(rows, type) == {i \in rows : ledger[i].type = type}
AtLeast0(n) == IF n < 0 THEN 0 ELSE n

(* The months of the series: 1 .. MonthsBack, the last of them the current *)
(* one.                                                                    *)
MonthStart(m) == 2 * ((now \div 2) - (MonthsBack - m))
MonthEnd(m) == MonthStart(m) + 2
InMonth(m, t) == t >= MonthStart(m) /\ t < MonthEnd(m)

(* A variant whose balance has the month's first moment as its end. *)
BalanceBefore(m, rows) == Total({i \in rows : ledger[i].at < MonthStart(m)}, Delta)

Balance(m, rows) == Total({i \in rows : ledger[i].at < MonthEnd(m)}, Delta)

Moved(m, rows, type) ==
  Total({i \in OfType(rows, type) : InMonth(m, ledger[i].at)}, Delta)

Point(m, rows) ==
  [mrr |-> AtLeast0(Balance(m, rows)),
   new |-> Moved(m, rows, "subscription_started"),
   churned |-> 0 - Moved(m, rows, "subscription_canceled"),
   expansion |-> Moved(m, rows, "subscription_changed"),
   revenue |-> Total({i \in OfType(rows, "charge") : InMonth(m, ledger[i].at)}, Amount)
               - Total({i \in OfType(rows, "refund") : InMonth(m, ledger[i].at)}, Amount)]

Series(rows) == [m \in 1 .. MonthsBack |-> Point(m, rows)]

MrrAt(t, rows) == AtLeast0(Total({i \in rows : ledger[i].at <= t}, Delta))
Mrr(rows) == MrrAt(now, rows)

RevenueSince(t, rows) ==
  Total({i \in OfType(rows, "charge") : ledger[i].at >= t}, Amount)
  - Total({i \in OfType(rows, "refund") : ledger[i].at >= t}, Amount)
RevenueTotal(rows) == RevenueSince(0, rows)

(* Customers in the last 30 days. *)
Last30 == now - 2
Known == {c \in Customer : customers[c] # Unknown}
Active == {c \in Known : customers[c].status = "active"}
NewLast30 == {c \in Known : customers[c].started >= Last30}
ChurnedLast30 == {c \in Known : customers[c].churned # NotChurned /\ customers[c].churned >= Last30}

(* A variant that counts those who are active now. *)
ActiveThroughout == {c \in Active : customers[c].started < Last30}

ActiveAtStart ==
  {c \in Known : /\ customers[c].started < Last30
                 /\ customers[c].churned = NotChurned \/ customers[c].churned >= Last30}

-----------------------------------------------------------------------------
TypeOK ==
  /\ now \in First .. First + MaxTime
  /\ \A i \in Rows : /\ ledger[i].type \in Types /\ ledger[i].customer \in Customer
                     /\ ledger[i].delta \in Int /\ ledger[i].verified \in BOOLEAN
  /\ \A c \in Customer : customers[c].status \in {"none", "active", "churned"}

(* From month to month the recurring revenue shown moves by what the       *)
(* series says was won, lost and expanded, whatever dates the rows carry;  *)
(* it ends at today's figure when no row is dated ahead, and its revenue   *)
(* is the total when none lies outside its months.                         *)
SeriesAddsUp ==
  \A verifiedOnly \in BOOLEAN :
    LET rows == Events(verifiedOnly)
        series == Series(rows)
    IN /\ \A m \in 2 .. MonthsBack :
            (\A k \in {m - 1, m} : Balance(k, rows) >= 0) =>
               series[m].mrr = series[m - 1].mrr + series[m].new + series[m].expansion
                                 - series[m].churned
       /\ (\A i \in rows : ledger[i].at <= now) => series[MonthsBack].mrr = Mrr(rows)
       /\ (\A i \in rows : \E m \in 1 .. MonthsBack : InMonth(m, ledger[i].at)) =>
            MapThenSumSet(LAMBDA m : series[m].revenue, 1 .. MonthsBack) = RevenueTotal(rows)

(* A customer that left within the window was there at its start or came   *)
(* within it: the leavers of the churn rate are drawn from those it        *)
(* counts, and no customer both pays and has left.                         *)
LeaversWereThere ==
  /\ ChurnedLast30 \subseteq ActiveAtStart \cup NewLast30
  /\ \A c \in Known : CustomerMrr(c) > 0 => c \in Active /\ c \notin ChurnedLast30

-----------------------------------------------------------------------------
(***************************************************************************)
(* The daily report (packages/core/src/reports.ts, generateDaily) over the *)
(* ledger of Metrics.  Its figures are computed twice, for the end and for *)
(* the start of the period, by two loads of the ledger that do not wait    *)
(* for each other; rows are recorded meanwhile, and with any date.         *)
(*                                                                         *)
(* Only balances at a moment and sums over all time matter here, so a unit *)
(* of Metrics' time stands for the 24 hours of the period.                 *)
(***************************************************************************)
CONSTANT MaxReports     \* bound: reports made

VARIABLES
  draft,     \* the report being made: its end, the rows each load has seen
  reports    \* those stored, oldest first

reportVars == <<draft, reports, metricVars>>

NotLoaded == -1
NoDraft == [end |-> 0, atEnd |-> NotLoaded, atStart |-> NotLoaded]
ReportsInit == Init /\ draft = NoDraft /\ reports = <<>>

Verified(n) == {i \in 1 .. n : ledger[i].verified}
StartOf(end) == end - 1
Between(start, end, t) == t >= start /\ t <= end     \* BETWEEN of SQL

Begin ==
  /\ draft = NoDraft /\ Len(reports) < MaxReports
  /\ draft' = [NoDraft EXCEPT !.end = now]
  /\ UNCHANGED <<reports, metricVars>>

\* The two loads of Promise.all.
LoadAtEnd ==
  /\ draft # NoDraft /\ draft.atEnd = NotLoaded
  /\ draft' = [draft EXCEPT !.atEnd = Len(ledger)]
  /\ UNCHANGED <<reports, metricVars>>

LoadAtStart ==
  /\ draft # NoDraft /\ draft.atStart = NotLoaded
  /\ draft' = [draft EXCEPT !.atStart = Len(ledger)]
  /\ UNCHANGED <<reports, metricVars>>

\* A variant that looks for the balance of all the rows.
BalanceAtAll(t, n) == AtLeast0(Total(Verified(n), Delta))

BalanceAt(t, n) == MrrAt(t, Verified(n))

\* revenueTotal is the sum over all rows, at the end and at the start alike.
Store ==
  LET start == StartOf(draft.end)
      new(c) == customers[c] # Unknown /\ Between(start, draft.end, customers[c].started)
      left(c) == customers[c].churned # NotChurned /\ Between(start, draft.end, customers[c].churned)
  IN /\ NotLoaded \notin {draft.atEnd, draft.atStart} /\ draft # NoDraft
     /\ reports' = Append(reports,
          [start |-> start, end |-> draft.end, atEnd |-> draft.atEnd, atStart |-> draft.atStart,
           mrrNow |-> BalanceAt(draft.end, draft.atEnd),
           mrrBefore |-> BalanceAt(start, draft.atStart),
           revenue |-> RevenueSince(0, Verified(draft.atEnd)) - RevenueSince(0, Verified(draft.atStart)),
           newCustomers |-> {c \in Customer : new(c)},
           churned |-> {c \in Customer : left(c)}])
     /\ draft' = NoDraft
     /\ UNCHANGED metricVars

Record_ == Next /\ UNCHANGED <<draft, reports>>

ReportsNext == Begin \/ LoadAtEnd \/ LoadAtStart \/ Store \/ Record_

ReportsSpec == ReportsInit /\ [][ReportsNext]_reportVars

-----------------------------------------------------------------------------
ReportsTypeOK ==
  /\ TypeOK
  /\ draft.atEnd \in {NotLoaded} \cup 0 .. MaxRows /\ draft.atStart \in {NotLoaded} \cup 0 .. MaxRows
  /\ \A k \in DOMAIN reports : reports[k].mrrNow \in Nat /\ reports[k].mrrBefore \in Nat

Dated(low, high, rows) == {i \in rows : ledger[i].at > low /\ ledger[i].at <= high}
Sum(n, t) == Total({i \in Verified(n) : ledger[i].at <= t}, Delta)

\* The change of a report is what the rows dated within its period moved,
\* when both loads have seen the same rows; and of two reports the second
\* starts from the figure the first ended with, moved only by rows that were
\* recorded later with an earlier date.  (A balance below zero is shown as
\* zero.)
ReportsAddUp ==
  \A k \in DOMAIN reports :
    LET r == reports[k]
    IN /\ r.atEnd = r.atStart /\ Sum(r.atEnd, r.end) >= 0 /\ Sum(r.atEnd, r.start) >= 0 =>
            r.mrrNow - r.mrrBefore = Total(Dated(r.start, r.end, Verified(r.atEnd)), Delta)
       /\ \A j \in DOMAIN reports :
            LET q == reports[j]
            IN q.end = r.start /\ q.atEnd <= r.atStart
                 /\ Sum(q.atEnd, q.end) >= 0 /\ Sum(r.atStart, r.start) >= 0 =>
                 r.mrrBefore - q.mrrNow
                   = Total({i \in Verified(r.atStart) \ Verified(q.atEnd) : ledger[i].at <= q.end}, Delta)

\* "Revenue in period": when no row is recorded while a report is made, its
\* figure is the charges less the refunds dated within its period.
RevenueInPeriod ==
  \A k \in DOMAIN reports :
    LET r == reports[k]
    IN r.atEnd = r.atStart =>
         r.revenue = RevenueSince(0, Dated(r.start, r.end, Verified(r.atEnd)))
=============================================================================
