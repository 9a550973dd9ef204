------------------------------- MODULE MCMoney ------------------------------
(***************************************************************************)
(* The ledger, the figures that are computed from it and from customers    *)
(* and payments, and the visitors and leads that they come from, each on a *)
(* small instance.  They are checked side by side: a behaviour is that of  *)
(* one service, chosen at the start, and a property of another says        *)
(* nothing of it.                                                          *)
(***************************************************************************)
EXTENDS Revenue, TLC

CONSTANTS
  MetricsCustomer, MetricsAmounts, MetricsMonthsBack, MetricsMaxRows,
    MetricsMaxTime,
  ReportCustomer, ReportAmounts, ReportMonthsBack, ReportMaxRows,
    ReportMaxTime, MaxReports,
  Payment, MaxAmount, Page, MaxKeys,
  Candidate, Draws, Percents, Budget, Tickets, MaxRounds,
  Profile, Matches, Mails, Intent, Run, Views, MaxRuns, MaxChanges,
  Visitor, Email, Variants, Forwarding, MaxConfigs, NoOne

ASSUME MetricsAssumption ==
  /\ MetricsAmounts \cup ReportAmounts \subseteq Int
  /\ {MetricsMonthsBack, ReportMonthsBack} \subseteq Nat \ {0}
  /\ {MetricsMaxRows, ReportMaxRows, MetricsMaxTime, ReportMaxTime} \subseteq Nat
ASSUME AllocationAssumption ==
  /\ IsFiniteSet(Candidate) /\ Draws \in Nat \ {0} /\ Percents \subseteq 0 .. 100
  /\ Budget \in Nat /\ Tickets \subseteq Nat /\ MaxRounds \in Nat
ASSUME BillingAssumption == MaxAmount \in Nat /\ MaxKeys \in Nat \ {0}
\* A page is configured with one variant at least, and 0 stands for none; a
\* signup is among what a lead may do, and so is to have seen no page yet.
ASSUME FunnelAssumption ==
  /\ Variants \subseteq Nat \ {0} /\ Variants # {}
  /\ MaxConfigs \in Nat \ {0}
ASSUME LeadAssumption ==
  /\ Profile \subseteq Int /\ "signup" \in Intent
  /\ Matches \subseteq Int /\ 0 \in Matches /\ Mails \subseteq {"none", "free", "company"}
  /\ Views \subseteq Nat /\ 0 \in Views
  /\ {MaxRuns, MaxChanges} \subseteq Nat

VARIABLES
  service,   \* the service that this behaviour is about
  metricsNow, metricsLedger, metricsCustomers,
  reportNow, reportLedger, reportCustomers, draft, reports,
  paid, told, billingLedger, taken, key, sync, synced,
  wins, floor, cap, ticket, share, whole, round, step, amount, notes,
  lead, events, fit, referrals, leadScore, run, runs, changes, owed,
    changed, leadOverlapped, dropped,
  signups, config, funnelStored, leads, suppressed, tracked, forward,
    unsubscribing, configs, unsubscribed

Metr == INSTANCE Metrics WITH
          Customer <- MetricsCustomer, Amounts <- MetricsAmounts,
          MonthsBack <- MetricsMonthsBack, MaxRows <- MetricsMaxRows,
          MaxTime <- MetricsMaxTime, now <- metricsNow,
          ledger <- metricsLedger, customers <- metricsCustomers
Rep == INSTANCE Metrics WITH
          Customer <- ReportCustomer, Amounts <- ReportAmounts,
          MonthsBack <- ReportMonthsBack, MaxRows <- ReportMaxRows,
          MaxTime <- ReportMaxTime, now <- reportNow, ledger <- reportLedger,
          customers <- reportCustomers
Bill == INSTANCE Billing WITH
          ledger <- billingLedger
Alloc == INSTANCE Allocation
Funn == INSTANCE Funnel WITH
          stored <- funnelStored

Services == {"revenue", "metrics", "reports", "billing", "allocation",
              "leads", "funnel"}

metricsState == <<metricsNow, metricsLedger, metricsCustomers>>
reportsState == <<reportNow, reportLedger, reportCustomers, draft, reports>>
billingState == <<paid, told, billingLedger, taken, key, sync, synced>>
allocationState == <<wins, floor, cap, ticket, share, whole, round, step,
                     amount, notes>>
leadsState == <<lead, events, fit, referrals, leadScore, run, runs, changes,
                owed, changed, leadOverlapped, dropped>>
funnelState == <<signups, config, funnelStored, leads, suppressed, tracked,
                 forward, unsubscribing, configs, unsubscribed>>

all ==
  <<service, vars,
    metricsState, reportsState, billingState, allocationState, leadsState,
    funnelState>>

\* What the services other than one keep does not change.
Rest(me) ==
  /\ UNCHANGED service
  /\ IF me = "revenue" THEN TRUE ELSE UNCHANGED vars
  /\ IF me = "metrics" THEN TRUE ELSE UNCHANGED metricsState
  /\ IF me = "reports" THEN TRUE ELSE UNCHANGED reportsState
  /\ IF me = "billing" THEN TRUE ELSE UNCHANGED billingState
  /\ IF me = "allocation" THEN TRUE ELSE UNCHANGED allocationState
  /\ IF me = "leads" THEN TRUE ELSE UNCHANGED leadsState
  /\ IF me = "funnel" THEN TRUE ELSE UNCHANGED funnelState

AnyCandidate == CHOOSE c \in Candidate : TRUE

ServicesInit ==
  /\ service \in Services
  /\ Init
  /\ Metr!Init
  /\ Rep!ReportsInit
  /\ Bill!Init
  /\ Alloc!Init
  /\ service = "allocation" \/ (wins = [c \in Candidate |-> IF c = AnyCandidate THEN Draws ELSE 0] /\ floor = 0 /\ cap = 10 /\ ticket = 0)
  /\ Funn!LeadInit
  /\ service = "leads" \/ (lead.profile = 0 /\ lead.mail = "none" /\ lead.consent = "unknown"
                         /\ fit = 0)
  /\ Funn!Init

ServicesNext ==
  \/ service = "revenue" /\ Next /\ Rest("revenue")
  \/ service = "metrics" /\ Metr!Next /\ Rest("metrics")
  \/ service = "reports" /\ Rep!ReportsNext /\ Rest("reports")
  \/ service = "billing" /\ Bill!Next /\ Rest("billing")
  \/ service = "allocation" /\ Alloc!Next /\ Rest("allocation")
  \/ service = "leads" /\ Funn!LeadNext /\ Rest("leads")
  \/ service = "funnel" /\ Funn!Next /\ Rest("funnel")

ServicesSpec == ServicesInit /\ [][ServicesNext]_all

-----------------------------------------------------------------------------
(* The figures of the dashboard and of a report come to what the rows of   *)
(* the ledger, of the customers and of the payments come to, month by      *)
(* month: a cancellation is of somebody who was a customer, money that     *)
(* Stripe has told of twice is counted once, and an allocation hands out   *)
(* its budget and no more.  The rows of the ledger keep their types.       *)
FiguresAddUp ==
  /\ service = "revenue" => TypeOK
  /\ service = "metrics" => Metr!TypeOK /\ Metr!SeriesAddsUp /\ Metr!LeaversWereThere
  /\ service = "reports" => Rep!ReportsTypeOK /\ Rep!ReportsAddUp
  /\ service = "billing" => Bill!TypeOK /\ Bill!MoneyIsCountedOnce
  /\ service = "allocation" => Alloc!TypeOK /\ Alloc!BudgetIsSplit

(* What visitors do is counted as they did it: a signup that is counted    *)
(* has its lead, a visitor sees one variant, who has unsubscribed is shown *)
(* as such, and the score of a lead is that of its data, when nothing has  *)
(* changed since the last rescoring began and no two have overlapped.      *)
VisitorsAreCounted ==
  /\ service = "funnel" => Funn!TypeOK /\ Funn!CountedSignupHasLead
                            /\ Funn!OneVariantPerVisitor /\ Funn!UnsubscribedShows
  /\ service = "leads" => Funn!LeadTypeOK /\ Funn!ScoreIsCurrent

(* More activity of a lead never lowers its score, unless two rescorings   *)
(* have overlapped or the opportunity's keywords fit the lead less.        *)
MoreIsNeverLess == Funn!MoreIsNeverLess
=============================================================================
