SPECIFICATION ServicesSpec
CONSTANTS
  Event = {e1, e2}
  Manual = {n1}
  Subscription = {s1, s2}
  Customer = {c1}
  CustomerOf <- OneCustomer
  Call = {k1, k2}
  MaxMrr = 1
  NoRow = NoRow
  NoEvent = NoEvent
  MetricsCustomer = {c1}
  MetricsAmounts = {1, 2}
  MetricsMonthsBack = 2
  MetricsMaxRows = 2
  MetricsMaxTime = 3
  ReportCustomer = {c1}
  ReportAmounts = {1}
  ReportMonthsBack = 1
  ReportMaxRows = 2
  ReportMaxTime = 1
  MaxReports = 1
  Payment = {p1}
  MaxAmount = 3
  Page = 1
  MaxKeys = 2
  Candidate = {x1, x2, x3}
  Draws = 4
  Percents = {0, 10, 30, 40, 50}
  Budget = 100
  Tickets = {0, 20}
  MaxRounds = 10
  Profile = {0}
  Matches = {0, 10}
  Mails = {"none", "free"}
  Intent = {"signup", "activation"}
  Run = {r1, r2}
  Views = {0, 5}
  MaxRuns = 2
  MaxChanges = 2
  Visitor = {v1, v2}
  Email = {m1}
  Variants = {1, 2}
  Forwarding = {f1}
  MaxConfigs = 2
  NoOne = NoOne
SYMMETRY RevenueSymmetry
INVARIANTS
  SumFollowsEvents
  CustomerAgreesWithLedger
  FiguresAddUp
  VisitorsAreCounted
PROPERTY MoreIsNeverLess
CHECK_DEADLOCK FALSE
