SPECIFICATION ReportsSpec
CONSTANTS
  Customer = {c1}
  Amounts = {1}
  MonthsBack = 1
  MaxRows = 2
  MaxTime = 1
  MaxReports = 1
INVARIANT RevenueInPeriod
CHECK_DEADLOCK FALSE
