SPECIFICATION Spec
CONSTANTS
  Event = {e1, e2, e3}
  Manual = {}
  Subscription = {s1}
  Customer = {c1}
  CustomerOf <- OneCustomer
  Call = {k1}
  MaxMrr = 1
  NoRow = NoRow
  NoEvent = NoEvent
SYMMETRY RevenueSymmetry
PROPERTY AppliedOnce
CHECK_DEADLOCK FALSE
