SPECIFICATION ServicesSpec
CONSTANTS
  Ticker = {w1, w2}
  MinSample = 2
  MaxSample = 6
  MaxDays = 2
  Client = {c1}
  MaxEvent = 4
  Limit = 2
  Recent = 1
  MaxDrops = 2
  Org = {o1, o2}
  MaxVersion = 1
  MaxFailures = 1
  MaxMoves = 1
  Polls = TRUE
  Watches = TRUE
  Hit = {h1, h2}
  HitLimit = 2
  Window = 3
  MaxCount = 4
  MaxDeaths = 2
  Task = {t1, t2}
  Providers = 2
  DailyBudget = 4
  MaxTaskUsd = 3
  Estimated = 1
  MaxCost = 2
  Act = {a1, a2}
  MaxPerDay = 2
  MaxAmount = 1
  Amounts = {1, 2}
  MaxDone = 5
INVARIANTS
  OnceAndInOrder
PROPERTIES
  AllowancesKept
  NothingGoesBack
  EverythingEnds
CHECK_DEADLOCK FALSE
