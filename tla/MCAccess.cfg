SPECIFICATION ServicesSpec
CONSTANTS
  spend = spend
  trade = trade
  Action = {spend, trade}
  Default <- MCDefault
  Ceiling <- MCCeiling
  Changer = {p1, p2}
  Approval = {a1}
  MaxLimit = 0
  NoAction = NoAction
  User = {u1, u2}
  Session = {s1, s2}
  Key = {k1}
  Request = {r1, r2}
  Grantable = {"admin"}
  Attempt = {a1, a2}
  LockAfter = 3
  MaxBad = 6
  Origin = {o1, o2}
  AllowPrivate = FALSE
  MaxRedirects = 2
  MaxBytes = 1
  Writer = {w1, w2}
  Org = {o1, o2}
  Entry = {"a", "b"}
  MaxSeq = 3
  Step = {s1, s2}
  SettingsLimit = {l1, l2}
  Assumption = {f1}
  ConstraintsStep = s1
  Caller = {c1, c2}
  MaxChanges = 3
  SecretProcess = {p1, p2}
  Call = {c1}
  SecretAge = 1
  RouterAge = 2
  MaxCallAge = 1
  MaxSets = 2
  MaxKeys = 3
  SecretNoOne = NoOne
  StartProcess = {a1, w1, c1}
  StartApi = {a1}
  Worker = {w1}
  Migrations = 2
  Stages = 1
  MaxStarts = 3
  StartNoOne = NoOne
  Project = {j1}
  Deployment = {d1, d2}
  DeployProcess = {api, wrk}
  DeployApi = api
  Ports = {1}
  MaxRestarts = 1
  TimeoutMs = 2
  MaxAge = 4
INVARIANTS
  NeverBeyondApproved
  AccountsAreKept
  RequestsAreAuthorised
  FetchesKeepToPolicy
  RecordsStand
  StartsAreOrderly
  GeneratedCodeIsKept
PROPERTY EnoughFailuresLock
CHECK_DEADLOCK FALSE
