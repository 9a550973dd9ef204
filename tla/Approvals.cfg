SPECIFICATION Spec
CONSTANTS
  Approval = {a1, a2}
  Key = {k1, k2}
  Effectful = {k1}
  Asker = {q1, q2}
  Caller = {c1, c2}
  Task = {t1}
  NoTask = NoTask
  NoKey = NoKey
  NoApproval = NoApproval
SYMMETRY CallSymmetry
INVARIANTS
  TypeOK
  StatusTellsTheTruth
PROPERTY KeepsPromise
CHECK_DEADLOCK FALSE
