SPECIFICATION Spec
CONSTANTS
  k1 = k1
  k2 = k2
  k3 = k3
  k4 = k4
  Task = {t1}
  Worker = {w1}
  Approval = {a1, a2}
  NoTask = NoTask
  NoWorker = NoWorker
  NoApproval = NoApproval
  MaxAttempts = 2
  TaskTimeout = 1
  AgentTimeout = 1
  Grace = 0
  MaxPauses = 2
  MaxRetries = 1
  Key = {k1, k3, k4}
  Effectful = {k4}
  Asker = {q1}
  Caller = {c1}
  NoKey = NoKey
  ToolOf <- MCToolOf
  Calls <- MCCalls
  NoAsker = NoAsker
SYMMETRY MCSymmetry
INVARIANTS
  GatedRunNeedsHuman
PROPERTY OnlyApprovalResumes
CHECK_DEADLOCK FALSE
