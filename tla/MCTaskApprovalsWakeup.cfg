SPECIFICATION SpecAlive
CONSTANTS
  k1 = k1
  k2 = k2
  k3 = k3
  k4 = k4
  Task = {t1}
  Worker = {w1}
  Approval = {a1}
  NoTask = NoTask
  NoWorker = NoWorker
  NoApproval = NoApproval
  MaxAttempts = 1
  TaskTimeout = 1
  AgentTimeout = 1
  Grace = 0
  MaxPauses = 1
  MaxRetries = 0
  Key = {k1}
  Effectful = {}
  Asker = {q1}
  Caller = {c1}
  NoKey = NoKey
  ToolOf <- MCToolOf
  Calls <- MCCalls
  NoAsker = NoAsker
INVARIANT DecisionReleasesTask
CHECK_DEADLOCK FALSE
