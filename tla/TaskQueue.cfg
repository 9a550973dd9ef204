SPECIFICATION FairSpec
CONSTANTS
  Task = {t1, t2}
  Worker = {w1, w2}
  Approval = {a1}
  NoTask = NoTask
  NoWorker = NoWorker
  NoApproval = NoApproval
  MaxAttempts = 2
  TaskTimeout = 1
  AgentTimeout = 1
  Grace = 1
  MaxPauses = 1
  MaxRetries = 1
INVARIANTS
  TypeOK
  SoleRunner
  AttemptBound
PROPERTIES
  TerminalIsFinal
  SweepTakesOnlyDeadRuns
  EveryTaskSettles
CHECK_DEADLOCK FALSE
