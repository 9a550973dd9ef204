SPECIFICATION ServicesSpec
CONSTANTS
  Experiment = {e1, e2, e3}
  Budgeted = {e1, e2}
  Approval = {a1, a2}
  Starter = {s1, s2}
  Evaluator = {v1}
  SpendDecision = {"deny", "require_approval"}
  NoExperiment = NoExperiment
  NoApproval = NoApproval
  MaxStarts = 2
  Scan = {n1, n2}
  Doc = {d1, d2, k1}
  Context = {k1}
  Quotes = 1
  Fingerprint = {"f"}
  MaxScans = 2
  Worker = {g1, g2}
  Hyp = {1, 2, 3, 4}
  Tested = {2}
  DraftCounts = {2}
  Chooser = {x1}
  NoHyp = NoHyp
  Project = {1, 2}
  PipeExperiment = {11, 12}
  MaxAttempts = 2
  MaxErrors = 1
  MaxTasks = 4
  MaxCommands = 2
  Run = {r1, r2}
  MinInterval = 1
  CacheTtl = 1
  RobotsTtl = 2
  Timeout = 1
  MaxLines = 4
  MaxPattern = 2
  Process = {w1, w2}
  Actor = {a1, a2}
  MinOutcomes = 2
  MaxInputs = 2
  MaxVersions = 2
  Documents = {12}
  Levels = {20, 90}
  Weeks = {30}
  Competitions = {"high"}
  Spread = 20
SYMMETRY MCSymmetry
INVARIANTS
  FindingsStand
  PipelineIsSound
  CopiesFollowSources
  ComputedAsWritten
PROPERTIES
  SpendIsLicensed
  ResearchStepsAreSound
  WorseScoresNoHigher
CHECK_DEADLOCK FALSE
