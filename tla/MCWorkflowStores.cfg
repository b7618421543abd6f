SPECIFICATION WorkflowSpec
CONSTANTS
  Jobs = {a, d}
  NoJob = NoJob
  Slots = {w1, w2}
  Queues = {q1}
  Priorities <- MCPriorities
  ReadyKeys <- MCReadyKeys
  MaxAttempts <- MCMaxAttempts
  ActivationBatch = 2
  RecoveryBatch = 2
  Budget <- MCBudget
  Deps <- MCDeps
  AllowFailed <- MCAllowFailed
  LeasesLapse = FALSE
  Upstream = {a}
  Lenient = FALSE
  AttemptLimit = 1
  Crashes = 0
  Throttles = 0
  CancelLimit = 0
SYMMETRY SlotSymmetry
INVARIANTS
  StoresAgreeAtRest
CHECK_DEADLOCK FALSE
