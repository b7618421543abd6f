SPECIFICATION WorkflowSpec
CONSTANTS
  Jobs = {a, d}
  NoJob = NoJob
  Slots = {w1, w2}
  Queues = {q1}
  Priorities <- MCPriorities
  ReadyKeys <- MCReadyKeys
  MaxAttempts <- MCMaxAttempts
  ActivationBatch = 2
  RecoveryBatch = 2
  Budget <- MCBudget
  Deps <- MCDeps
  AllowFailed <- MCAllowFailed
  LeasesLapse = TRUE
  Upstream = {a}
  Lenient = FALSE
  AttemptLimit = 1
  Crashes = 1
  Throttles = 0
  CancelLimit = 1
SYMMETRY SlotSymmetry
INVARIANTS
  BlockedUntilSuccess
  CompletedRowIsTrue
CHECK_DEADLOCK FALSE
