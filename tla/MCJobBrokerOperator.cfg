SPECIFICATION Spec
CONSTANTS
  Jobs = {j1}
  NoJob = NoJob
  Slots = {w1, w2}
  Queues = {q1, q2}
  Priorities <- MCPriorities
  ReadyKeys <- MCReadyKeys
  MaxAttempts <- MCMaxAttempts
  ActivationBatch = 1
  RecoveryBatch = 1
  Budget <- MCBudget
  AttemptLimit = 2
  Crashes = 0
  Throttles = 0
  Retries = 1
  Cancels = 1
  Unblocks = 1
SYMMETRY SlotSymmetry
INVARIANTS
  TypeOK
  ActiveIsLeased
  NoJobLost
  FailedIsDeadLettered
  OnlyLatestGrantSettles
CHECK_DEADLOCK FALSE
