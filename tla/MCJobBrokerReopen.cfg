SPECIFICATION Spec
CONSTANTS
  Jobs = {j1}
  NoJob = NoJob
  Slots = {w1}
  Queues = {q1}
  Priorities <- MCPriorities
  ReadyKeys <- MCReadyKeys
  MaxAttempts <- MCMaxAttempts
  ActivationBatch = 1
  RecoveryBatch = 1
  Budget <- MCBudget
  AttemptLimit = 2
  Crashes = 0
  Throttles = 0
  Retries = 1
  Cancels = 0
  Unblocks = 0
PROPERTY CompletedLeavesByRetry
CHECK_DEADLOCK FALSE
