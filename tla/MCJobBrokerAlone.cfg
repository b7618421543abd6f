SPECIFICATION FairSpec
CONSTANTS
  Jobs = {j1, j2}
  NoJob = NoJob
  Slots = {w1, w2}
  Queues = {q1}
  Priorities <- MCPriorities
  ReadyKeys <- MCReadyKeys
  MaxAttempts <- MCMaxAttempts
  ActivationBatch = 2
  RecoveryBatch = 2
  Budget <- MCBudget
  AttemptLimit = 2
  Crashes = 1
  Throttles = 1
  Retries = 0
  Cancels = 0
  Unblocks = 0
INVARIANTS
  OneHome
  AttemptsBounded
PROPERTIES
  FinishedIsFinal
  EveryJobFinishes
CHECK_DEADLOCK FALSE
