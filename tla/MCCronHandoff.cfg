SPECIFICATION FairSpec
CONSTANTS
  Schedulers = {s1, s2}
  Schedules = {c1}
  MaxClock = 3
  ClaimTTL = 9
  Budget <- MCBudget
  Crashes = 0
  Errors = 0
  Edits = 0
PROPERTIES
  NextRunAdvances
  EverySlotDispatched
  SkippedIsDispatched
CHECK_DEADLOCK FALSE
