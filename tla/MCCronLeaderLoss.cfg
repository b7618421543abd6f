SPECIFICATION Spec
CONSTANTS
  Schedulers = {s1, s2}
  Schedules = {c1}
  MaxClock = 3
  ClaimTTL = 9
  Budget <- MCBudget
  Crashes = 1
  Errors = 0
  Edits = 0
PROPERTIES
  SkippedIsDispatched
CHECK_DEADLOCK FALSE
