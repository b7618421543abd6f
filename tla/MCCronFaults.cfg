SPECIFICATION Spec
CONSTANTS
  Schedulers = {s1, s2}
  Schedules = {c1}
  MaxClock = 3
  ClaimTTL = 2
  Budget <- MCBudget
  Crashes = 1
  Errors = 1
  Edits = 1
SYMMETRY SchedulerSymmetry
INVARIANTS
  TypeOK
  DispatchedOnce
CHECK_DEADLOCK FALSE
