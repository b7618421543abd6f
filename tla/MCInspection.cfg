SPECIFICATION Spec
CONSTANTS
  LiveJobs = {j1, j2}
  DemoJobs = {d1}
  NoJob = NoJob
  MaxVersion = 2
  MaxMoves = 4
INVARIANTS
  DrawerIsTrue
PROPERTIES
  DetailsNeverGoBack
  DetailsCatchUp
CHECK_DEADLOCK FALSE
