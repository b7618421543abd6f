SPECIFICATION Spec
CONSTANTS
  Servers = {u1, u2}
  NoUrl = NoUrl
  Keys = {snapshot, jobs}
  Presets = {0, 5}
  MaxVersion = 1
  MaxSlots = 3
  Home = u1
  Stored <- MCStored
  Defaults <- MCDefaults
  MaxMoves = 2
INVARIANTS
  DemoStaysDemo
  BusyFlagsMeanWork
PROPERTIES
  DataNeverGoesBack
  CatchesUp
  HiddenComesToRest
CHECK_DEADLOCK FALSE
