SPECIFICATION Spec
CONSTANTS
  Servers = {u1, u2}
  NoUrl = NoUrl
  Keys = {snapshot, jobs}
  Presets = {0, 5}
  MaxVersion = 1
  MaxSlots = 3
  Home = u1
  Stored <- MCStored
  Defaults <- MCDefaults
  MaxMoves = 1
INVARIANT CancellationIsSilent
CHECK_DEADLOCK FALSE
