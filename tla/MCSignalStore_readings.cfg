SPECIFICATION Spec
CONSTANTS
  Key = {self}
  Telemetry = {self}
  Type = {m1, m2, m3}
  Field = {f1, f2}
  None = None
  DeviceSlots = 1
  SubTable = 3
  PendingSlots = 1
  DeviceStale = 2
  SubStale = 1
  SweepWithin = 1
  Wrap = 4
  ArenaMayRunOut = FALSE
  MaxSeq = 4
SYMMETRY Symmetry
INVARIANTS FreshestReadingWins SilentDevicesGo
