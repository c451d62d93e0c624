SPECIFICATION Spec
CONSTANTS
  Key = {k1, k2, self}
  Telemetry = {self}
  Type = {m1, m2, m3}
  Field = {}
  None = None
  DeviceSlots = 2
  SubTable = 3
  PendingSlots = 1
  DeviceStale = 1
  SubStale = 1
  SweepWithin = 1
  Wrap = 3
  ArenaMayRunOut = TRUE
  MaxSeq = 6
SYMMETRY Symmetry
INVARIANTS TablesAgree
PROPERTIES OnlyTheOldestIsEvicted RefusalsLeaveNoTrace ImplementsSubFrames
