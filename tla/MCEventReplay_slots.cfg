SPECIFICATION Spec
CONSTANTS
  k1 = k1
  k2 = k2
  a1 = a1
  a2 = a2
  tz = tz
  Key = {k1}
  None = None
  SubTable = 1
  AliasTopic = {a1}
  AliasSlots = 1
  Setting <- SettingValue
  AlwaysSet = {tz}
  Wants = {{k1, a1, tz}}
  SseClients = 2
  ReplayPerLoop = 1
  MaxSeq = 1
  MaxAttach = 3
PROPERTIES ReplayEnds
