SPECIFICATION LiveSpec
CONSTANTS
  k1 = k1
  k2 = k2
  a1 = a1
  a2 = a2
  tz = tz
  Key = {k1, k2}
  None = None
  SubTable = 2
  AliasTopic = {a1}
  AliasSlots = 1
  Setting <- SettingValue
  AlwaysSet = {tz}
  Wants = {{k1, k2, a1, tz}}
  SseClients = 1
  ReplayPerLoop = 1
  MaxSeq = 3
  MaxAttach = 1
PROPERTIES RetainedBeforeLive
