SPECIFICATION Spec
CONSTANTS
  k1 = k1
  k2 = k2
  a1 = a1
  a2 = a2
  tz = tz
  Key = {k1, k2}
  None = None
  SubTable = 2
  AliasTopic = {a1, a2}
  AliasSlots = 1
  Setting <- SettingValue
  AlwaysSet = {tz}
  Wants <- WantsValue
  SseClients = 1
  ReplayPerLoop = 2
  MaxSeq = 4
  MaxAttach = 1
INVARIANTS NothingLost SentOnce NamesCurrent
