SPECIFICATION Spec
CONSTANTS
  Focus = {"mqtt", "flash", "rain", "radio", "topics"}
  Url = {"d", "u", "b"}
  GoodUrl = {"d", "u"}
  Password = {"", "t"}
  NoPassword = ""
  BuildFlagRows <- BuildFlags
  TableSlots = 2
  Sensor = {"x"}
  AliasTopic = {"n"}
  SettingTopic = {}
  Word = {1, 2}
  Blank = Blank
  Backoff = 1
  MemoryMayRunOut = TRUE
  MaxTableEdits = 2
  MaxWrites = 2
  MaxBreaks = 1
  Store = {"table", "layout", "blob", "token", "zone", "wifi"}
  Content = {1, 2}
  Ssid = {"s", "r"}
  Pass = {"p", "q", "open"}
  Open = "open"
  Nil = Nil
  MaxSaves = 2
  MaxResets = 2
  Gauge = {"a", "b", "c"}
  RainSlots = 2
  NoRain = NoRain
  MaxRain = 2
  MaxNights = 2
  MaxMishaps = 1
  Wrap = 6
  SilentFor = 2
  RecoveryBackoff = 1
  TopicPart = {"a", "$s"}
  DollarPart = {"$s"}
  Flawed = {"a#"}
  MaxParts = 3
INVARIANTS ServesTable BrokersHold AnsweredIsKept RainOfToday RadioOkEarned MatchersAgree
PROPERTIES LinksComeBack
CHECK_DEADLOCK FALSE
