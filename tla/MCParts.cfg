SPECIFICATION Spec
CONSTANTS
  Focus = {"cards", "sources", "settings", "names", "bridges", "feeds", "tokens", "shutdown", "certs"}
  self = self
  dev = dev
  feed = feed
  A = A
  B = B
  own = own
  r1 = r1
  r2 = r2
  d1 = d1
  z1 = z1
  z2 = z2
  Card = {self, dev, feed}
  SelfCard = {self}
  FeedCard = {feed}
  Base = {A, B}
  LocalBase = own
  Origin = A
  SourceOf <- CardSources
  Slot = {"receiver", "device", "feed"}
  SlotOf <- CardSlots
  Renamed = {}
  SiteTemplate <- SiteDefault
  Finger = {1}
  Nothing = Nothing
  DeviceMax = 1
  StorageMayFail = TRUE
  MaxEdits = 1
  Source = {A, B}
  HomeSource = A
  RemoteSource = {}
  Device = {r1, d1}
  DeviceSource <- DeviceSources
  Receiver = {r1}
  Told = {"layout"}
  NamedSource = {A}
  NoneStored = NoneStored
  DevicesKept = 1
  StorageFails = TRUE
  MaxTurns = 2
  MaxOutages = 1
  SourceList <- Sources
  OwnSource = A
  Units = {"metric", "imperial"}
  Metric = "metric"
  Place = {"p", "q"}
  Zone = {z1, z2}
  LocalZone = z1
  ZoneOffset <- ZoneOffsets
  Unset = Unset
  MayRefuse = TRUE
  MaxChoices = 2
  MaxNews = 1
  Name = {"a"}
  Unnamed = ""
  MaxRenames = 3
  Unknown = Unknown
  MaxTableLoads = 3
  MaxTableChanges = 2
  Feed = {"weather", "sun"}
  CachedFeed = {"weather"}
  Site = {"p", "q"}
  NoSite = ""
  CacheRefuses = TRUE
  MaxMoves = 3
  Token = {"a", "b", "c"}
  ConfigToken = "a"
  Empty = Empty
  MaxRotations = 2
  MaxCrashes = 2
  Conn = {1, 2}
  EchoTimeout = 2
  BodyIdleTimeout = 2
  Margin = 2
  Off = Off
  LinkDir = "live"
  TargetDir = {"one", "two"}
  Gone = Gone
  MaxChanges = 3
INVARIANTS PartsTypeOK CardsAgree ReloadRestores SiteLayoutsLoad StreamPerSource NothingOfRemoved ChoicesStick NamesSettle MirrorFresh FeedsOfPlace TokensAgree ShutdownInTime CertsCurrent
PROPERTIES EditsStand SourcesGoLive TzSettles
CHECK_DEADLOCK FALSE
