SPECIFICATION Spec
CONSTANTS
  Topic = {t1, t2}
  Value = {v1}
  Empty = Empty
  None = None
  Request = {}
  RetainFlags = {TRUE}
  PartialGrants <- AllButOne
  MaxInFlight = 2
  Stream = {s1, s2}
  Filter <- AllOrOne
  MaxStreams = 1
  QuietTicks = 2
SYMMETRY Symmetry
PROPERTIES ImplementsBoard
INVARIANTS StreamsFollowCache DepartedAreGone CacheInBrokerOrder
