SPECIFICATION Spec
CONSTANTS
  Topic = {t1}
  Value = {v1}
  Empty = Empty
  None = None
  Request = {}
  RetainFlags = {TRUE}
  PartialGrants <- Nothing
  MaxInFlight = 1
  Stream = {s1}
  Filter <- Everything
  MaxStreams = 1
  QuietTicks = 1
INVARIANTS NoGhosts
