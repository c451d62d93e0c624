SPECIFICATION Spec
CONSTANTS
  Topic = {t1}
  Value = {v1}
  Empty = Empty
  None = None
  Request = {}
  RetainFlags = {TRUE}
  PartialGrants <- Nothing
  MaxInFlight = 2
  Stream = {}
  Filter <- Everything
  MaxStreams = 0
  QuietTicks = 2
INVARIANTS SubackFindsRebuild
