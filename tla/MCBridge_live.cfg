SPECIFICATION FairSpec
CONSTANTS
  Topic = {t1}
  Value = {v1}
  Empty = Empty
  None = None
  Request = {r1, r2}
  RetainFlags = {TRUE}
  PartialGrants <- RefusedOutright
  MaxInFlight = 2
  Stream = {s1}
  Filter <- Everything
  MaxStreams = 1
  QuietTicks = 1
PROPERTIES EveryPostAnswered DeparturesResolved AckedIsVisible
