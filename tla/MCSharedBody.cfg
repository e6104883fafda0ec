SPECIFICATION SlimSpec
CONSTANTS
  s1 = s1
  s2 = s2
  s3 = s3
  None = None
  Subs = {s1, s2, s3}
  Kind <- EachKind
  BodyLen = 3
  Queue = 1
  ReplayLimit = 1
  MaxSizes = {2, 3}
INVARIANTS
  BodyDelivered
  FileIsWhole
PROPERTIES
  StreamsEnd
CHECK_DEADLOCK FALSE
