SPECIFICATION LocalSpec
CONSTANTS
  r1 = r1
  r2 = r2
  r3 = r3
  k1 = k1
  None = None
  Requests = {r1, r2}
  Keys = {k1}
  KeyOf <- OneKey
  Streaming = {r2}
  MaxRuns = 2
  Stops = 1
INVARIANTS
  NoForeignCancel
PROPERTIES
  KeepsPromise
  CallersAnswered
CHECK_DEADLOCK FALSE
