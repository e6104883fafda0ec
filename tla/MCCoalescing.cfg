SPECIFICATION Spec
CONSTANTS
  r1 = r1
  r2 = r2
  r3 = r3
  k1 = k1
  None = None
  Requests = {r1, r2, r3}
  Keys = {k1}
  KeyOf <- OneKey
  Streaming = {r2}
  MaxRuns = 1
  Stops = 0
SYMMETRY Alike
INVARIANTS
  NotCancelledUnderReader
  OneFetchPerKey
  EveryRequestEnds
