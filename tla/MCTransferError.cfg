SPECIFICATION Spec
CONSTANTS
  None = None
  PEEK_MAX = 1
  MaxBody = 3
  max_entry_bytes = 2
  Requests <- SomeRequests
INVARIANTS
  ErrorIsFailed
CHECK_DEADLOCK FALSE
