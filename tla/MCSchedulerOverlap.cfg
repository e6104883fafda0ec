SPECIFICATION QueueSpec
CONSTANTS
  h1 = h1
  h2 = h2
  bg = bg
  idle = idle
  Requests = {h1, bg}
  LaneOf <- Mixed
  Background = {bg}
  MaxRuns = 2
  Overlap = TRUE
INVARIANT
  OpenWhileRunning
CHECK_DEADLOCK FALSE
