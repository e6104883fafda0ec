SPECIFICATION FairSpec
CONSTANTS
  h1 = h1
  h2 = h2
  bg = bg
  idle = idle
  Requests = {h1, bg, idle}
  LaneOf <- Mixed
  Background = {bg}
  MaxRuns = 2
  Overlap = FALSE
INVARIANTS
  NoneStranded
  OpenWhileRunning
  NoLostWakeup
PROPERTY
  QueuedIsTaken
CHECK_DEADLOCK FALSE
