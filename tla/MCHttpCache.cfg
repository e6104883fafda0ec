SPECIFICATION Spec
CONSTANTS
  f1 = f1
  f2 = f2
  None = None
  Unparsable = Unparsable
  MaxDelta = 4
  HeuristicPart = 10
  HeuristicMax = 2
  Fetches <- MCFetches
  Urls <- MCUrls
  Jars = {"", "jar"}
  OriginOf <- MCOrigin
  Requests <- MCRequests
  Probes <- MCProbes
  Replies <- MCReplies
  MaxBytes = 7
  MaxEntryBytes = 2
  Overhead = 1
  MaxTime = 1
  MaxVersion = 1
  MaxAsks = 3
SYMMETRY Alike
INVARIANTS
  Accounted
  AnswersStandUp
  OldWasOvertaken
CHECK_DEADLOCK FALSE
