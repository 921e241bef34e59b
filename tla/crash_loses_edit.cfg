\* A crash, an edit and no failed call.
SPECIFICATION Spec
CONSTANTS
  Homework <- MCOne
  PastDue <- MCOne
  MaxContent = 2
  MaxTasks = 3
  MirrorDone = TRUE
  MarkersKept = TRUE
  DeletePolicy = "close"
  RetryMax = 2
  BreakerThreshold = 2
  LatePosts = FALSE
  Shifts = {}
  MaxEdits = 2
  MaxPersons = 0
  MaxFaults = 0
  MaxCrashes = 1
INVARIANT
  FingerprintFaithful
