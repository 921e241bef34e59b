\* A deferred operation and a later step of the same homework.
SPECIFICATION Spec
CONSTANTS
  Homework <- MCOne
  PastDue <- MCOne
  MaxContent = 2
  MaxTasks = 3
  MirrorDone = TRUE
  MarkersKept = TRUE
  DeletePolicy = "close"
  RetryMax = 2
  BreakerThreshold = 2
  LatePosts = FALSE
  Shifts = {}
  MaxEdits = 2
  MaxPersons = 0
  MaxFaults = 2
  MaxCrashes = 0
INVARIANT
  FingerprintFaithful
