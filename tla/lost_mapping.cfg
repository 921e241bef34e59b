\* An id that is saved, on a server that strips markers.
SPECIFICATION Spec
CONSTANTS
  Homework <- MCOne
  PastDue <- MCOne
  MaxContent = 2
  MaxTasks = 3
  MirrorDone = TRUE
  MarkersKept = FALSE
  DeletePolicy = "close"
  RetryMax = 2
  BreakerThreshold = 2
  LatePosts = FALSE
  Shifts = {}
  MaxEdits = 0
  MaxPersons = 0
  MaxFaults = 1
  MaxCrashes = 0
PROPERTY
  MappingKept
