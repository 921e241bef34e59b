\* Every failure happens, POSTs are committed late, and it all stops.
SPECIFICATION FairSpec
CONSTANTS
  Homework <- MCOne
  PastDue <- MCOne
  MaxContent = 2
  MaxTasks = 4
  MirrorDone = TRUE
  MarkersKept = TRUE
  DeletePolicy = "close"
  RetryMax = 2
  BreakerThreshold = 2
  LatePosts = TRUE
  Shifts = {"list", "plan", "byid", "anchor"}
  MaxEdits = 1
  MaxPersons = 1
  MaxFaults = 2
  MaxCrashes = 1
PROPERTIES
  EventuallyMirrored
  BreakerRecovers
  DuplicatesRetired
