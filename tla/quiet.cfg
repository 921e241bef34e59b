\* Nothing fails; the source and a person in Vikunja change things during passes.
SPECIFICATION FairSpec
CONSTANTS
  Homework <- MCOne
  PastDue <- MCOne
  MaxContent = 3
  MaxTasks = 3
  MirrorDone = TRUE
  MarkersKept = TRUE
  DeletePolicy = "close"
  RetryMax = 2
  BreakerThreshold = 2
  LatePosts = FALSE
  Shifts = {"plan", "byid", "anchor"}
  MaxEdits = 4
  MaxPersons = 2
  MaxFaults = 0
  MaxCrashes = 0
INVARIANTS
  FingerprintFaithful
PROPERTY
  EditsArrive
