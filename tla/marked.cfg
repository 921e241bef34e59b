\* One homework, markers kept, every kind of failure and of wrong answer.
SPECIFICATION Spec
CONSTANTS
  Homework <- MCOne
  PastDue <- MCOne
  MaxContent = 2
  MaxTasks = 3
  MirrorDone = FALSE
  MarkersKept = TRUE
  DeletePolicy = "close"
  RetryMax = 2
  BreakerThreshold = 2
  LatePosts = FALSE
  Shifts = {"list", "plan", "byid"}
  MaxEdits = 3
  MaxPersons = 1
  MaxFaults = 3
  MaxCrashes = 1
INVARIANTS
  TypeOK
  SingleTask
  NoForgottenTask
  CloseNeedsCover
  HeartbeatMeansSettled
  OneInv
  PassInv
PROPERTIES
  MappingKept
  TickStands
  KeepsBonds
