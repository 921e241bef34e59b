\* Two homework, POSTs that are committed late and lists that miss a task.
SPECIFICATION Spec
CONSTANTS
  Homework <- MCTwo
  PastDue <- MCOne
  MaxContent = 1
  MaxTasks = 5
  MirrorDone = TRUE
  MarkersKept = TRUE
  DeletePolicy = "delete"
  RetryMax = 2
  BreakerThreshold = 2
  LatePosts = TRUE
  Shifts = {"list", "plan", "byid", "anchor"}
  MaxEdits = 1
  MaxPersons = 1
  MaxFaults = 2
  MaxCrashes = 0
INVARIANTS
  OwnsItsTask
  OwnInv
