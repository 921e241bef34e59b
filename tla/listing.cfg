\* Pages of tasks and labels while other clients create, delete, attach and detach.
SPECIFICATION Spec
CONSTANTS
  PageSize = 2
  MaxTasks = 4
  MaxLabels = 7
  InitTasks <- MCInitTasks
  Mapped <- MCMapped
  Mine = 3
  Wanted <- MCWanted
  Obsolete <- MCObsolete
  Human <- MCHuman
  InitTitle <- MCInitTitle
  MaxOthers = 3
  MaxFaults = 1
INVARIANTS
  TypeOK
  WantedAttached
  OneLabelPerTitle
PROPERTIES
  LetsGoAfterDeletion
  HumanLabelsKept
CHECK_DEADLOCK FALSE
