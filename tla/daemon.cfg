\* A daemon and a cron job on one state file, with failing, killed and skipped runs.
SPECIFICATION Spec
CONSTANTS
  Cadence = 4
  MaxRun = 2
  MaxFaults = 2
  Cron <- MCCron
  Loop <- MCLoop
INVARIANTS
  TypeOK
  AskedToHeartbeat
  DaemonInv
  OneProject
  NoFalseAlarm
PROPERTIES
  HeartbeatNeverBack
  SignalStops
  HealthReturns
CHECK_DEADLOCK FALSE
