SPECIFICATION FairSpec
CONSTANTS
  Loggers = {"env", "conf"}
  Severities <- TwoSeverities
  Writers = {"main", "svc"}
  MaxDeaths = 1
  None = None
INVARIANTS
  LoggerUsable
  NothingLeft
  LevelAsAsked
PROPERTY
  NoStuckLogs
\* The process ends, or hangs after the death of a logger process.
CHECK_DEADLOCK FALSE
