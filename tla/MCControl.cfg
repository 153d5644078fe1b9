SPECIFICATION ControlFairSpec
CONSTANTS
  Ctls = {c1, c2}
  Systems = {"systemd", "launchd"}
INVARIANTS
  ControlTypeOK
  StorageOutlivesDNS
  StoppedMeansDown
  InstalledConfigured
  StatusTruthful
PROPERTIES
  ConfigKept
  StopReturns
