SPECIFICATION FairSpec
CONSTANTS
  Procs = {p1, p2}
  Groups = {g1, g2}
  Originals <- AllConfs
  WriteModes = {TRUE, FALSE}
  MaxClock = 2
  MaxInterrupts = 2
  None = None
  Empty = Empty
  Torn = Torn
INVARIANTS
  TypeOK
  OriginalRecoverable
  FileWhole
  UnmigratableUntouched
PROPERTIES
  BackupsKept
  EventuallyMigrated
