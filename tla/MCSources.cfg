SPECIFICATION ChainSpec
CONSTANTS
  Addrs = {a1, a2}
  HumanIDs = {h1, h2}
  NoID = NoID
  None = None
  MaxTTL = 2
  ValidityIvl = 2
  NegTTL = 3
  MaxPTRs = 2
  MaxCleanups = 2
  MaxTime = 4
SYMMETRY Symmetry
INVARIANTS
  IndexBacked
  NoDuplicateIDsInRace
PROPERTIES
  ContractKept
  IDStable
