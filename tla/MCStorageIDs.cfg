SPECIFICATION Spec
CONSTANTS
  a1 = a1
  a2 = a2
  q1 = q1
  q2 = q2
  d1 = d1
  d2 = d2
  Reqs = {r1, r2}
  Addrs = {a1, a2}
  Questions = {q2}
  Domains = {d2}
  Sacs <- TwoPrefixes
  Covers <- CoversOne
  Static <- NoStatic
  Identifiable = {a1, a2}
  HumanIDs = {h1}
  Clients = {1, 2}
  MaxTime = 2
  MaxTTL = 1
  MaxDelay = 0
  MaxShutdowns = 0
  Err = Err
  Zero = Zero
  NotYet = NotYet
  NoKey = NoKey
  NoEntry = NoEntry
  None = None
SYMMETRY ReqSymmetry
INVARIANTS
  ServedOwnClient
  UniqueHumanID
PROPERTIES
  OnlyExpiredRemoved
