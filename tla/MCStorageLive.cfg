SPECIFICATION FairSpec
CONSTANTS
  a1 = a1
  a2 = a2
  q1 = q1
  q2 = q2
  d1 = d1
  d2 = d2
  Reqs = {r1}
  Addrs = {a1}
  Questions = {q1, q2}
  Domains = {d1, d2}
  Sacs <- TwoDomains
  Covers <- CoversBoth
  Static <- NoStatic
  Identifiable = {a1}
  HumanIDs = {h1}
  Clients = {1, 2}
  MaxTime = 1
  MaxTTL = 1
  MaxDelay = 1
  MaxShutdowns = 1
  Err = Err
  Zero = Zero
  NotYet = NotYet
  NoKey = NoKey
  NoEntry = NoEntry
  None = None
PROPERTIES
  ClientReclaimed
