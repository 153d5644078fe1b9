SPECIFICATION FairSpec
CONSTANTS
  Procs = {p1, p2, p3, p4}
  Keys = {k1, k2}
  Results = {res, err}
  Zero = Zero
  NoKey = NoKey
  NoEntry = NoEntry
  NotYet = NotYet
INVARIANTS
  TypeOK
  SingleFlight
  EntryInFlight
  WaiterHasOwner
PROPERTY
  WaiterReleased
