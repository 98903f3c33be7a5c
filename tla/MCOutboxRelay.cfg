SPECIFICATION FairSpec
CONSTANTS
  r1 = r1  r2 = r2  p1 = p1  p2 = p2
  Rows = {r1, r2}
  Passes = {p1, p2}
  Batch = 2
  LockTTL = 2
  PassBound = 3
  MaxFaults = 2
  None = None
INVARIANTS NoRowLost OneFreshPass
PROPERTIES OrderIsKept RelayHandsOver
