SPECIFICATION Spec
CONSTANTS
  Requests = {r1, r2}
  Tokens = {t1, t2, t3}
  Logins = {l1, l2}
  AccessTTL = 1
  RefreshTTL = 2
  None = None
SYMMETRY Interchangeable
INVARIANTS OneTokenPerSession SpentTokenIsKnown DeletedIsDenied
PROPERTY EndedStaysEnded
