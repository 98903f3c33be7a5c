SPECIFICATION Spec
CONSTANTS
  a1 = a1  a2 = a2  a3 = a3  q1 = q1  q2 = q2
  t1 = t1  t2 = t2  t3 = t3  c1 = c1  c2 = c2  c3 = c3
  Accounts = {a1, a2, a3}
  Admins = {a1}
  Requests = {q1, q2}
  Rows = {t1, t2, t3}
  Cities = {c1, c2, c3}
  Lats = {0, 1}
  Lons = {0, 1}
  Buckets = 3
  Hash <- HashOf
  MaxTriggers = 1
  MaxPins = 1
  MaxWrites = 4
  None = None
INVARIANTS AdminRemains LimitsOvershootBounded OneOwner
CHECK_DEADLOCK FALSE
