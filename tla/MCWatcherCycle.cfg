SPECIFICATION FairSpec
CONSTANTS
  r1 = r1  r2 = r2  w1 = w1  w2 = w2  t1 = t1  t2 = t2  t3 = t3
  Runs = {r1, r2}
  Workers = {w1, w2}
  Triggers = {t1, t2, t3}
  Locations = {t1, t2}
  LocationOf <- PairAndOne
  Cooldown = 1
  LockTTL = 3
  RenewEvery = 1
  FindBound = 0
  GroupBound = 1
  FaultKinds = {"crash", "redis", "database", "edit"}
  MaxFaults = 1
  None = None
INVARIANT OneCycle
PROPERTIES OneAlertPerCooldown EveryLocationPolled
