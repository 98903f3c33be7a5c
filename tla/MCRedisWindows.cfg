SPECIFICATION Spec
CONSTANTS
  q1 = q1  q2 = q2  q3 = q3
  Requests = {q1, q2, q3}
  ThrottleTTL = 2
  Limit = 2
  MaxHits = 6
  LockoutTTL = 3
  MaxFailures = 2
  CooldownTTL = 2
  PublishBound = 3
  Channels = 2
  CacheTTL = 3
  MaxFaults = 3
  None = None
INVARIANTS LockoutEnds LockoutOvershootBounded OutageIsNotRemembered
PROPERTIES QuietCallerIsAdmitted TestsArePaced
