SPECIFICATION FairSpec
CONSTANTS
  d1 = d1  d2 = d2  u1 = u1  u2 = u2  h1 = h1  h2 = h2
  Devices = {d1, d2}
  Users = {u1, u2}
  Owner = u1
  Handlers = {h1, h2}
  MaxAttempts = 2
  MaxEvents = 2
  None = None
INVARIANTS AlertedOnce NoDeviceForgotten SentIsRecorded
PROPERTY EventSettles
CHECK_DEADLOCK FALSE
