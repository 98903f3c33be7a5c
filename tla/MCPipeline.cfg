SPECIFICATION FairPipeline
CONSTANTS
  a1 = a1  p1 = p1  p2 = p2  h1 = h1  h2 = h2  c1 = c1  c2 = c2  c3 = c3  c4 = c4
  Deliveries = {a1}
  Malformed = {}
  Passes = {p1}
  Batch = 1
  LockTTL = 1
  PassBound = 0
  Copies = {c1, c2, c3, c4}
  Handlers = {h1}
  Stages = 1
  Delay <- OneStage
  Lease = 1
  AttemptBound = 1
  DeadMax = 1
  MaxPublishes = 2
  MaxReplays = 1
  FaultKinds = {"crash", "channel", "database", "broker", "wipe"}
  MaxFaults = 1
  None = None
INVARIANTS AlertIsKept ExactlyOnce
PROPERTY EveryAlertEnds
