SPECIFICATION Spec
CONSTANTS
  d1 = d1  d2 = d2  h1 = h1  h2 = h2  c1 = c1  c2 = c2  c3 = c3
  Deliveries = {d1, d2}
  Malformed = {d2}
  Copies = {c1, c2, c3}
  Handlers = {h1, h2}
  Stages = 2
  Delay <- TwoStages
  Lease = 2
  AttemptBound = 2
  DeadMax = 1
  MaxPublishes = 1
  MaxReplays = 1
  FaultKinds = {"crash", "channel", "database", "broker", "wipe"}
  MaxFaults = 2
  None = None
SYMMETRY Interchangeable
INVARIANTS TypeOK NoSilentLoss OneSender SentIsFinal DeadQueueBounded
