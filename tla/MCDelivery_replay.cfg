SPECIFICATION Spec
CONSTANTS
  d1 = d1  d2 = d2  h1 = h1  h2 = h2  c1 = c1  c2 = c2  c3 = c3
  Deliveries = {d1}
  Malformed = {}
  Copies = {c1, c2, c3}
  Handlers = {h1, h2}
  Stages = 1
  Delay <- OneStage
  Lease = 2
  AttemptBound = 2
  DeadMax = 2
  MaxPublishes = 2
  MaxReplays = 1
  FaultKinds = {}
  MaxFaults = 0
  None = None
PROPERTY ReplayIsSafe
