SPECIFICATION FairSpec
CONSTANTS
  r1 = r1  r2 = r2
  Replicas = {r1, r2}
  LockTTL = 1
  PollBound = 0
  PassBound = 2
  MaxUpdates = 2
  MaxLinks = 1
  MaxFaults = 1
  None = None
INVARIANTS NothingSkipped OneFreshPoller HandoverRepeatsNothing
PROPERTIES DeadLinkBindsNothing EveryUpdateHandled
