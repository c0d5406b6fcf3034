SPECIFICATION FairSpec
CONSTANTS
  Pids = {p1, p2, p3}
  NoPid = NoPid
  Supervisor = Supervisor
  PidOne = PidOne
INVARIANT HostInv
PROPERTIES ImplementsCleanup AttemptEnds TreeDiesWithAgent
