SPECIFICATION Spec
CONSTANTS
  Claims = {c1}
  NoClaim = NoClaim
  Runtimes = {}
  NoRuntime = NoRuntime
  Kinds <- HostOnly
  ReplayAnswers <- Idempotent
  MayGiveUp = FALSE
  MaxTokens = 1
  MaxFaults = 1
INVARIANT UnconfirmedOnlyInV3
