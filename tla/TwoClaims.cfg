SPECIFICATION Spec
CONSTANTS
  Claims = {c1, c2}
  NoClaim = NoClaim
  Runtimes = {docker}
  NoRuntime = NoRuntime
  Kinds <- Interfering
  ReplayAnswers <- Refusing
  MayGiveUp = FALSE
  MaxTokens = 1
  MaxFaults = 2
SYMMETRY Symmetry
INVARIANTS RemainsInv DeliveryInv
PROPERTY SavedOutcomeStands
