SPECIFICATION FairSpec
CONSTANTS
  Claims = {c1}
  NoClaim = NoClaim
  Runtimes = {docker, podman}
  NoRuntime = NoRuntime
  Kinds <- AllKinds
  ReplayAnswers <- Refusing
  MayGiveUp = TRUE
  MaxTokens = 2
  MaxFaults = 3
INVARIANTS AtMostOneExecution CleanBeforePoll WorkIsRecorded TruthfulSuccess ExecutionInv
PROPERTIES OutcomeAfterCleanup RetireOnlyDelivered ImplementsDeployment
PROPERTIES EventuallyPolls OutcomeDelivered CancellationAnswered
