SPECIFICATION Spec
CONSTANTS
  Streams = {both}
  Agent = agent
  MaxEvents = 2
  MaxSteps = 2
  MaxAttempts = 2
  MaxChunks = 2
  MaxFaults = 2
INVARIANTS TypeOK LogIsSequence NothingAcceptedIsLost LinesAreOrdered OutputIsComplete
PROPERTY NoRepeatAfterLogFailure
