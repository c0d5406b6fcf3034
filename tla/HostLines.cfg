SPECIFICATION Spec
CONSTANTS
  Streams = {out, errs}
  Agent = agent
  MaxEvents = 2
  MaxSteps = 1
  MaxAttempts = 2
  MaxChunks = 2
  MaxFaults = 1
INVARIANT LinesAreOrdered
SYMMETRY StreamSymmetry
