---------------------------- MODULE MCStepOutput ----------------------------
(* StepOutput for TLC: a host process's two streams are alike.              *)
EXTENDS StepOutput, TLC

StreamSymmetry == Permutations(Streams)
=============================================================================
