---------------------------- MODULE MCPinRotation ----------------------------
(* Instances of PinRotation for TLC. *)
EXTENDS PinRotation

CONSTANTS execution, heartbeat

\* The goroutines of one claim.
Goroutines == {execution, heartbeat}
=============================================================================
