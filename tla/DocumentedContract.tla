------------------------ MODULE DocumentedContract ------------------------
(***************************************************************************)
(* A statement of docs/agent-protocol.md about the dispatch contract that  *)
(* the code does not keep, over the model of the code.                     *)
(***************************************************************************)
EXTENDS MCClaimLifecycle

\* cleanup_unconfirmed is "the v3-only result state" (docs/agent-protocol.md:334)
\* and ResultRequest refuses it elsewhere; the client of a host-only agent
\* speaks agent/2, and sends it when a script directory cannot be removed.
UnconfirmedOnlyInV3 == pc = "unconfirmed" => runtime # NoRuntime
===========================================================================
