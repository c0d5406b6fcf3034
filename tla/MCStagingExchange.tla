------------------------- MODULE MCStagingExchange -------------------------
(* Values of the constants of StagingExchange for TLC. *)
EXTENDS StagingExchange

\* One directory in another, and a name beside them.
NestedPaths == {<<"a">>, <<"b">>, <<"a", "b">>, <<"a", "b", "a">>}
Upward      == <<"..">>
=============================================================================
