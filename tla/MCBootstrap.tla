----------------------------- MODULE MCBootstrap -----------------------------
(* Instances of Bootstrap for TLC. *)
EXTENDS Bootstrap

CONSTANTS s1, s2

\* One control plane, or a code that an operator entered into two of them.
OneServer  == {s1}
TwoServers == {s1, s2}
=============================================================================
