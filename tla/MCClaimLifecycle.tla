-------------------------- MODULE MCClaimLifecycle --------------------------
(***************************************************************************)
(* Values of the constants of ClaimLifecycle that a .cfg cannot express.   *)
(***************************************************************************)
EXTENDS ClaimLifecycle, TLC

HostPlain       == [mode |-> "host",      staged |-> FALSE]
HostStaged      == [mode |-> "host",      staged |-> TRUE]
ContainerPlain  == [mode |-> "container", staged |-> FALSE]
ContainerStaged == [mode |-> "container", staged |-> TRUE]

AllKinds    == {HostPlain, HostStaged, ContainerPlain, ContainerStaged}
Interfering == {HostStaged, ContainerPlain}    \* these leave something behind
HostOnly    == {HostPlain}

Symmetry == Permutations(Claims)

Idempotent == {"ok"}            \* a repeated request is answered like the first
Refusing   == {"ok", "conflict"}
=============================================================================
