------------------------------ MODULE MCBuilds -------------------------------
(***************************************************************************)
(* Instances of Builds for TLC.  A bare packet is never cut between its    *)
(* header and its body.                                                    *)
(***************************************************************************)
EXTENDS Builds, TLC

CONSTANTS c1, c2, c3, o1, o2, o3

MCByte == {0, 1, 2, 5, 9}

Bare == <<9, 0>>        \* a packet without a body
OneBare == {Bare}
=============================================================================
