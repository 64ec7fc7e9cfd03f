--------------------------- MODULE MCLoginServer ----------------------------
(***************************************************************************)
(* Instances of LoginServer for TLC.  Headers are two bytes long (prefix   *)
(* and size), the prefix is 9, and codes 1 and 2 have handlers.            *)
(***************************************************************************)
EXTENDS LoginServer, TLC

CONSTANTS c1, c2, c3, o1, o2, o3

MCByte == {0, 1, 2, 5, 9}

Ping == <<9, 1, 1>>
Certify == <<9, 2, 2, 0>>
Unknown == <<9, 1, 5>>
BadPrefix == <<5, 1, 1>>
Bare == <<9, 0>>        \* a packet without a body

Quiet == {<<>>}
OnePing == {Ping}
Pings == {Ping, Ping \o Ping}
Protocol == {Ping, Certify \o Ping, Unknown, BadPrefix, Bare}

(***************************************************************************)
(* The specification never names a connection or an object.                *)
(***************************************************************************)
Symmetry == Permutations(Conn) \cup Permutations(Obj)
=============================================================================
