---------------------------- MODULE MCPacketLoop -----------------------------
(***************************************************************************)
(* An instance of PacketLoop for TLC: headers of two bytes (prefix 9 and   *)
(* size), an array of three bytes, so that the capacity doubles twice.     *)
(* Strings are of one character at most and passwords of one byte.         *)
(***************************************************************************)
EXTENDS PacketLoop

MCByte == {0, 1, 2, 3, 4, 5, 9}
MCGarbage == [b |-> 0, n |-> 0]
Cells(bytes) == [i \in DOMAIN bytes |-> [b |-> bytes[i], n |-> i]]

MCInput == {Cells(<<1>>), Cells(<<1, 1>>)}
MCCell == [b : MCByte, n : 0..14]
MCCopies == {"memmove", "ascending", "descending"}

Ping == <<9, 1, 2>>
Certify == <<9, 5, 1, 1, 4, 0, 3>>    \* version 4, no account, password 3
Short == <<9, 2, 1, 1>>               \* ends in the middle of the version
TooLong == <<9, 5, 1, 2, 4, 4, 0>>    \* a version of two characters
Bare == <<9, 0>>                      \* without a body
Unknown == <<9, 1, 5>>
BadPrefix == <<5, 1, 2>>

Packets == {Ping, Certify, Short, TooLong, Bare, Unknown, BadPrefix}

MCScript == {Cells(first \o next) : first, next \in Packets}
              \cup {Cells(Ping \o Ping \o Ping)}
=============================================================================
