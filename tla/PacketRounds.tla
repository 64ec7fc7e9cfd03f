---------------------------- MODULE PacketRounds -----------------------------
(***************************************************************************)
(* The packet loop as LoginServer takes it: a buffer that is a sequence of *)
(* bytes, and rounds that look at its beginning.  PacketLoop has the calls *)
(* on the archive that each of them consists of.  How its memcpy copies    *)
(* where source and target overlap is up to the build.                     *)
(***************************************************************************)
EXTENDS Framing

VARIABLES
  upwards,      \* such a memcpy starts with the first byte: never changes
  tosend,       \* what the peer has yet to send
  buffer,       \* what has been received and not been removed
  handled,      \* the packets handled, one behind the other
  bDisconnect   \* the session is marked

roundVars == <<upwards, tosend, buffer, handled, bDisconnect>>

Init ==
  /\ upwards \in BOOLEAN
  /\ tosend \in Seq([b : Byte, n : Nat])
  /\ buffer = <<>> /\ handled = <<>> /\ bDisconnect = FALSE

Receive ==
  /\ \E k \in 1..Len(tosend) :
       /\ buffer' = buffer \o SubSeq(tosend, 1, k)
       /\ tosend' = SubSeq(tosend, k + 1, Len(tosend))
  /\ UNCHANGED <<upwards, handled, bDisconnect>>

(***************************************************************************)
(* The authentication check, or a prefix or code the loop refuses.         *)
(***************************************************************************)
Mark == bDisconnect' = TRUE /\ UNCHANGED <<upwards, tosend, buffer, handled>>

(***************************************************************************)
(* CAr::Remove of a packet of n bytes.  What follows it is right if the    *)
(* packet is at least half of the buffer or memcpy copies upwards, and     *)
(* otherwise only its length and its last n bytes are.                     *)
(***************************************************************************)
RemoveHandled ==
  LET n == PacketLength(buffer)
      rest == RemovePacket(buffer)
  IN
  /\ upwards \/ 2 * n >= Len(buffer) => buffer' = rest
  /\ Len(buffer') = Len(rest)
  /\ \A i \in 1..Len(rest) : i + n > Len(rest) => buffer'[i] = rest[i]

Handle ==
  /\ Complete(buffer)
  /\ CodeField(buffer) \cap m_functions # {}
  /\ ~bDisconnect
  /\ handled' = handled \o Packet(buffer)
  /\ RemoveHandled
  /\ UNCHANGED <<upwards, tosend, bDisconnect>>

Next == Receive \/ Mark \/ Handle

Spec == Init /\ [][Next]_roundVars
=============================================================================
