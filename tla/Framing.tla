------------------------------- MODULE Framing -------------------------------
(***************************************************************************)
(* The wire format as CCertifyServer::OnClientData reads it: a packet is a *)
(* prefix byte, a header (checksum, size, dataChecksum) and `size' bytes   *)
(* of body, the first of which are the code that selects the handler.      *)
(*                                                                         *)
(* The format is scaled down: every field is one byte wide.  Byte 1 is the *)
(* prefix, byte 2 the size, bytes 3 .. HEADER_SIZE the two checksums, which*)
(* the code reads and never looks at, and the byte after the header is the *)
(* code.  A byte is a record that remembers who sent it (s) and at which   *)
(* position of his stream (n); the code sees its value (b) only.           *)
(***************************************************************************)
EXTENDS Naturals, Sequences

CONSTANTS
  Byte,           \* the values of a byte
  HEADER_SIZE,    \* bytes before the body: 13 in the code
  PACKET_PREFIX,  \* first byte of every packet: 0x5e in the code
  m_functions     \* the codes that have a handler

ASSUME FramingAssumption ==
  /\ Byte \subseteq Nat
  /\ HEADER_SIZE \in Nat /\ HEADER_SIZE >= 2
  /\ PACKET_PREFIX \in Byte
  /\ m_functions \subseteq Byte

(***************************************************************************)
(* The size field, and the length `HEADER_SIZE + size' of a whole packet.  *)
(***************************************************************************)
SizeField(buf) == buf[2].b
PacketLength(buf) == HEADER_SIZE + SizeField(buf)

(***************************************************************************)
(* What one round of the loop in OnClientData finds at the start of the    *)
(* buffer.  A round that finds Incomplete changes nothing and is repeated: *)
(* the loop has no exit for it.                                            *)
(***************************************************************************)
HeaderMissing(buf) == Len(buf) < HEADER_SIZE
PrefixWrong(buf) == ~HeaderMissing(buf) /\ buf[1].b # PACKET_PREFIX
PrefixRight(buf) == ~HeaderMissing(buf) /\ buf[1].b = PACKET_PREFIX
Incomplete(buf) == PrefixRight(buf) /\ Len(buf) < PacketLength(buf)
Complete(buf) == PrefixRight(buf) /\ Len(buf) >= PacketLength(buf)

(***************************************************************************)
(* The values `buffer >> header' can yield.  The read is bounded by the    *)
(* capacity of the buffer and not by the packet: past the last received    *)
(* byte it finds whatever the memory held.                                 *)
(***************************************************************************)
CodeField(buf) ==
  IF Len(buf) > HEADER_SIZE THEN {buf[HEADER_SIZE + 1].b} ELSE Byte

(***************************************************************************)
(* CAr::Remove of a whole packet, and the packet it removes.               *)
(***************************************************************************)
Packet(buf) == SubSeq(buf, 1, PacketLength(buf))
RemoveBody(buf) ==    \* mutant: Remove( size )
  SubSeq(buf, SizeField(buf) + 1, Len(buf))

RemovePacket(buf) == SubSeq(buf, PacketLength(buf) + 1, Len(buf))
=============================================================================
