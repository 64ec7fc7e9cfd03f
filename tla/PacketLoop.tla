----------------------------- MODULE PacketLoop ------------------------------
(***************************************************************************)
(* CCertifyServer::OnClientData on the archive it really works on: every   *)
(* call of CAr that the loop and the certify handler make, one by one.  A  *)
(* byte is a record as in Framing; the loop sees its value b only.         *)
(*                                                                         *)
(* Some archives belong to OnClientData and some to anyone, who calls      *)
(* whatever CAr offers.                                                    *)
(***************************************************************************)
EXTENDS CAr, Framing

CONSTANTS
  Script,               \* what a peer may send
  PACKETTYPE_CERTIFY,   \* the code of OnCertify; the other handlers are empty
  MAX_STRING,           \* sizes of OnCertify's buffers: 128 and 42 in the
  MAX_PASSWORD,         \*   code for the strings, 672 for the password
  MaxAny                \* bound: how far anyone goes

ASSUME LoopAssumption ==
  /\ BUFFER_SIZE > HEADER_SIZE
  /\ Cell \subseteq [b : Byte, n : Nat]
  /\ Script \subseteq Seq(Cell)
  /\ MAX_STRING \in Nat \ {0} /\ MAX_PASSWORD \in Nat

VARIABLES
  caller,       \* "anyone" or "OnClientData": never changes
  upwards,      \* the build's memcpy starts with the first byte where its
                \* regions overlap: never changes
  pc,           \* what OnClientData does next
  tosend,       \* what the peer has yet to send
  size, len,    \* local variables of OnClientData and ReadString
  fields,       \* what OnCertify has read
  handled,      \* the packets handled, one behind the other
  bDisconnect   \* the session is marked

locals == <<size, len, fields>>
session == <<tosend, handled, bDisconnect>>
loopVars == <<vars, caller, upwards, pc, locals, session>>

text == [i \in 1..m_lpBufMax |-> mem[i - 1]]

LoopInit ==
  /\ Init
  /\ caller \in {"anyone", "OnClientData"} /\ upwards \in BOOLEAN
  /\ pc = "return"
  /\ tosend \in IF caller = "anyone" THEN {<<>>} ELSE Script
  /\ size = 0 /\ len = 0 /\ fields = <<>>
  /\ handled = <<>> /\ bDisconnect = FALSE

Anyone ==
  /\ caller = "anyone"
  /\ Next
  /\ m_lpBufCur' <= MaxAny /\ m_lpBufMax' <= MaxAny
  /\ UNCHANGED <<caller, upwards, pc, locals, session>>

-----------------------------------------------------------------------------
(* The loop *)

Goes(from, to) == caller = "OnClientData" /\ pc = from /\ pc' = to

(***************************************************************************)
(* The authentication check.                                               *)
(***************************************************************************)
Mark ==
  /\ Goes("return", "return")
  /\ bDisconnect' = TRUE
  /\ UNCHANGED <<vars, caller, upwards, locals, tosend, handled>>

ArriveAtPosition ==   \* mutant: no SetOffset before the Write
  /\ Goes("return", "write") /\ tosend # <<>>
  /\ UNCHANGED <<vars, caller, upwards, locals, session>>

Arrive ==
  /\ Goes("return", "write") /\ tosend # <<>>
  /\ SetOffset(m_lpBufMax)
  /\ UNCHANGED <<caller, upwards, locals, session>>

WriteData ==
  /\ Goes("write", "loop")
  /\ \E k \in 1..Len(tosend) :
       /\ Write(SubSeq(tosend, 1, k))
       /\ tosend' = SubSeq(tosend, k + 1, Len(tosend))
  /\ UNCHANGED <<caller, upwards, locals, handled, bDisconnect>>

LoopEnds ==
  /\ Goes("loop", "return") /\ HeaderMissing(text)
  /\ UNCHANGED <<vars, caller, upwards, locals, session>>

RefusePrefix ==
  /\ Goes("loop", "return") /\ PrefixWrong(text)
  /\ bDisconnect' = TRUE
  /\ UNCHANGED <<vars, caller, upwards, locals, tosend, handled>>

PassPrefix ==
  /\ Goes("loop", "fields") /\ PrefixRight(text)
  /\ SetOffset(1)
  /\ UNCHANGED <<caller, upwards, locals, session>>

(***************************************************************************)
(* buffer >> checksum >> size >> dataChecksum: within the block, since the *)
(* smallest block holds a header.                                          *)
(***************************************************************************)
ReadFields ==
  /\ Goes("fields", "body")
  /\ Read(HEADER_SIZE - 1)
  /\ size' = got'[1].b
  /\ UNCHANGED <<caller, upwards, len, fields, session>>

BodyMissing ==
  /\ Goes("body", "loop")
  /\ m_lpBufMax - HEADER_SIZE < size
  /\ UNCHANGED <<vars, caller, upwards, locals, session>>

ReadCode ==
  /\ Goes("body", "lookup")
  /\ m_lpBufMax - HEADER_SIZE >= size
  /\ Read(1)
  /\ UNCHANGED <<caller, upwards, locals, session>>

RefuseCode ==
  /\ Goes("lookup", "return") /\ got[1].b \notin m_functions
  /\ bDisconnect' = TRUE
  /\ UNCHANGED <<vars, caller, upwards, locals, tosend, handled>>

(***************************************************************************)
(* The handler is called: OnCertify, or one with an empty body.            *)
(***************************************************************************)
Invoke ==
  /\ \/ Goes("lookup", "length") /\ got[1].b = PACKETTYPE_CERTIFY
     \/ Goes("lookup", "handled") /\ got[1].b # PACKETTYPE_CERTIFY
  /\ got[1].b \in m_functions
  /\ fields' = <<>>
  /\ UNCHANGED <<vars, caller, upwards, size, len, session>>

(***************************************************************************)
(* The session was marked before: the packet stays.                        *)
(***************************************************************************)
StopMarked ==
  /\ Goes("handled", "return") /\ bDisconnect
  /\ UNCHANGED <<vars, caller, upwards, locals, session>>

(***************************************************************************)
(* Where the packet is less than half of what was received, the regions of *)
(* Remove's memcpy overlap and it is up to the build what becomes of the   *)
(* rest, unless it copies upwards.                                         *)
(***************************************************************************)
RemoveHandled ==
  /\ Goes("handled", "loop") /\ ~bDisconnect
  /\ RemoveIn(HEADER_SIZE + size, IF upwards THEN {"ascending"} ELSE Copies)
  /\ handled' = handled \o Packet(text)
  /\ UNCHANGED <<caller, upwards, locals, tosend, bDisconnect>>

-----------------------------------------------------------------------------
(* OnCertify: two strings and the password *)

(***************************************************************************)
(* CAr::Read: the bytes, or nothing where they do not lie in the block.    *)
(***************************************************************************)
Attempt(n) ==
  \/ Read(n)
  \/ m_lpBufCur + n > m_lpBufEnd /\ UNCHANGED vars

Within(n) == m_lpBufCur + n <= m_lpBufEnd

(***************************************************************************)
(* ReadString reads a length, then as many bytes unless they are none or   *)
(* too many for szString.                                                  *)
(***************************************************************************)
ReadLength ==
  /\ Goes("length", "string")
  /\ Attempt(1)
  /\ len' = IF Within(1) THEN mem[m_lpBufCur].b ELSE 0
  /\ UNCHANGED <<caller, upwards, size, fields, session>>

LengthTakenUnder == len > 0 /\ len < MAX_STRING - 1   \* mutant: room for two \0

LengthTaken == len > 0 /\ len < MAX_STRING

ReadCharacters ==
  /\ pc = "string" /\ Goes("string", IF fields = <<>> THEN "length" ELSE "password")
  /\ IF LengthTaken THEN Attempt(len) ELSE UNCHANGED vars
  /\ fields' = Append(fields, IF LengthTaken /\ Within(len) THEN got' ELSE <<>>)
  /\ UNCHANGED <<caller, upwards, size, len, session>>

ReadPassword ==
  /\ Goes("password", "handled")
  /\ Attempt(MAX_PASSWORD)
  /\ fields' = Append(fields, IF Within(MAX_PASSWORD) THEN got' ELSE <<>>)
  /\ UNCHANGED <<caller, upwards, size, len, session>>

-----------------------------------------------------------------------------
OnClientData ==
  \/ Arrive \/ WriteData \/ LoopEnds \/ RefusePrefix \/ PassPrefix \/ ReadFields
  \/ BodyMissing \/ ReadCode \/ RefuseCode \/ Invoke
  \/ ReadLength \/ ReadCharacters \/ ReadPassword
  \/ StopMarked \/ RemoveHandled

LoopNext == Anyone \/ Mark \/ OnClientData

LoopSpec == LoopInit /\ [][LoopNext]_loopVars

-----------------------------------------------------------------------------
(* Properties *)

(***************************************************************************)
(* Whatever anyone calls, the archive is a text with a position, as        *)
(* ByteArchive describes it: growing, moving and aliasing of blocks never  *)
(* show.                                                                   *)
(***************************************************************************)
A == INSTANCE ByteArchive WITH
  text <- IF caller = "anyone" THEN text ELSE <<>>,
  pos <- IF caller = "anyone" THEN m_lpBufCur ELSE 0,
  got <- IF caller = "anyone" THEN got ELSE <<>>

ImplementsArchive == A!Spec

(***************************************************************************)
(* The calls on the archive add up to the rounds LoginServer takes for the *)
(* packet loop: whatever a handler reads, within its packet or behind it,  *)
(* and however the block grows, the next packet is found behind the last;  *)
(* after an overlapping Remove, where memcpy copies upwards.               *)
(***************************************************************************)
R == INSTANCE PacketRounds WITH
  buffer <- IF caller = "OnClientData" THEN text ELSE <<>>

ImplementsRounds == R!Spec

(***************************************************************************)
(* OnCertify reads the strings and the password the packet contains, if it *)
(* contains them: what the archive held before, what follows the packet    *)
(* and how it arrived in pieces do not matter.                             *)
(***************************************************************************)
Contains(packet, v, a) ==
  LET body == SubSeq(packet, HEADER_SIZE + 2, Len(packet)) IN
  /\ Len(body) = 2 + v + a + MAX_PASSWORD
  /\ body[1].b = v /\ body[2 + v].b = a

CertifyAsSent ==
  pc = "handled" /\ fields # <<>> =>
    LET at(i, n) == SubSeq(Packet(text), HEADER_SIZE + 1 + i, HEADER_SIZE + i + n) IN
    \A v, a \in 0..(MAX_STRING - 1) :
      Contains(Packet(text), v, a) =>
        fields = <<at(2, v), at(3 + v, a), at(3 + v + a, MAX_PASSWORD)>>
=============================================================================
