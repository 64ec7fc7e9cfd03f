------------------------------- MODULE Replies -------------------------------
(***************************************************************************)
(* What the server writes: the protocol id when a client is accepted, and  *)
(* the answer to each certify packet, through SendPacket's loop over a     *)
(* socket whose peer may be slow or gone; and OnCertify's decryption,      *)
(* with a chain that all sessions share.  An action is one send call.      *)
(*                                                                         *)
(* On Linux the client's socket blocks until the protocol id is sent and   *)
(* never after; the Windows build leaves it blocking.  How packets are     *)
(* found in the stream is in LoginServer: here a session has the certify   *)
(* packets that have come in and are not handled.  Fields are one cell     *)
(* wide instead of four bytes.                                             *)
(***************************************************************************)
EXTENDS Integers, SequencesExt

CONSTANTS
  Session,
  Block,             \* blocks of a password
  Chain0,            \* the chain of a new cipher
  Xor(_, _),         \* of two blocks
  EncryptBlock(_), DecryptBlock(_),
  Password(_, _),    \* the n-th password of a session: a sequence of blocks
  Room,              \* cells the send buffer of a socket holds
  MaxCertify(_)      \* bound: certify packets of a session

PACKET_PREFIX == 94
PACKETTYPE_PROTOCOL_ID == 0
PACKETTYPE_ERROR == 254
ERROR_FLYFF_ACCOUNT == 121

ASSUME RepliesAssumption ==
  /\ Chain0 \in Block
  /\ \A a, b \in Block : Xor(a, b) \in Block /\ Xor(Xor(a, b), b) = a
  /\ \A a \in Block : /\ EncryptBlock(a) \in Block /\ DecryptBlock(a) \in Block
                      /\ DecryptBlock(EncryptBlock(a)) = a
  /\ \A s \in Session :
       /\ MaxCertify(s) \in Nat
       /\ \A n \in 1..MaxCertify(s) : Password(s, n) \in Seq(Block) \ {<<>>}
  /\ Room \in Nat /\ Room >= 4    \* a new connection has room for a packet

VARIABLES
  build,      \* "linux" or "windows": for what the program is compiled
  sock,       \* "none", "open", "left" by the peer
  blocking,   \* the sockets that block
  sk_err,     \* the error a send on the socket meets first
  out, got,   \* what is in the send buffer; what the peer has read
  inbox,      \* certify packets to be handled: their encrypted passwords
  m_chain,    \* of g_xRijndael
  pc, cur,    \* "loop", "send", "killed"; whose packet SendPacket is sending,
  ar2, pos    \* the packet, and how much is sent

VARIABLES     \* history
  sent,       \* how many passwords the peer has sent
  passwords,  \* the passwords OnCertify decrypted
  whole       \* replies of the session before one was cut, and whether one was

kernelVars == <<sock, sk_err, out, got>>
threadVars == <<pc, cur, ar2, pos>>
vars == <<build, kernelVars, blocking, inbox, m_chain, threadVars, sent, passwords, whole>>

-----------------------------------------------------------------------------
(***************************************************************************)
(* The packet SendPacket makes: the prefix and a place for the size, the   *)
(* contents, and the size written over its place.                          *)
(***************************************************************************)
Overwrite(text, offset, cell) == [text EXCEPT ![offset + 1] = cell]

HEADER == 2    \* prefix and size

Framed(ar) ==
  LET text == <<PACKET_PREFIX, 0>> \o ar IN Overwrite(text, 1, Len(text) - HEADER)

SendPacket(s, ar) ==
  pc' = "send" /\ cur' = s /\ ar2' = Framed(ar) /\ pos' = 0

SendProtocolId(s) == SendPacket(s, <<PACKETTYPE_PROTOCOL_ID, s>>)
SendError(s, code) == SendPacket(s, <<PACKETTYPE_ERROR, code>>)

(***************************************************************************)
(* CBC: each block is xored with the encrypted block before it.            *)
(***************************************************************************)
Decrypted(chain, in) ==
  [i \in 1..Len(in) |->
     Xor(DecryptBlock(in[i]), IF i = 1 THEN chain ELSE in[i - 1])]

Encrypted(password) ==
  LET enc[i \in 1..Len(password)] ==
        EncryptBlock(Xor(password[i], IF i = 1 THEN Chain0 ELSE enc[i - 1]))
  IN enc

AnySession == CHOOSE s \in Session : TRUE    \* cur says nothing outside SendPacket

Nothing == [replies |-> 0, cut |-> FALSE]

Init ==
  /\ build \in {"linux", "windows"}
  /\ sock = [s \in Session |-> "none"] /\ sk_err = [s \in Session |-> "none"]
  /\ out = [s \in Session |-> <<>>] /\ got = [s \in Session |-> <<>>]
  /\ inbox = [s \in Session |-> <<>>] /\ blocking = {}
  /\ m_chain = Chain0
  /\ pc = "loop" /\ cur = AnySession /\ ar2 = <<>> /\ pos = 0
  /\ sent = [s \in Session |-> 0] /\ passwords = [s \in Session |-> <<>>]
  /\ whole = [s \in Session |-> Nothing]

-----------------------------------------------------------------------------
(***************************************************************************)
(* The thread, outside SendPacket.                                         *)
(***************************************************************************)
OnClientConnected(s) ==
  /\ pc = "loop" /\ sock[s] = "none"
  /\ sock' = [sock EXCEPT ![s] = "open"]
  /\ blocking' = blocking \cup {s}
  /\ SendProtocolId(s)
  /\ UNCHANGED <<build, sk_err, out, got, inbox, m_chain, sent, passwords, whole>>

OnCertifyKeepsChain(s) ==    \* mutant: no ResetChain
  /\ pc = "loop" /\ inbox[s] # <<>>
  /\ LET szEnc == Head(inbox[s]) IN
     /\ passwords' = [passwords EXCEPT ![s] = Append(@, Decrypted(m_chain, szEnc))]
     /\ m_chain' = szEnc[Len(szEnc)]
  /\ inbox' = [inbox EXCEPT ![s] = Tail(@)]
  /\ SendError(s, ERROR_FLYFF_ACCOUNT)
  /\ UNCHANGED <<build, kernelVars, blocking, sent, whole>>

OnCertify(s) ==
  /\ pc = "loop" /\ inbox[s] # <<>>
  /\ LET szEnc == Head(inbox[s]) IN
     /\ passwords' = [passwords EXCEPT ![s] = Append(@, Decrypted(Chain0, szEnc))]
     /\ m_chain' = szEnc[Len(szEnc)]
  /\ inbox' = [inbox EXCEPT ![s] = Tail(@)]
  /\ SendError(s, ERROR_FLYFF_ACCOUNT)
  /\ UNCHANGED <<build, kernelVars, blocking, sent, whole>>

(***************************************************************************)
(* A hang-up, or the end of the stream behind its last packet, ends the    *)
(* session, and with it what is remembered of it.                          *)
(***************************************************************************)
Disconnected(s) ==
  /\ pc = "loop" /\ sock[s] = "left" /\ (inbox[s] = <<>> \/ sk_err[s] # "none")
  /\ sock' = [sock EXCEPT ![s] = "none"] /\ sk_err' = [sk_err EXCEPT ![s] = "none"]
  /\ out' = [out EXCEPT ![s] = <<>>] /\ got' = [got EXCEPT ![s] = <<>>]
  /\ inbox' = [inbox EXCEPT ![s] = <<>>]
  /\ sent' = [sent EXCEPT ![s] = 0] /\ passwords' = [passwords EXCEPT ![s] = <<>>]
  /\ whole' = [whole EXCEPT ![s] = Nothing]
  /\ blocking' = blocking \ {s}
  /\ UNCHANGED <<build, m_chain, threadVars>>

-----------------------------------------------------------------------------
(***************************************************************************)
(* SendPacket's loop.  On Linux the accept loop makes the socket           *)
(* non-blocking when the first packet is sent.  A blocking socket takes    *)
(* what it has room for, piece by piece, and holds the thread meanwhile.   *)
(***************************************************************************)
Return ==
  /\ pc' = "loop" /\ cur' = AnySession /\ ar2' = <<>> /\ pos' = 0
  /\ blocking' = IF build = "linux" THEN blocking \ {cur} ELSE blocking

Free == Room - Len(out[cur])
Deliver(n) == out' = [out EXCEPT ![cur] = @ \o SubSeq(ar2, pos + 1, pos + n)]

SendFromStart ==    \* mutant: the rest is not sent from where the last send ended
  /\ pc = "send" /\ sk_err[cur] = "none"
  /\ \E n \in 1..Free :
       /\ pos + n <= Len(ar2)
       /\ out' = [out EXCEPT ![cur] = @ \o SubSeq(ar2, 1, n)]
       /\ IF pos + n = Len(ar2)
          THEN /\ Return
               /\ whole' = [whole EXCEPT ![cur].replies = @ + IF whole[cur].cut THEN 0 ELSE 1]
          ELSE pos' = pos + n /\ UNCHANGED <<pc, cur, ar2, blocking, whole>>
  /\ UNCHANGED <<build, sock, sk_err, got, inbox, m_chain, sent, passwords>>

Send ==
  /\ pc = "send" /\ sk_err[cur] = "none"
  /\ \E n \in 1..Free :
       /\ pos + n <= Len(ar2)
       /\ Deliver(n)
       /\ IF pos + n = Len(ar2)
          THEN /\ Return
               /\ whole' = [whole EXCEPT ![cur].replies = @ + IF whole[cur].cut THEN 0 ELSE 1]
          ELSE pos' = pos + n /\ UNCHANGED <<pc, cur, ar2, blocking, whole>>
  /\ UNCHANGED <<build, sock, sk_err, got, inbox, m_chain, sent, passwords>>

GiveUp ==
  /\ Return
  /\ whole' = [whole EXCEPT ![cur].cut = TRUE]
  /\ UNCHANGED <<build, sock, out, got, inbox, m_chain, sent, passwords>>

SendWaits ==    \* mutant of SendWouldBlock: as on a blocking socket
  /\ pc = "send" /\ sk_err[cur] = "none" /\ Free = 0 /\ cur \notin blocking
  /\ UNCHANGED vars

SendWouldBlock ==
  /\ pc = "send" /\ sk_err[cur] = "none" /\ Free = 0 /\ cur \notin blocking
  /\ GiveUp /\ UNCHANGED sk_err

\* the error of a reset is reported once; what follows is a broken pipe
SendReset ==
  /\ pc = "send" /\ sk_err[cur] = "ECONNRESET"
  /\ sk_err' = [sk_err EXCEPT ![cur] = "EPIPE"]
  /\ GiveUp

\* nothing handles SIGPIPE
SendBrokenPipe ==
  /\ pc = "send" /\ sk_err[cur] = "EPIPE" /\ build = "linux"
  /\ pc' = "killed"
  /\ UNCHANGED <<build, kernelVars, blocking, inbox, m_chain, cur, ar2, pos, sent, passwords, whole>>

\* Windows has no such signal: an error like the first
SendAborted ==
  /\ pc = "send" /\ sk_err[cur] = "EPIPE" /\ build = "windows"
  /\ GiveUp /\ UNCHANGED sk_err

-----------------------------------------------------------------------------
(***************************************************************************)
(* Peers.  A reset may come at any time, also in answer to what is sent to *)
(* a peer that has closed; it discards what the peer has not read.         *)
(***************************************************************************)
PeerCertify(s) ==
  /\ sock[s] = "open" /\ sent[s] < MaxCertify(s)
  /\ sent' = [sent EXCEPT ![s] = @ + 1]
  /\ inbox' = [inbox EXCEPT ![s] = Append(@, Encrypted(Password(s, sent[s] + 1)))]
  /\ UNCHANGED <<build, kernelVars, blocking, m_chain, threadVars, passwords, whole>>

PeerReads(s) ==
  /\ sock[s] = "open" /\ sk_err[s] = "none"
  /\ \E n \in 1..Len(out[s]) :
       /\ got' = [got EXCEPT ![s] = @ \o SubSeq(out[s], 1, n)]
       /\ out' = [out EXCEPT ![s] = SubSeq(@, n + 1, Len(@))]
  /\ UNCHANGED <<build, sock, sk_err, blocking, inbox, m_chain, threadVars, sent, passwords,
                 whole>>

PeerCloses(s) ==
  /\ sock[s] = "open"
  /\ sock' = [sock EXCEPT ![s] = "left"]
  /\ UNCHANGED <<build, sk_err, out, got, blocking, inbox, m_chain, threadVars, sent,
                 passwords, whole>>

Reset(s) ==
  /\ sock[s] \in {"open", "left"} /\ sk_err[s] = "none"
  /\ sock' = [sock EXCEPT ![s] = "left"]
  /\ sk_err' = [sk_err EXCEPT ![s] = IF sock[s] = "open" THEN "ECONNRESET" ELSE "EPIPE"]
  /\ out' = [out EXCEPT ![s] = <<>>]
  /\ UNCHANGED <<build, got, blocking, inbox, m_chain, threadVars, sent, passwords, whole>>

-----------------------------------------------------------------------------
Sending == Send \/ SendWouldBlock \/ SendReset \/ SendBrokenPipe \/ SendAborted

Handling ==
  \E s \in Session : OnClientConnected(s) \/ OnCertify(s) \/ Disconnected(s)

Server == Sending \/ Handling

Peers ==
  \E s \in Session :
    \/ PeerCertify(s)
    \/ PeerReads(s) \/ PeerCloses(s) \/ Reset(s)

Spec == Init /\ [][Server \/ Peers]_vars

(***************************************************************************)
(* The thread goes on when it can; nothing is assumed of peers.            *)
(***************************************************************************)
FairSpec == Spec /\ WF_vars(Server)

-----------------------------------------------------------------------------
(***************************************************************************)
(* The stream of a session whose peer has been told its protocol id and n  *)
(* times that his account is refused.                                      *)
(***************************************************************************)
Packet(body) == <<PACKET_PREFIX, Len(body)>> \o body

Stream(s, n) ==
  Packet(<<PACKETTYPE_PROTOCOL_ID, s>>)
    \o FlattenSeq([i \in 1..n |-> Packet(<<PACKETTYPE_ERROR, ERROR_FLYFF_ACCOUNT>>)])

(***************************************************************************)
(* A peer reads his protocol id and one refusal for every certify packet,  *)
(* in order, each a whole packet, however sends were divided and whatever  *)
(* other sessions did; as far as the first reply that was cut.             *)
(***************************************************************************)
RepliesInOrder ==
  \A s \in Session :
    LET stream == got[s] \o out[s]
        due == Len(passwords[s])
    IN
    /\ sk_err[s] = "none" /\ whole[s].replies > 0 =>
         IsPrefix(Stream(s, whole[s].replies - 1), stream)
    /\ ~whole[s].cut => IsPrefix(stream, Stream(s, due))
    /\ ~whole[s].cut /\ sock[s] # "none" /\ (pc = "loop" \/ cur # s) =>
         whole[s].replies = 1 + due

(***************************************************************************)
(* OnCertify reads the password its client encrypted from a new chain,     *)
(* though one cipher serves all sessions and keeps the chain of the last.  *)
(***************************************************************************)
PasswordAsSent ==
  \A s \in Session : \A n \in 1..Len(passwords[s]) : passwords[s][n] = Password(s, n)

(***************************************************************************)
(* On Linux SendPacket returns whatever the peer does: a slow peer loses   *)
(* the reply and does not hold up the others.  (Or the signal ends the     *)
(* process.)  On Windows a peer that does not read can hold the thread in  *)
(* send, and nothing else can.                                             *)
(***************************************************************************)
HeldUp == build = "windows" /\ pc = "send" /\ sk_err[cur] = "none" /\ Free = 0

SendReturns == pc = "send" ~> (pc # "send" \/ HeldUp)
=============================================================================
