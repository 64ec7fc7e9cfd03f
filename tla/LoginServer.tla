---------------------------- MODULE LoginServer -----------------------------
(***************************************************************************)
(* The certifier process on Linux: the loop of main, CNetworkServer's      *)
(* epoll loop, CCertifyServer's client pool, packet loop and               *)
(* authentication check, and shutdown.  One thread runs all of it; an      *)
(* action is the code between two points at which the kernel state can     *)
(* change or be observed.                                                  *)
(*                                                                         *)
(* pc says where the thread is:                                            *)
(*   "clock"   before time( NULL ) in main                                 *)
(*   "wait"    before epoll_wait                                           *)
(*   "batch"   in the loop over m_events, at the first of `events'         *)
(*   "parse"   in the while loop of OnClientData, for that event           *)
(*   "failed"  accept has failed although a connection is waiting          *)
(*   "kbhit"   Process has returned                                        *)
(*   "closing" in the loop of Close                                        *)
(*   "closed"  Close has returned; "exit" the server object is destroyed   *)
(***************************************************************************)
EXTENDS Kernel, Framing

CONSTANTS
  Obj,           \* heap cells for CertifyClient objects
  NULL,          \* no object
  MAX_EVENTS,    \* events per epoll_wait: 32768 in the code
  MAX_BUFFER,    \* bytes per read: 32768 in the code
  IdRange,       \* 2^32: ProtocolId is a uint32_t
  m_nAuthenicationTimeout,  \* seconds
  AddMayFail,    \* whether epoll_ctl( EPOLL_CTL_ADD ) may fail
  AcceptMayFail  \* whether accept may fail with a descriptor free (ENFILE,
                 \* ENOBUFS, ENOMEM, EINTR, a network error)

ASSUME ServerAssumption ==
  /\ NULL \notin Obj
  /\ MAX_EVENTS \in Nat \ {0}
  /\ MAX_BUFFER \in Nat \ {0}
  /\ IdRange \in Nat \ {0}
  /\ m_nAuthenicationTimeout \in Nat
  /\ AddMayFail \in BOOLEAN /\ AcceptMayFail \in BOOLEAN
  /\ Scripts \subseteq Seq(Byte)

VARIABLES
  m_clients,    \* m_clients[f]: the object serving descriptor f, or NULL
  m_pFreeList,  \* the free list, top first
  heap,         \* objects allocated and not deleted
  client,       \* client[o]: the session fields of the object
  buffer,       \* buffer[o]: its CAr, from the start to m_lpBufMax
  m_nNextId,
  events,       \* events of the batch not finished yet; the first is at work
                \* (fd and hup are the code's; of, the connection the event
                \* was about, is history)
  tm,           \* the clock as main read it
  pc,
  handled,      \* history: bytes of the packets handled in o's session
  clean         \* history: o's buffer was empty when its session began

serverVars ==
  <<m_clients, m_pFreeList, heap, client, buffer, m_nNextId, events, tm, pc,
    handled, clean>>
vars == <<kernelVars, serverVars>>
poolVars == <<m_clients, m_pFreeList, heap, m_nNextId, clean>>

Reason == {"", "prefix", "header", "timeout"}

(***************************************************************************)
(* The fields before Init has run: the constructor sets none of them.      *)
(***************************************************************************)
RawClient ==
  [Socket |-> m_sock, bDisconnect |-> FALSE, szDisconnectReason |-> "",
   ProtocolId |-> 0, tmStartTime |-> 0, bAuthenticated |-> FALSE]

ServerInit ==
  /\ m_clients = [f \in Fd |-> NULL]
  /\ m_pFreeList = <<>>
  /\ heap = {}
  /\ client = [o \in Obj |-> RawClient]
  /\ buffer = [o \in Obj |-> <<>>]
  /\ m_nNextId = 1
  /\ events = <<>>
  /\ tm = 0
  /\ pc = "clock"
  /\ handled = [o \in Obj |-> <<>>]
  /\ clean = [o \in Obj |-> TRUE]

Init == KernelInit /\ ServerInit

Live == {m_clients[f] : f \in Fd} \ {NULL}

(***************************************************************************)
(* The lookup of a descriptor's object in m_clients.                       *)
(***************************************************************************)
FirstClient(f) ==   \* mutant: begin() for find()
  m_clients[CHOOSE g \in Fd :
    m_clients[g] # NULL /\ \A h \in Fd : m_clients[h] # NULL => g <= h]

ClientOf(f) == m_clients[f]

(***************************************************************************)
(* The thread is in the loop over m_events, at an event of descriptor f.   *)
(***************************************************************************)
At(f) == pc = "batch" /\ events # <<>> /\ Head(events).fd = f

-----------------------------------------------------------------------------
(* main and epoll_wait *)

ReadClockOnce ==    \* mutant: the clock is read once, before the loop
  /\ pc = "clock"
  /\ pc' = "wait"
  /\ UNCHANGED <<kernelVars, poolVars, client, buffer, events, tm, handled>>

ReadClock ==
  /\ pc = "clock"
  /\ tm' = now
  /\ pc' = "wait"
  /\ UNCHANGED <<kernelVars, poolVars, client, buffer, events, handled>>

EpollWait ==
  /\ pc = "wait"
  /\ \E batch \in Batches(MAX_EVENTS) :
       /\ events' = [i \in DOMAIN batch |->
                       [fd |-> batch[i], hup |-> HungUp(batch[i]),
                        of |-> IF batch[i] = m_sock THEN NoConn
                               ELSE fdtab[batch[i]]]]
       /\ ready' = {f \in ready : Readable(f)} \ {batch[i] : i \in DOMAIN batch}
  /\ pc' = "batch"
  /\ UNCHANGED <<conn, peer, tosend, rx, backlog, listening, fdtab, watched, now,
                 poolVars, client, buffer, tm, handled>>

-----------------------------------------------------------------------------
(* The client pool *)

InitClientKeepsMark(cl, f) ==       \* mutant: bDisconnect is not reset
  [cl EXCEPT !.Socket = f, !.ProtocolId = m_nNextId % IdRange,
             !.tmStartTime = now, !.bAuthenticated = FALSE]

InitClientPreIncrement(cl, f) ==    \* mutant: ++m_nNextId for m_nNextId++
  [cl EXCEPT !.Socket = f, !.bDisconnect = FALSE,
             !.ProtocolId = (m_nNextId + 1) % IdRange,
             !.tmStartTime = now, !.bAuthenticated = FALSE]

(***************************************************************************)
(* CertifyClient::Init.  The buffer and the reason of the last disconnect  *)
(* are not among the fields it resets.                                     *)
(***************************************************************************)
InitClient(cl, f) ==
  [cl EXCEPT !.Socket = f, !.bDisconnect = FALSE,
             !.ProtocolId = m_nNextId % IdRange,
             !.tmStartTime = now, !.bAuthenticated = FALSE]

AllocateClient(o, f) ==
  /\ \/ /\ m_pFreeList # <<>> /\ o = Head(m_pFreeList)
        /\ m_pFreeList' = Tail(m_pFreeList)
        /\ UNCHANGED <<heap, buffer>>
     \/ /\ m_pFreeList = <<>> /\ o \in Obj \ heap
        /\ heap' = heap \cup {o}
        /\ buffer' = [buffer EXCEPT ![o] = <<>>]
        /\ UNCHANGED m_pFreeList
  /\ client' = [client EXCEPT ![o] = InitClient(@, f)]
  /\ m_nNextId' = m_nNextId + 1
  /\ handled' = [handled EXCEPT ![o] = <<>>]
  /\ clean' = [clean EXCEPT ![o] = buffer'[o] = <<>>]

FreeClientDropsList(o) ==   \* mutant: next is not linked
  /\ m_pFreeList' = <<o>>
  /\ UNCHANGED <<heap, client, buffer, m_nNextId, handled, clean>>

FreeClientLeaks(o) ==       \* mutant: the object is not put on the list
  UNCHANGED <<m_pFreeList, heap, client, buffer, m_nNextId, handled, clean>>

(***************************************************************************)
(* FreeClient before m_bIsDestroy is set: Uninit resets nothing.           *)
(***************************************************************************)
FreeClient(o) ==
  /\ m_pFreeList' = <<o>> \o m_pFreeList
  /\ UNCHANGED <<heap, client, buffer, m_nNextId, handled, clean>>

EndSessionKeepsEntry(f) ==    \* mutant: no m_clients.erase
  CloseSocket(f) /\ UNCHANGED m_clients /\ FreeClient(m_clients[f])

EndSessionErasesFirst(f) ==   \* mutant: the entry is read after the erase
  /\ CloseSocket(f)
  /\ m_clients' = [m_clients EXCEPT ![f] = NULL]
  /\ FreeClient(m_clients'[f])

(***************************************************************************)
(* closesocket, m_clients.erase, FreeClient: the end of a session.         *)
(***************************************************************************)
EndSession(f) ==
  /\ CloseSocket(f)
  /\ m_clients' = [m_clients EXCEPT ![f] = NULL]
  /\ FreeClient(m_clients[f])

-----------------------------------------------------------------------------
(* The loop over m_events *)

NextEvent == events' = Tail(events) /\ pc' = "batch"

HangUpFallsThrough(f) ==      \* mutant: no continue after FreeClient
  At(f) /\ Head(events).hup /\ EndSession(f) /\ UNCHANGED <<events, pc, tm>>

HangUp(f) ==
  /\ At(f) /\ Head(events).hup
  /\ EndSession(f)
  /\ NextEvent
  /\ UNCHANGED tm

AcceptClientOnce ==           \* mutant: no loop around accept
  /\ At(m_sock) /\ backlog # <<>>
  /\ \E f \in Fd, o \in Obj :
       /\ AcceptAndAdd(f, TRUE)
       /\ AllocateClient(o, f)
       /\ m_clients' = [m_clients EXCEPT ![f] = o]
  /\ NextEvent
  /\ UNCHANGED tm

AcceptClient ==
  /\ At(m_sock) /\ backlog # <<>>
  /\ \E f \in Fd, o \in Obj, added \in {TRUE, ~AddMayFail} :
       /\ AcceptAndAdd(f, added)
       /\ AllocateClient(o, f)
       /\ m_clients' = [m_clients EXCEPT ![f] = o]
  /\ UNCHANGED <<events, tm, pc>>

(***************************************************************************)
(* accept fails with EAGAIN: nothing is queued.                            *)
(***************************************************************************)
AcceptEnds ==
  /\ At(m_sock) /\ backlog = <<>>
  /\ NextEvent
  /\ UNCHANGED <<kernelVars, poolVars, client, buffer, tm, handled>>

(***************************************************************************)
(* accept fails with a connection queued: the process has no descriptor    *)
(* left (EMFILE), or accept finds another reason.  The connection stays    *)
(* where it is.                                                            *)
(***************************************************************************)
AcceptFailure ==
  /\ backlog # <<>>
  /\ FreeFds = {} \/ AcceptMayFail
  /\ pc' = "failed"
  /\ UNCHANGED <<kernelVars, poolVars, client, buffer, events, tm, handled>>

AcceptFails == At(m_sock) /\ AcceptFailure

(***************************************************************************)
(* "Failed to accept connecting socket" is printed and the loop around     *)
(* accept left, whatever the reason was.                                   *)
(***************************************************************************)
AcceptAbandoned ==
  /\ pc = "failed" /\ events # <<>> /\ Head(events).fd = m_sock
  /\ NextEvent
  /\ UNCHANGED <<kernelVars, poolVars, client, buffer, tm, handled>>

ReadData(f) ==
  LET c == fdtab[f]
      o == ClientOf(f)
      k == IF Len(rx[c]) < MAX_BUFFER THEN Len(rx[c]) ELSE MAX_BUFFER
  IN
  /\ At(f) /\ ~Head(events).hup
  /\ rx[c] # <<>>
  /\ rx' = [rx EXCEPT ![c] = SubSeq(@, k + 1, Len(@))]
  /\ buffer' = [buffer EXCEPT ![o] = @ \o SubSeq(rx[c], 1, k)]
  /\ pc' = "parse"
  /\ UNCHANGED <<conn, peer, tosend, backlog, listening, fdtab, watched, ready,
                 now, poolVars, client, events, tm, handled>>

(***************************************************************************)
(* read fails with EAGAIN: the socket is drained.                          *)
(***************************************************************************)
ReadDrained(f) ==
  /\ At(f) /\ ~Head(events).hup
  /\ ~Pending(fdtab[f])
  /\ NextEvent
  /\ UNCHANGED <<kernelVars, poolVars, client, buffer, tm, handled>>

(***************************************************************************)
(* read returns 0 or fails with another error: the session ends.           *)
(***************************************************************************)
ReadEnds(f) ==
  /\ At(f) /\ ~Head(events).hup
  /\ rx[fdtab[f]] = <<>> /\ peer[fdtab[f]] # "up"
  /\ EndSession(f)
  /\ NextEvent
  /\ UNCHANGED tm

-----------------------------------------------------------------------------
(* The while loop of OnClientData *)

Current == ClientOf(Head(events).fd)

Disconnect(cl, reason) ==
  [cl EXCEPT !.bDisconnect = TRUE, !.szDisconnectReason = reason]

ParseShortEndsRead ==         \* mutant: one read per event
  /\ pc = "parse" /\ HeaderMissing(buffer[Current])
  /\ NextEvent
  /\ UNCHANGED <<kernelVars, poolVars, client, buffer, tm, handled>>

(***************************************************************************)
(* OnClientData returns to the read loop: fewer bytes than a header, a     *)
(* wrong prefix or a code without a handler.                               *)
(***************************************************************************)
ParseShort ==
  /\ pc = "parse" /\ HeaderMissing(buffer[Current])
  /\ pc' = "batch"
  /\ UNCHANGED <<kernelVars, poolVars, client, buffer, events, tm, handled>>

ParseRefused(reason) ==
  /\ pc = "parse"
  /\ \/ reason = "prefix" /\ PrefixWrong(buffer[Current])
     \/ /\ reason = "header" /\ Complete(buffer[Current])
        /\ \E code \in CodeField(buffer[Current]) : code \notin m_functions
  /\ client' = [client EXCEPT ![Current] = Disconnect(@, reason)]
  /\ pc' = "batch"
  /\ UNCHANGED <<kernelVars, poolVars, buffer, events, tm, handled>>

(***************************************************************************)
(* A header without its whole body: the loop goes round with nothing       *)
(* changed.                                                                *)
(***************************************************************************)
ParseIncomplete ==
  /\ pc = "parse" /\ Incomplete(buffer[Current])
  /\ UNCHANGED vars

(***************************************************************************)
(* A handler runs.  It changes nothing here: OnCertify sends an error      *)
(* reply, the others do nothing.  The packet leaves the buffer only if the *)
(* client is not marked for disconnection.  What follows it moves up: the  *)
(* model is that of a build whose memcpy copies upwards, as PacketRounds   *)
(* has it, which says what is left of this otherwise.                      *)
(***************************************************************************)
ParsePacket ==
  LET o == Current IN
  /\ pc = "parse" /\ Complete(buffer[o])
  /\ \E code \in CodeField(buffer[o]) : code \in m_functions
  /\ handled' = [handled EXCEPT ![o] = @ \o Packet(buffer[o])]
  /\ IF client[o].bDisconnect
     THEN pc' = "batch" /\ UNCHANGED buffer
     ELSE buffer' = [buffer EXCEPT ![o] = RemovePacket(@)] /\ UNCHANGED pc
  /\ UNCHANGED <<kernelVars, poolVars, client, events, tm>>

-----------------------------------------------------------------------------
(* CCertifyServer::Process after the batch *)

(***************************************************************************)
(* Zero for ever: Process assigns the next check time to its own parameter,*)
(* so that every call checks.                                              *)
(***************************************************************************)
tmNextCheckClients == 0

TimedOut(o) ==
  /\ ~client[o].bAuthenticated
  /\ tm > client[o].tmStartTime + m_nAuthenicationTimeout

CheckClients ==
  /\ pc = "batch" /\ events = <<>>
  /\ client' = [o \in Obj |->
       IF tm >= tmNextCheckClients /\ o \in Live /\ TimedOut(o)
       THEN Disconnect(client[o], "timeout") ELSE client[o]]
  /\ pc' = "kbhit"
  /\ UNCHANGED <<kernelVars, poolVars, buffer, events, tm, handled>>

-----------------------------------------------------------------------------
(* The end of a round of main, and shutdown *)

NoKey ==
  /\ pc = "kbhit"
  /\ pc' = "clock"
  /\ UNCHANGED <<kernelVars, poolVars, client, buffer, events, tm, handled>>

EscapeKey ==
  /\ pc = "kbhit"
  /\ pc' = "closing"
  /\ UNCHANGED <<kernelVars, poolVars, client, buffer, events, tm, handled>>

(***************************************************************************)
(* One round of the loop in Close: the first entry of m_clients.           *)
(***************************************************************************)
CloseClient(f) ==
  /\ pc = "closing"
  /\ m_clients[f] # NULL /\ \A g \in Fd : m_clients[g] # NULL => f <= g
  /\ EndSession(f)
  /\ UNCHANGED <<events, tm, pc>>

CloseServerFirst ==           \* mutant: the clients are left to the process
  pc = "closing" /\ CloseListener /\ pc' = "closed"
  /\ UNCHANGED <<poolVars, client, buffer, events, tm, handled>>

CloseServer ==
  /\ pc = "closing" /\ \A f \in Fd : m_clients[f] = NULL
  /\ CloseListener
  /\ pc' = "closed"
  /\ UNCHANGED <<poolVars, client, buffer, events, tm, handled>>

(***************************************************************************)
(* The destructors: ~CCertifyServer deletes the free list, ~CNetworkServer *)
(* calls Close, which returns at once.                                     *)
(***************************************************************************)
Destroy ==
  /\ pc = "closed"
  /\ heap' = heap \ {m_pFreeList[i] : i \in DOMAIN m_pFreeList}
  /\ m_pFreeList' = <<>>
  /\ pc' = "exit"
  /\ UNCHANGED <<kernelVars, m_clients, m_nNextId, clean, client, buffer, events,
                 tm, handled>>

Exited == pc = "exit" /\ UNCHANGED vars

-----------------------------------------------------------------------------
Parse ==
  \/ ParseShort \/ ParseIncomplete \/ ParsePacket
  \/ \E reason \in Reason : ParseRefused(reason)

Server ==
  \/ ReadClock \/ EpollWait
  \/ AcceptClient \/ AcceptEnds \/ AcceptFails \/ AcceptAbandoned
  \/ \E f \in Fd : HangUp(f) \/ ReadData(f) \/ ReadDrained(f) \/ ReadEnds(f)
  \/ Parse
  \/ CheckClients \/ NoKey \/ EscapeKey
  \/ (\E f \in Fd : CloseClient(f)) \/ CloseServer \/ Destroy

World == KernelNext /\ UNCHANGED serverVars

Next == Server \/ World \/ Exited

Spec == Init /\ [][Next]_vars

(***************************************************************************)
(* The thread is always scheduled; peers, clock and keyboard owe nothing.  *)
(***************************************************************************)
FairSpec == Spec /\ WF_vars(Server)
-----------------------------------------------------------------------------
(* What makes the server correct. *)

Bytes == [b : Byte, s : Conn, n : Nat]

(***************************************************************************)
(* Types of the server's variables.                                        *)
(***************************************************************************)
TypeOK ==
  /\ m_clients \in [Fd -> Obj \cup {NULL}]
  /\ m_pFreeList \in Seq(Obj)
  /\ heap \subseteq Obj
  /\ client \in [Obj ->
       [Socket : Fd \cup {m_sock}, bDisconnect : BOOLEAN,
        szDisconnectReason : Reason, ProtocolId : Nat,
        tmStartTime : Nat, bAuthenticated : BOOLEAN]]
  /\ buffer \in [Obj -> Seq(Bytes)]
  /\ m_nNextId \in Nat
  /\ events \in Seq([fd : Fd \cup {m_sock}, hup : BOOLEAN,
                     of : Conn \cup {NoConn}])
  /\ tm \in Nat
  /\ pc \in {"clock", "wait", "batch", "parse", "failed", "kbhit", "closing",
             "closed", "exit"}
  /\ handled \in [Obj -> Seq(Bytes)]
  /\ clean \in [Obj -> BOOLEAN]

(***************************************************************************)
(* m_clients is the table of open descriptors: it has an entry exactly for *)
(* the connections accepted and not closed, the entry's object belongs to  *)
(* that descriptor, and no two descriptors are open on one connection.     *)
(***************************************************************************)
ClientTable ==
  /\ \A f \in Fd : m_clients[f] = NULL <=> fdtab[f] = NoConn
  /\ \A f \in Fd : m_clients[f] # NULL => client[m_clients[f]].Socket = f
  /\ \A f, g \in Fd : fdtab[f] = fdtab[g] /\ fdtab[f] # NoConn => f = g
  /\ {c \in Conn : conn[c] = "open"} = {fdtab[f] : f \in Fd} \ {NoConn}

(***************************************************************************)
(* AllocateClient and FreeClient share out the objects: every allocated    *)
(* object serves one descriptor or is once on the free list, never both,   *)
(* and no object is lost.                                                  *)
(***************************************************************************)
PoolDiscipline ==
  /\ \A f, g \in Fd : m_clients[f] = m_clients[g] /\ m_clients[f] # NULL => f = g
  /\ \A i, j \in DOMAIN m_pFreeList : m_pFreeList[i] = m_pFreeList[j] => i = j
  /\ Live \cap {m_pFreeList[i] : i \in DOMAIN m_pFreeList} = {}
  /\ heap = Live \cup {m_pFreeList[i] : i \in DOMAIN m_pFreeList}

(***************************************************************************)
(* AllocateClient calls new only when no object is idle: over any number   *)
(* of sessions the pool never outgrows the descriptors.                    *)
(***************************************************************************)
PoolBound == Cardinality(heap) <= Cardinality(Fd)

(***************************************************************************)
(* An event still to be handled is about the connection that is open on    *)
(* its descriptor now, although earlier events of the batch close and      *)
(* accept descriptors: the case Process calls "Fatal error, client is not  *)
(* in m_clients" does not occur, and no session is ended by its            *)
(* predecessor's hang-up.                                                  *)
(***************************************************************************)
NoStaleEvent ==
  \A i \in DOMAIN events :
    LET f == events[i].fd IN
    f # m_sock => m_clients[f] # NULL /\ fdtab[f] = events[i].of

(***************************************************************************)
(* The loop will come to descriptor f: it has an edge epoll_wait has yet   *)
(* to report, or an event of the batch still to be handled.                *)
(***************************************************************************)
Announced(f) == f \in ready \/ \E i \in DOMAIN events : events[i].fd = f

(***************************************************************************)
(* The edge-triggered loop forgets nobody: it will come to every           *)
(* registered descriptor that has something to report.  For the listening  *)
(* socket this needs that accept does not fail, hence a descriptor for     *)
(* every connection: the accept loop is left at the first failure, with    *)
(* connections queued.                                                     *)
(***************************************************************************)
NoLostEdge ==
  \A f \in watched \cup (IF /\ Cardinality(Conn) <= Cardinality(Fd)
                            /\ ~AcceptMayFail /\ listening
                         THEN {m_sock} ELSE {}) :
    Readable(f) => Announced(f)

(***************************************************************************)
(* What a peer sends is handled once and in order: for a session that      *)
(* began with an empty buffer, the packets handled, the buffer, the socket *)
(* and the bytes not sent yet are the peer's bytes, numbered from 1.       *)
(***************************************************************************)
ByteStream ==
  \A f \in Fd :
    LET o == m_clients[f]
        c == fdtab[f]
        stream == handled[o] \o buffer[o] \o rx[c] \o tosend[c]
    IN
    o # NULL /\ clean[o] /\ ~client[o].bDisconnect =>
      \A i \in DOMAIN stream : stream[i].s = c /\ stream[i].n = i

(***************************************************************************)
(* The packet loop as the session of descriptor f goes through it; its     *)
(* peer's bytes are those received and not read and those not sent yet.    *)
(* memcpy is taken to copy upwards, see ParsePacket.                       *)
(***************************************************************************)
Rounds(f) == INSTANCE PacketRounds WITH
  upwards <- TRUE,
  tosend <- rx[fdtab[f]] \o tosend[fdtab[f]],
  buffer <- buffer[m_clients[f]],
  handled <- handled[m_clients[f]],
  bDisconnect <- client[m_clients[f]].bDisconnect

(***************************************************************************)
(* A step that does not end the session of f.                              *)
(***************************************************************************)
Lasts(f) ==
  m_clients[f] # NULL /\ m_clients'[f] = m_clients[f] /\ fdtab'[f] = fdtab[f]

(***************************************************************************)
(* A session that is not marked goes through the packet loop as if it were *)
(* alone: whatever the server does, for it and for the others, is a round  *)
(* of PacketRounds for this session, or leaves it as it is.                *)
(***************************************************************************)
SessionRounds ==
  [][\A f \in Fd : Lasts(f) /\ ~client[m_clients[f]].bDisconnect
       => [Rounds(f)!Next]_(Rounds(f)!roundVars)]_vars

(***************************************************************************)
(* No session receives bytes of another session that is still open: what   *)
(* is not its own in its buffer was left by a session that has ended.      *)
(***************************************************************************)
NoCrossTalk ==
  \A f \in Fd : m_clients[f] # NULL =>
    \A i \in DOMAIN buffer[m_clients[f]] :
      LET c == buffer[m_clients[f]][i].s IN c = fdtab[f] \/ conn[c] = "closed"

(***************************************************************************)
(* A session is marked as timed out only when it is older than the time    *)
(* allowed, whatever the object did in earlier sessions.                   *)
(***************************************************************************)
NoEarlyTimeout ==
  \A o \in Live :
    client[o].bDisconnect /\ client[o].szDisconnectReason = "timeout" =>
      now - client[o].tmStartTime > m_nAuthenicationTimeout

(***************************************************************************)
(* Shutdown lets go of every client: after Close no connection is open or  *)
(* waiting, no descriptor of a client and no session is left, the          *)
(* listening socket is closed and nothing is left in the epoll set; and    *)
(* after the destructors no object is.  (The descriptor of the epoll set   *)
(* itself, m_efd, is no part of this: Close leaves it open, see Startup.)  *)
(***************************************************************************)
ShutdownComplete ==
  /\ pc \in {"closed", "exit"} =>
       /\ FreeFds = Fd /\ Live = {} /\ ~listening /\ watched = {}
       /\ \A c \in Conn : conn[c] \in {"none", "closed"}
  /\ pc = "exit" => heap = {}

(***************************************************************************)
(* The server implements Sessions.                                         *)
(***************************************************************************)
Serving(c) == {f \in Fd : fdtab[f] = c}

S == INSTANCE Sessions WITH
  queue <- backlog,
  served <- {c \in Conn : conn[c] = "open"},
  ended <- {c \in Conn : conn[c] = "closed"},
  id <- [c \in Conn |-> IF Serving(c) = {} THEN 0
           ELSE client[m_clients[CHOOSE f \in Fd : fdtab[f] = c]].ProtocolId],
  next <- m_nNextId,
  open <- listening

ImplementsSessions == S!Spec

(***************************************************************************)
(* The thread is caught in the packet loop (ParseIncomplete).              *)
(***************************************************************************)
Spinning == pc = "parse" /\ Incomplete(buffer[Current])

Gone(c) == conn[c] = "closed" \/ Spinning

(***************************************************************************)
(* As long as accept does not fail, every connection in the listen queue   *)
(* is accepted, or refused by shutdown, unless the thread is caught.       *)
(***************************************************************************)
Accepted(c) == conn[c] = "queued" ~> conn[c] = "open" \/ Gone(c)

EveryoneAccepted ==
  [](pc # "failed") => \A c \in Conn : Accepted(c)

(***************************************************************************)
(* A failure of accept is made good by the next edge of the listening      *)
(* socket: whoever waits while the loop is bound to come to it, also those *)
(* an earlier failure left in the queue, is accepted or refused by         *)
(* shutdown, unless accept fails once more or the thread is caught.        *)
(***************************************************************************)
QueueRecovers ==
  \A c \in Conn :
    conn[c] = "queued" /\ Announced(m_sock)
      ~> conn[c] = "open" \/ Gone(c) \/ pc = "failed"

(***************************************************************************)
(* Every byte received is read: one edge is enough, however many reads the *)
(* data takes.                                                             *)
(***************************************************************************)
EverythingRead ==
  \A c \in Conn :
    conn[c] = "open" /\ rx[c] # <<>> ~> rx[c] = <<>> \/ Gone(c)

(***************************************************************************)
(* A peer that closes or resets its connection ends its session.           *)
(***************************************************************************)
EndNoticed ==
  \A c \in Conn : conn[c] = "open" /\ peer[c] # "up" ~> Gone(c)

(***************************************************************************)
(* A session older than the time allowed comes to be marked, unless it     *)
(* ends first: Process looks at every session, with a fresh clock, on      *)
(* every round.                                                            *)
(***************************************************************************)
OverdueMarked ==
  \A o \in Obj :
    o \in Live /\ now - client[o].tmStartTime > m_nAuthenicationTimeout
      ~> o \notin Live \/ client[o].bDisconnect \/ Spinning

-----------------------------------------------------------------------------
(* What the comments and the configuration file say, and the code does not *)
(* do: each is refuted by a run of its own.                                *)

(***************************************************************************)
(* "if this exceeds a specified amount the client will be disconnected":   *)
(* a session marked as timed out ends.                                     *)
(***************************************************************************)
TimeoutDisconnects ==
  \A c \in Conn :
    (\E f \in Fd : /\ fdtab[f] = c /\ m_clients[f] # NULL
                   /\ client[m_clients[f]].bDisconnect
                   /\ client[m_clients[f]].szDisconnectReason = "timeout")
      ~> conn[c] = "closed"

(***************************************************************************)
(* "0 means indefinitely": with a timeout of zero no session times out.    *)
(***************************************************************************)
ZeroMeansIndefinitely ==
  m_nAuthenicationTimeout = 0 =>
    \A o \in Live : ~(/\ client[o].bDisconnect
                      /\ client[o].szDisconnectReason = "timeout")

(***************************************************************************)
(* "read entire packet and parse": the packet loop waits for the rest of a *)
(* packet by returning to the read loop.                                   *)
(***************************************************************************)
PacketLoopReturns == pc = "parse" ~> pc = "batch"

(***************************************************************************)
(* "while each client is pooled": what an object keeps from one session    *)
(* to the next is not part of a session, so that a session handles the     *)
(* bytes of its own peer only.                                             *)
(***************************************************************************)
SessionIsolation ==
  \A f \in Fd : m_clients[f] # NULL =>
    \A i \in DOMAIN handled[m_clients[f]] :
      handled[m_clients[f]][i].s = fdtab[f]
=============================================================================
