---------------------------- MODULE SessionProofs ----------------------------
(***************************************************************************)
(* What LoginServer promises its sessions, proved on top of                *)
(* LoginServerProofs' IInv: shutdown leaves nothing behind, no session is  *)
(* timed out early, no edge is lost, the pool stays small, and the server  *)
(* implements the abstract Sessions.  Their bytes are in StreamProofs.     *)
(***************************************************************************)
EXTENDS LoginServerProofs, FiniteSetTheorems

-----------------------------------------------------------------------------
(* Types and steps *)

Down == {"closed", "exit"}

LEMMA ConnTyped ==
  ASSUME IInv
  PROVE  /\ rx \in [Conn -> Seq(Bytes)] /\ tosend \in [Conn -> Seq(Bytes)]
         /\ fdtab \in [Fd -> Conn \cup {NoConn}]
         /\ conn \in [Conn -> {"none", "queued", "open", "closed"}]
BY DEF IInv, KernelTypeOK

LEMMA ObjTyped ==
  ASSUME IInv
  PROVE  /\ buffer \in [Obj -> Seq(Bytes)] /\ handled \in [Obj -> Seq(Bytes)]
         /\ m_clients \in [Fd -> Obj \cup {NULL}]
BY DEF IInv, TypeOK

LEMMA Serves ==
  ASSUME IInv, NEW f \in Fd, m_clients[f] # NULL
  PROVE  m_clients[f] \in Obj /\ fdtab[f] \in Conn /\ conn[fdtab[f]] = "open"
<1>1. fdtab[f] # NoConn /\ m_clients[f] \in Obj /\ fdtab[f] \in Conn
  BY DEF IInv, ClientTable, KernelTypeOK, TypeOK
<1>2. fdtab[f] \in {c \in Conn : conn[c] = "open"}
  BY <1>1 DEF IInv, ClientTable
<1> QED BY <1>1, <1>2

LEMMA Apart ==
  ASSUME IInv, NEW f \in Fd, NEW g \in Fd, f # g,
         m_clients[f] # NULL, m_clients[g] # NULL
  PROVE  m_clients[f] # m_clients[g] /\ fdtab[f] # fdtab[g]
<1>1. fdtab[f] # NoConn
  BY Serves, KernelAssumption
<1>2. fdtab[f] # fdtab[g]
  BY <1>1 DEF IInv, ClientTable
<1> QED BY <1>2 DEF IInv, PoolDiscipline

(***************************************************************************)
(* The actions of LoginServer that neither admit nor end a session, and    *)
(* those that end one.                                                     *)
(***************************************************************************)
Working ==
  \/ ReadClock \/ EpollWait
  \/ AcceptEnds \/ AcceptFails \/ AcceptAbandoned
  \/ (\E f \in Fd : ReadData(f) \/ ReadDrained(f))
  \/ Parse \/ CheckClients \/ NoKey \/ EscapeKey

Ending(f) == HangUp(f) \/ ReadEnds(f) \/ CloseClient(f)

LEMMA ServerSteps ==
  ASSUME [Next]_vars
  PROVE  \/ Working
         \/ \E f \in Fd : Ending(f)
         \/ AcceptClient \/ CloseServer \/ Destroy
         \/ World
         \/ UNCHANGED vars
BY DEF Next, Server, Working, Ending, Exited

LEMMA WorkingSteps ==
  ASSUME Working
  PROVE  /\ UNCHANGED <<m_clients, heap, m_pFreeList, m_nNextId, clean, fdtab, conn,
                        watched, listening, backlog, tosend, now>>
         /\ pc \notin Down /\ pc' \notin Down
<1> USE DEF kernelVars, poolVars, Down
<1>1. CASE \/ ReadClock \/ NoKey \/ EscapeKey \/ CheckClients
           \/ AcceptEnds \/ AcceptFails \/ AcceptAbandoned
  BY <1>1 DEF ReadClock, NoKey, EscapeKey, AcceptEnds, AcceptFails, AcceptFailure,
      AcceptAbandoned, CheckClients, At, NextEvent
<1>2. CASE EpollWait
  BY <1>2 DEF EpollWait
<1>3. CASE \E f \in Fd : ReadData(f) \/ ReadDrained(f)
  BY <1>3 DEF ReadData, ReadDrained, At, NextEvent
<1>4. CASE ParseShort \/ ParsePacket \/ \E reason \in Reason : ParseRefused(reason)
  BY <1>4 DEF ParseShort, ParsePacket, ParseRefused
<1>5. CASE ParseIncomplete
  BY <1>5 DEF ParseIncomplete, vars, serverVars
<1> QED BY <1>1, <1>2, <1>3, <1>4, <1>5 DEF Working, Parse

LEMMA EndingSteps ==
  ASSUME IInv, NEW f \in Fd, Ending(f)
  PROVE  /\ EndSession(f) /\ m_clients[f] # NULL
         /\ pc \notin Down /\ pc' \notin Down /\ UNCHANGED tm
<1>1. CASE CloseClient(f)
  BY <1>1 DEF CloseClient, Down
<1>2. CASE HangUp(f) \/ ReadEnds(f)
  <2>1. At(f) /\ EndSession(f) /\ NextEvent /\ UNCHANGED tm
    BY <1>2 DEF HangUp, ReadEnds
  <2>2. events # <<>> /\ Head(events) = events[1] /\ 1 \in DOMAIN events
    BY <2>1, TailElements, LenProperties DEF IInv, TypeOK, At
  <2>3. m_clients[f] # NULL
    BY <2>1, <2>2, KernelAssumption DEF IInv, NoStaleEvent, At
  <2> QED BY <2>1, <2>3 DEF At, NextEvent, Down
<1> QED BY <1>1, <1>2 DEF Ending

(***************************************************************************)
(* What AcceptClient does to the descriptors.                              *)
(***************************************************************************)
LEMMA AcceptSteps ==
  ASSUME IInv, AcceptClient
  PROVE  \E f \in Fd, o \in Obj, added \in BOOLEAN :
           /\ Accept(f, added) /\ AllocateClient(o, f)
           /\ m_clients' = [m_clients EXCEPT ![f] = o]
           /\ backlog # <<>> /\ pc = "batch" /\ UNCHANGED <<events, tm, pc>>
BY ServerAssumption DEF AcceptClient, AcceptAndAdd, At

(***************************************************************************)
(* A step of the loop leaves a session as it is, marks it as refused, or   *)
(* marks it because it is overdue.                                         *)
(***************************************************************************)
LEMMA WorkingMarks ==
  ASSUME IInv, Working, NEW o \in Obj
  PROVE  \/ client'[o] = client[o]
         \/ \E reason \in {"prefix", "header"} :
              client'[o] = Disconnect(client[o], reason)
         \/ TimedOut(o) /\ client'[o] = Disconnect(client[o], "timeout")
<1>1. client \in [Obj -> [Socket : Fd \cup {m_sock}, bDisconnect : BOOLEAN,
           szDisconnectReason : Reason, ProtocolId : Nat,
           tmStartTime : Nat, bAuthenticated : BOOLEAN]]
  BY DEF IInv, TypeOK
<1>2. CASE \/ ReadClock \/ NoKey \/ EscapeKey
           \/ AcceptEnds \/ AcceptFails \/ AcceptAbandoned
  BY <1>2 DEF ReadClock, NoKey, EscapeKey, AcceptEnds, AcceptFails, AcceptFailure,
      AcceptAbandoned
<1>3. CASE EpollWait
  BY <1>3 DEF EpollWait
<1>4. CASE \E f \in Fd : ReadData(f) \/ ReadDrained(f)
  BY <1>4 DEF ReadData, ReadDrained
<1>5. CASE ParseShort \/ ParsePacket
  BY <1>5 DEF ParseShort, ParsePacket
<1>6. ASSUME NEW reason \in Reason, ParseRefused(reason)
      PROVE  \/ client'[o] = client[o]
             \/ client'[o] = Disconnect(client[o], reason) /\ reason \in {"prefix", "header"}
  <2>1. reason \in {"prefix", "header"}
    BY <1>6 DEF ParseRefused
  <2>2. client' = [client EXCEPT ![Current] = Disconnect(@, reason)]
    BY <1>6 DEF ParseRefused
  <2>3. \A p \in Obj : client'[p] = IF p = Current THEN Disconnect(client[p], reason)
                                    ELSE client[p]
    BY <1>1, <2>2
  <2> QED BY <2>1, <2>3
<1>7. CASE ParseIncomplete
  BY <1>7 DEF ParseIncomplete, vars, serverVars
<1>8. CASE CheckClients
  <2>1. client'[o] = IF tm >= tmNextCheckClients /\ o \in Live /\ TimedOut(o)
                     THEN Disconnect(client[o], "timeout") ELSE client[o]
    BY <1>8 DEF CheckClients
  <2> QED BY <2>1
<1> QED BY <1>2, <1>3, <1>4, <1>5, <1>6, <1>7, <1>8 DEF Working, Parse

(***************************************************************************)
(* Steps that move bytes: from the socket of a session into its buffer,    *)
(* and a packet from the beginning of the buffer to `handled', which       *)
(* leaves the buffer unless the session is marked.                         *)
(***************************************************************************)
Takes(f, k) ==
  LET c == fdtab[f]
      o == m_clients[f]
  IN
  /\ c \in Conn /\ o \in Obj /\ k > 0 /\ k <= Len(rx[c])
  /\ rx' = [rx EXCEPT ![c] = SubSeq(@, k + 1, Len(@))]
  /\ buffer' = [buffer EXCEPT ![o] = @ \o SubSeq(rx[c], 1, k)]
  /\ UNCHANGED <<handled, client>>

Handles(f, k) ==
  LET o == m_clients[f] IN
  /\ o \in Obj /\ k <= Len(buffer[o])
  /\ k = PacketLength(buffer[o]) /\ Complete(buffer[o])
  /\ CodeField(buffer[o]) \cap m_functions # {}
  /\ handled' = [handled EXCEPT ![o] = @ \o SubSeq(buffer[o], 1, k)]
  /\ \/ client[o].bDisconnect /\ UNCHANGED buffer
     \/ buffer' = [buffer EXCEPT ![o] = SubSeq(buffer[o], k + 1, Len(buffer[o]))]
  /\ UNCHANGED <<rx, client>>

LEMMA DataRead ==
  ASSUME IInv, NEW f \in Fd, ReadData(f)
  PROVE  \E k \in Nat : Takes(f, k)
<1>1. events # <<>> /\ Head(events).fd = f /\ f # m_sock
  BY KernelAssumption DEF ReadData, At
<1>2. Head(events) = events[1] /\ 1 \in DOMAIN events
  BY <1>1, TailElements, LenProperties DEF IInv, TypeOK
<1>3. m_clients[f] \in Obj /\ fdtab[f] \in Conn
  BY <1>1, <1>2 DEF IInv, NoStaleEvent, TypeOK, ClientTable, KernelTypeOK
<1>4. Len(rx[fdtab[f]]) \in Nat
  BY <1>3, LenProperties DEF IInv, KernelTypeOK
<1> DEFINE k == IF Len(rx[fdtab[f]]) < MAX_BUFFER THEN Len(rx[fdtab[f]]) ELSE MAX_BUFFER
<1>5. k \in Nat /\ k > 0 /\ k <= Len(rx[fdtab[f]])
  <2>1. Len(rx[fdtab[f]]) # 0
    BY <1>3, EmptySeq DEF ReadData, IInv, KernelTypeOK
  <2> QED BY <1>4, <2>1, ServerAssumption
<1>6. Takes(f, k)
  BY <1>3, <1>5 DEF Takes, ReadData, ClientOf
<1> QED BY <1>5, <1>6

LEMMA PacketHandled ==
  ASSUME IInv, ParsePacket
  PROVE  \E f \in Fd, k \in Nat : Handles(f, k) /\ m_clients[f] = Current
<1> DEFINE f == Head(events).fd
           k == PacketLength(buffer[Current])
<1>1. f \in Fd /\ Current = m_clients[f] /\ Current \in Obj
  BY CurrentIsObject DEF ParsePacket, IInv, EventsOK, Current, ClientOf
<1>2. buffer[Current] \in Seq(Bytes) /\ Complete(buffer[Current])
  BY <1>1 DEF ParsePacket, IInv, TypeOK
<1>3. k \in Nat
  <2>1. Len(buffer[Current]) >= 2 /\ Len(buffer[Current]) \in Nat
    BY <1>2, FramingAssumption, LenProperties DEF Complete, PrefixRight, HeaderMissing
  <2>2. buffer[Current][2] \in Bytes
    BY <1>2, <2>1, ElementOfSeq
  <2>3. buffer[Current][2].b \in Byte
    BY <2>2 DEF Bytes
  <2>4. SizeField(buffer[Current]) \in Nat
    BY <2>3, FramingAssumption DEF SizeField
  <2> QED BY <2>4, FramingAssumption DEF PacketLength
<1>4. k <= Len(buffer[Current])
  BY <1>2, <1>3, LenProperties DEF Complete
<1>5. Handles(f, k)
  <2>1. CodeField(buffer[Current]) \cap m_functions # {}
    BY DEF ParsePacket
  <2> QED BY <1>1, <1>2, <1>4, <2>1 DEF Handles, ParsePacket, Packet, RemovePacket, kernelVars
<1> HIDE DEF k
<1> QED BY <1>1, <1>3, <1>5

LEMMA DataSteps ==
  ASSUME IInv, Working
  PROVE  \/ UNCHANGED <<buffer, handled, rx>>
         \/ \E f \in Fd, k \in Nat : Takes(f, k) \/ Handles(f, k)
<1>1. CASE \/ ReadClock \/ NoKey \/ EscapeKey \/ CheckClients
           \/ AcceptEnds \/ AcceptFails \/ AcceptAbandoned
  BY <1>1 DEF ReadClock, NoKey, EscapeKey, AcceptEnds, AcceptFails, AcceptFailure,
      AcceptAbandoned, CheckClients, kernelVars
<1>2. CASE EpollWait
  BY <1>2 DEF EpollWait
<1>3. CASE ParseShort \/ \E reason \in Reason : ParseRefused(reason)
  BY <1>3 DEF ParseShort, ParseRefused, kernelVars
<1>4. CASE ParseIncomplete
  BY <1>4 DEF ParseIncomplete, vars, serverVars, kernelVars
<1>5. ASSUME NEW f \in Fd, ReadDrained(f) PROVE UNCHANGED <<buffer, handled, rx>>
  BY <1>5 DEF ReadDrained, kernelVars
<1> QED
  BY <1>1, <1>2, <1>3, <1>4, <1>5, DataRead, PacketHandled DEF Working, Parse

(***************************************************************************)
(* What any step does, on either platform, in terms of sessions: it leaves *)
(* all of them in their place, moves bytes of one of them at most and      *)
(* marks some; or it ends one; or it admits one; or it is of shutdown or   *)
(* of the world.                                                           *)
(***************************************************************************)
Staying ==
  /\ UNCHANGED <<m_clients, heap, m_pFreeList, m_nNextId, clean, fdtab, conn,
                 watched, listening, backlog, tosend, now>>
  /\ pc \notin Down /\ pc' \notin Down
  /\ \/ UNCHANGED <<buffer, handled, rx>>
     \/ \E f \in Fd, k \in Nat : Takes(f, k) \/ Handles(f, k)
  /\ \A o \in Obj : /\ client'[o].ProtocolId = client[o].ProtocolId
                    /\ client'[o].bDisconnect \in {client[o].bDisconnect, TRUE}

Ends(f) ==
  /\ EndSession(f) /\ m_clients[f] # NULL
  /\ pc \notin Down /\ pc' \notin Down

Admits ==
  \E f \in Fd, o \in Obj, added \in BOOLEAN :
    /\ Accept(f, added) /\ AllocateClient(o, f)
    /\ m_clients' = [m_clients EXCEPT ![f] = o]
    /\ backlog # <<>> /\ pc \notin Down /\ pc' \notin Down

Step ==
  \/ Staying \/ (\E f \in Fd : Ends(f)) \/ Admits
  \/ CloseServer \/ Destroy \/ World
  \/ UNCHANGED vars

LEMMA WorkingStays == ASSUME IInv, Working PROVE Staying
<1>1. ASSUME NEW o \in Obj
      PROVE  /\ client'[o].ProtocolId = client[o].ProtocolId
             /\ client'[o].bDisconnect \in {client[o].bDisconnect, TRUE}
  <2>1. client[o] \in [Socket : Fd \cup {m_sock}, bDisconnect : BOOLEAN,
           szDisconnectReason : Reason, ProtocolId : Nat,
           tmStartTime : Nat, bAuthenticated : BOOLEAN]
    BY DEF IInv, TypeOK
  <2>2. \A reason : /\ Disconnect(client[o], reason).ProtocolId = client[o].ProtocolId
                    /\ Disconnect(client[o], reason).bDisconnect = TRUE
    BY <2>1 DEF Disconnect
  <2> QED BY <2>2, WorkingMarks
<1> QED BY <1>1, WorkingSteps, DataSteps DEF Staying

LEMMA LinuxSteps == ASSUME IInv, [Next]_vars PROVE Step
<1>1. AcceptClient => Admits
  <2> SUFFICES ASSUME AcceptClient PROVE Admits
    OBVIOUS
  <2>1. pc \notin Down /\ pc' \notin Down
    BY DEF AcceptClient, At, Down
  <2> QED BY <2>1, AcceptSteps DEF Admits
<1>2. \A f \in Fd : Ending(f) => Ends(f)
  BY EndingSteps DEF Ends
<1> QED BY <1>1, <1>2, ServerSteps, WorkingStays DEF Step

-----------------------------------------------------------------------------
(* Shutdown *)

(***************************************************************************)
(* The listening socket lives until Close; epoll watches descriptors of    *)
(* clients only, so that none is watched when the last has gone; and a     *)
(* connection is queued only while the socket listens.                     *)
(***************************************************************************)
CloseInv ==
  /\ listening <=> pc \notin Down
  /\ \A f \in watched : m_clients[f] # NULL
  /\ pc \in Down => /\ \A f \in Fd : m_clients[f] = NULL
                    /\ \A c \in Conn : conn[c] # "queued"
  /\ pc = "exit" => heap = {}

LEMMA CloseStep == ASSUME IInv, CloseInv, Step PROVE CloseInv'
<1> USE DEF CloseInv
<1>1. CASE Staying
  BY <1>1 DEF Staying, Down
<1>2. ASSUME NEW f \in Fd, Ends(f) PROVE CloseInv'
  <2>1. EndSession(f) /\ pc \notin Down /\ pc' \notin Down
    BY <1>2 DEF Ends
  <2>2. \A g \in Fd : g # f => m_clients'[g] = m_clients[g]
    BY <2>1 DEF EndSession, IInv, TypeOK
  <2>3. listening' = listening /\ watched' = watched \ {f} /\ watched \subseteq Fd
    BY <2>1 DEF EndSession, CloseSocket, IInv, KernelTypeOK
  <2> QED BY <2>1, <2>2, <2>3 DEF Down
<1>3. CASE Admits
  <2>1. PICK f \in Fd, o \in Obj, added \in BOOLEAN :
          /\ Accept(f, added)
          /\ m_clients' = [m_clients EXCEPT ![f] = o]
          /\ pc \notin Down /\ pc' \notin Down
    BY <1>3 DEF Admits
  <2>2. /\ listening' = listening /\ watched' \subseteq watched \cup {f}
        /\ watched \subseteq Fd
    BY <2>1 DEF Accept, IInv, KernelTypeOK
  <2>3. \A g \in Fd : m_clients'[g] = IF g = f THEN o ELSE m_clients[g]
    BY <2>1 DEF IInv, TypeOK
  <2>4. o # NULL
    BY ServerAssumption
  <2> QED BY <2>1, <2>2, <2>3, <2>4 DEF Down
<1>4. CASE CloseServer
  <2>1. \A f \in Fd : m_clients[f] = NULL /\ m_clients'[f] = NULL
    BY <1>4 DEF CloseServer, poolVars
  <2>2. /\ listening' = FALSE /\ pc' = "closed" /\ watched' = watched
        /\ \A c \in Conn : conn'[c] # "queued"
    BY <1>4 DEF CloseServer, CloseListener
  <2> QED BY <2>1, <2>2 DEF Down, IInv, KernelTypeOK
<1>5. CASE Destroy
  <2>1. Live = {}
    BY <1>5 DEF Destroy, Live, Down
  <2>2. heap' = {}
    BY <1>5, <2>1 DEF Destroy, IInv, PoolDiscipline
  <2> QED BY <1>5, <2>2 DEF Destroy, kernelVars, Down
<1>6. CASE World
  <2>1. UNCHANGED <<m_clients, heap, pc, listening, watched>>
    BY <1>6 DEF World, KernelNext, serverVars, Connect, PeerSend, PeerClose, PeerReset, Tick
  <2>2. pc \in Down => \A c \in Conn : conn'[c] = conn[c]
    BY <1>6 DEF World, KernelNext, Connect, PeerSend, PeerClose, PeerReset, Tick
  <2> QED BY <2>1, <2>2
<1>7. CASE UNCHANGED vars
  BY <1>7 DEF vars, kernelVars, serverVars
<1> QED BY <1>1, <1>2, <1>3, <1>4, <1>5, <1>6, <1>7 DEF Step

LEMMA CloseInit == Init => CloseInv
BY DEF Init, KernelInit, ServerInit, CloseInv, Down

LEMMA NothingLeft == ASSUME IInv, CloseInv PROVE ShutdownComplete
<1> SUFFICES ASSUME pc \in Down
             PROVE  /\ FreeFds = Fd /\ Live = {} /\ ~listening /\ watched = {}
                    /\ \A c \in Conn : conn[c] \in {"none", "closed"}
                    /\ pc = "exit" => heap = {}
  BY DEF ShutdownComplete, Down
<1>1. \A f \in Fd : m_clients[f] = NULL
  BY DEF CloseInv
<1>2. FreeFds = Fd /\ {fdtab[f] : f \in Fd} \ {NoConn} = {}
  BY <1>1 DEF FreeFds, IInv, ClientTable
<1>3. Live = {} /\ watched = {} /\ ~listening
  BY <1>1 DEF Live, CloseInv, IInv, KernelTypeOK
<1>4. \A c \in Conn : conn[c] # "open"
  BY <1>2 DEF IInv, ClientTable
<1>5. \A c \in Conn : conn[c] \in {"none", "closed"}
  BY <1>4 DEF CloseInv, IInv, KernelTypeOK
<1> QED BY <1>2, <1>3, <1>5 DEF CloseInv

(***************************************************************************)
(* After Close the listening socket and every client's are closed, no      *)
(* session and no queued connection is left, and after the destructors no  *)
(* object, whatever was going on.  (m_efd is left open: see Startup.)      *)
(***************************************************************************)
THEOREM ShutdownCorrect == Spec => []ShutdownComplete
<1>1. IInv /\ CloseInv => ShutdownComplete
  BY NothingLeft
<1>2. IInv /\ CloseInv /\ [Next]_vars => CloseInv'
  BY LinuxSteps, CloseStep
<1> QED BY <1>1, <1>2, CloseInit, Invariance, PTL DEF Spec

-----------------------------------------------------------------------------
(* Timeouts *)

(***************************************************************************)
(* The time of a round is never ahead of the clock.                        *)
(***************************************************************************)
ClockInv == tm <= now /\ NoEarlyTimeout

LEMMA ClockStep == ASSUME IInv, ClockInv, [Next]_vars PROVE ClockInv'
<1> DEFINE Overdue(o) == client[o].bDisconnect /\ client[o].szDisconnectReason = "timeout"
<1>1. /\ now \in Nat /\ tm \in Nat /\ m_nAuthenicationTimeout \in Nat
      /\ \A o \in Obj : /\ client[o] \in [Socket : Fd \cup {m_sock}, bDisconnect : BOOLEAN,
                             szDisconnectReason : Reason, ProtocolId : Nat,
                             tmStartTime : Nat, bAuthenticated : BOOLEAN]
                        /\ client[o].tmStartTime \in Nat
      /\ Live \subseteq Obj
  BY ServerAssumption DEF IInv, TypeOK, KernelTypeOK, Live
<1>2. tm <= now
      /\ \A o \in Live : Overdue(o) => now - client[o].tmStartTime > m_nAuthenicationTimeout
  BY DEF ClockInv, NoEarlyTimeout
<1>3. ASSUME UNCHANGED <<client, tm>>, Live' \subseteq Live, now' \in Nat, now' >= now
      PROVE  ClockInv'
  <2>1. tm' <= now'
    BY <1>1, <1>2, <1>3
  <2>2. \A o \in Live' : Overdue(o)' => now' - client'[o].tmStartTime > m_nAuthenicationTimeout
    BY <1>1, <1>2, <1>3
  <2> QED BY <2>1, <2>2 DEF ClockInv, NoEarlyTimeout
<1>4. CASE Working
  <2>1. now' = now /\ Live' = Live
    BY <1>4, WorkingSteps DEF Live
  <2>2. tm' \in {tm, now}
    <3>1. CASE ReadClock
      BY <3>1 DEF ReadClock
    <3>2. CASE ~ReadClock
      BY <1>4, <3>2 DEF Working, EpollWait, AcceptEnds, AcceptFails, AcceptFailure,
          AcceptAbandoned, ReadData, ReadDrained, Parse,
           ParseShort, ParseRefused, ParseIncomplete, ParsePacket, CheckClients, NoKey,
           EscapeKey, vars, serverVars
    <3> QED BY <3>1, <3>2
  <2>3. tm' <= now'
    BY <1>1, <1>2, <2>1, <2>2
  <2>4. ASSUME NEW o \in Live, Overdue(o)'
        PROVE  now' - client'[o].tmStartTime > m_nAuthenicationTimeout
    <3>1. o \in Obj
      BY <1>1
    <3>2. CASE client'[o] = client[o]
      BY <1>2, <2>1, <2>4, <3>2
    <3>3. CASE \E reason \in {"prefix", "header"} : client'[o] = Disconnect(client[o], reason)
      <4>1. PICK reason \in {"prefix", "header"} : client'[o] = Disconnect(client[o], reason)
        BY <3>3
      <4>2. client'[o].szDisconnectReason = reason
        BY <1>1, <3>1, <4>1 DEF Disconnect
      <4> QED BY <2>4, <4>2
    <3>4. CASE TimedOut(o) /\ client'[o] = Disconnect(client[o], "timeout")
      <4>1. client'[o].tmStartTime = client[o].tmStartTime
        BY <1>1, <3>1, <3>4 DEF Disconnect
      <4>2. tm > client[o].tmStartTime + m_nAuthenicationTimeout
        BY <3>4 DEF TimedOut
      <4> QED BY <1>1, <1>2, <2>1, <3>1, <4>1, <4>2
    <3> QED BY <1>4, <3>1, <3>2, <3>3, <3>4, WorkingMarks
  <2> QED BY <2>1, <2>3, <2>4 DEF ClockInv, NoEarlyTimeout
<1>5. ASSUME NEW f \in Fd, Ending(f) PROVE ClockInv'
  <2>1. EndSession(f) /\ m_clients[f] # NULL /\ UNCHANGED tm
    BY <1>5, EndingSteps
  <2>2. now' = now /\ client' = client
    BY <2>1 DEF EndSession, CloseSocket, FreeClient
  <2>3. \A g \in Fd : m_clients'[g] \in {m_clients[g], NULL}
    BY <2>1 DEF EndSession, IInv, TypeOK
  <2>4. Live' \subseteq Live
    BY <2>3 DEF Live
  <2> QED BY <1>1, <1>3, <2>1, <2>2, <2>4
<1>6. CASE AcceptClient
  <2>1. PICK f \in Fd, o \in Obj, added \in BOOLEAN :
          /\ Accept(f, added) /\ AllocateClient(o, f)
          /\ m_clients' = [m_clients EXCEPT ![f] = o] /\ tm' = tm
    BY <1>6, AcceptSteps
  <2>2. now' = now
    BY <2>1 DEF Accept
  <2>3. \A p \in Obj : client'[p] = IF p = o THEN InitClient(client[o], f) ELSE client[p]
    BY <2>1 DEF AllocateClient, IInv, TypeOK
  <2>4. Live' \subseteq Live \cup {o}
    BY <2>1 DEF Live, IInv, TypeOK
  <2>5. ~client'[o].bDisconnect
    BY <1>1, <2>3 DEF InitClient
  <2>6. \A p \in Live' : Overdue(p)' => now' - client'[p].tmStartTime > m_nAuthenicationTimeout
    BY <1>1, <1>2, <2>2, <2>3, <2>4, <2>5
  <2> QED BY <1>2, <2>1, <2>2, <2>6 DEF ClockInv, NoEarlyTimeout
<1>7. CASE CloseServer \/ Destroy \/ UNCHANGED vars
  BY <1>1, <1>3, <1>7 DEF CloseServer, CloseListener, Destroy, vars, serverVars, kernelVars,
       poolVars, Live
<1>8. CASE World
  <2>1. UNCHANGED <<client, tm, m_clients>>
    BY <1>8 DEF World, serverVars
  <2>2. now' \in {now, now + 1}
    BY <1>8 DEF World, KernelNext, Connect, PeerSend, PeerClose, PeerReset, Tick
  <2> QED BY <1>1, <1>3, <2>1, <2>2 DEF Live
<1> QED BY <1>4, <1>5, <1>6, <1>7, <1>8, ServerSteps

(***************************************************************************)
(* No session is marked as timed out before its time, whatever its object  *)
(* did in earlier sessions and however late main's clock is.               *)
(***************************************************************************)
THEOREM NobodyTimedOutEarly == Spec => []NoEarlyTimeout
<1>1. Init => ClockInv
  BY DEF Init, KernelInit, ServerInit, ClockInv, NoEarlyTimeout, Live
<1>2. ClockInv => NoEarlyTimeout
  BY DEF ClockInv
<1> QED BY <1>1, <1>2, ClockStep, Invariance, PTL DEF Spec

-----------------------------------------------------------------------------
(* Edges *)

LEMMA EventsDomain == ASSUME IInv PROVE DOMAIN events = 1..Len(events)
BY LenProperties DEF IInv, TypeOK

(***************************************************************************)
(* An event done with was about its own descriptor only.                   *)
(***************************************************************************)
LEMMA EventDone ==
  ASSUME IInv, NEW f, events # <<>>, Head(events).fd = f, NextEvent,
         NEW g, g # f, \E i \in DOMAIN events : events[i].fd = g
  PROVE  \E i \in DOMAIN events' : events'[i].fd = g
<1>1. events # <<>> /\ Head(events).fd = f /\ events' = Tail(events)
      /\ events \in Seq([fd : Fd \cup {m_sock}, hup : BOOLEAN, of : Conn \cup {NoConn}])
  BY DEF NextEvent, IInv, TypeOK
<1>2. PICK i \in 1..Len(events) : events[i].fd = g
  BY EventsDomain
<1>3. i # 1 /\ Len(events) \in Nat /\ Len(events') = Len(events) - 1
  BY <1>1, <1>2, TailElements
<1>4. i - 1 \in 1..Len(events')
  BY <1>3
<1>5. events'[i - 1] = events[(i - 1) + 1]
  BY <1>1, <1>4, TailElements
<1>6. (i - 1) + 1 = i
  BY <1>3
<1>7. DOMAIN events' = 1..Len(events')
  BY <1>1, TailElements, LenProperties
<1>8. i - 1 \in DOMAIN events' /\ events'[i - 1].fd = g
  BY <1>2, <1>4, <1>5, <1>6, <1>7
<1> QED BY <1>8

(***************************************************************************)
(* With a descriptor for every connection, accept finds one for every      *)
(* connection that is queued.                                              *)
(***************************************************************************)
LEMMA DescriptorLeft ==
  ASSUME IInv, IsFiniteSet(Conn), IsFiniteSet(Fd),
         Cardinality(Conn) <= Cardinality(Fd), backlog # <<>>
  PROVE  FreeFds # {}
<1> SUFFICES ASSUME \A f \in Fd : fdtab[f] # NoConn PROVE FALSE
  BY DEF FreeFds
<1>1. backlog[1] \in Conn /\ conn[backlog[1]] = "queued"
  <2>1. backlog[1] \in Conn /\ 1 \in 1..Len(backlog)
    BY TailElements DEF IInv, KernelTypeOK
  <2> QED BY <2>1 DEF IInv, BacklogOK
<1> DEFINE Others == Conn \ {backlog[1]}
<1>2. fdtab \in [Fd -> Others]
  <2>1. \A f \in Fd : fdtab[f] \in Conn /\ conn[fdtab[f]] = "open"
    BY Serves DEF IInv, ClientTable
  <2>2. \A f \in Fd : fdtab[f] \in Others
    BY <1>1, <2>1
  <2> QED BY <2>2, ConnTyped
<1>3. fdtab \in Injection(Fd, Others)
  <2>1. \A f, g \in Fd : fdtab[f] = fdtab[g] => f = g
    BY DEF IInv, ClientTable
  <2> QED BY <1>2, <2>1 DEF Injection, IsInjective
<1>4. /\ IsFiniteSet(Others) /\ Cardinality(Others) = Cardinality(Conn) - 1
      /\ Cardinality(Conn) \in Nat /\ Cardinality(Fd) \in Nat
  BY <1>1, FS_RemoveElement, FS_CardinalityType
<1>5. Cardinality(Fd) <= Cardinality(Others)
  BY <1>3, <1>4, FS_Injection
<1> QED BY <1>4, <1>5

(***************************************************************************)
(* The descriptors the loop must not forget.                               *)
(***************************************************************************)
Owed == watched \cup (IF /\ Cardinality(Conn) <= Cardinality(Fd)
                         /\ ~AcceptMayFail /\ listening
                      THEN {m_sock} ELSE {})

EdgeInv == \A g \in Owed : Readable(g) => Announced(g)

(***************************************************************************)
(* Where the queue is owed an announcement accept does not fail.           *)
(***************************************************************************)
FailInv == pc = "failed" => m_sock \notin Owed

LEMMA ReadinessTyped ==
  ASSUME IInv
  PROVE  watched \subseteq Fd /\ Owed \subseteq Fd \cup {m_sock} /\ m_sock \notin watched
BY KernelAssumption DEF IInv, KernelTypeOK, Owed

LEMMA EpollWaitKeeps ==
  ASSUME EpollWait, NEW g \in ready, Readable(g)
  PROVE  g \in ready' \/ \E i \in DOMAIN events' : events'[i].fd = g
<1>1. PICK batch \in Batches(MAX_EVENTS) :
        /\ events' = [i \in DOMAIN batch |->
                        [fd |-> batch[i], hup |-> HungUp(batch[i]),
                         of |-> IF batch[i] = m_sock THEN NoConn
                                ELSE fdtab[batch[i]]]]
        /\ ready' = {f \in ready : Readable(f)} \ {batch[i] : i \in DOMAIN batch}
  BY DEF EpollWait
<1>2. ASSUME NEW j \in DOMAIN batch, g = batch[j]
      PROVE  \E i \in DOMAIN events' : events'[i].fd = g
  BY <1>1, <1>2
<1> QED BY <1>1, <1>2

LEMMA EpollWaitEdges ==
  ASSUME IInv, EdgeInv, EpollWait
  PROVE  EdgeInv'
<1>1. UNCHANGED <<rx, peer, backlog, listening, fdtab, watched>> /\ events = <<>>
  BY DEF EpollWait, IInv, EventsOK
<1>2. ASSUME NEW g \in Owed', Readable(g)' PROVE Announced(g)'
  <2>1. g \in Owed /\ Readable(g)
    BY <1>1, <1>2 DEF Owed, Readable, Pending
  <2>2. g \in ready
    BY <1>1, <2>1 DEF EdgeInv, Announced
  <2> QED BY <2>1, <2>2, EpollWaitKeeps DEF Announced
<1> QED BY <1>2 DEF EdgeInv

LEMMA WorkingEdges ==
  ASSUME IInv, IInv', EdgeInv, FailInv, Working
  PROVE  EdgeInv'
<1>1. CASE ReadClock \/ NoKey \/ EscapeKey \/ AcceptFails \/ CheckClients \/ Parse
  <2>1. UNCHANGED <<rx, peer, backlog, listening, fdtab, watched, ready, events>>
    BY <1>1 DEF ReadClock, NoKey, EscapeKey, AcceptFails, AcceptFailure,
         CheckClients, Parse, ParseShort, ParseRefused,
         ParseIncomplete, ParsePacket, kernelVars, serverVars, vars
  <2> QED BY <2>1 DEF EdgeInv, Owed, Readable, Pending, Announced
<1>2. CASE EpollWait
  BY <1>2, EpollWaitEdges
<1>3. CASE AcceptEnds \/ AcceptAbandoned
  <2>1. /\ events # <<>> /\ Head(events).fd = m_sock /\ NextEvent
        /\ backlog = <<>> \/ m_sock \notin Owed
        /\ UNCHANGED <<rx, peer, backlog, listening, fdtab, watched, ready>>
    BY <1>3 DEF AcceptEnds, AcceptAbandoned, At, FailInv, kernelVars
  <2>2. ASSUME NEW g \in Owed', Readable(g)' PROVE Announced(g)'
    <3>1. g \in Owed /\ Readable(g)
      BY <2>1, <2>2 DEF Owed, Readable, Pending
    <3>2. g # m_sock
      BY <2>1, <3>1 DEF Readable
    <3> QED BY <2>1, <3>1, <3>2, EventDone DEF EdgeInv, Announced
  <2> QED BY <2>2 DEF EdgeInv
<1>4. ASSUME NEW f \in Fd, ReadData(f) PROVE EdgeInv'
  <2>1. /\ rx[fdtab[f]] # <<>>
        /\ \A c \in Conn : c # fdtab[f] => rx'[c] = rx[c]
        /\ UNCHANGED <<peer, backlog, listening, fdtab, watched, ready, events>>
    BY <1>4, ConnTyped DEF ReadData
  <2>2. ASSUME NEW g \in Owed', Readable(g)' PROVE Announced(g)'
    <3>1. g \in Owed /\ g \in Fd \cup {m_sock}
      BY <2>1, ReadinessTyped DEF Owed
    <3>2. Readable(g)
      BY <2>1, <2>2, <3>1, ConnTyped DEF Readable, Pending
    <3> QED BY <2>1, <3>1, <3>2 DEF EdgeInv, Announced
  <2> QED BY <2>2 DEF EdgeInv
<1>5. ASSUME NEW f \in Fd, ReadDrained(f) PROVE EdgeInv'
  <2>1. /\ At(f) /\ NextEvent /\ ~Pending(fdtab[f]) /\ f # m_sock
        /\ UNCHANGED <<rx, peer, backlog, listening, fdtab, watched, ready>>
    BY <1>5, KernelAssumption DEF ReadDrained, kernelVars
  <2>2. ASSUME NEW g \in Owed', Readable(g)' PROVE Announced(g)'
    <3>1. g \in Owed /\ Readable(g) /\ g # f
      BY <2>1, <2>2 DEF Owed, Readable, Pending
    <3> QED BY <2>1, <3>1, EventDone DEF At, EdgeInv, Announced
  <2> QED BY <2>2 DEF EdgeInv
<1> QED BY <1>1, <1>2, <1>3, <1>4, <1>5 DEF Working

LEMMA EndingEdges ==
  ASSUME IInv, EdgeInv, NEW f \in Fd, Ending(f)
  PROVE  EdgeInv'
<1>1. EndSession(f) /\ m_clients[f] # NULL
  BY EndingSteps
<1>2. fdtab[f] \in Conn
  BY <1>1, Serves
<1>3. /\ watched' = watched \ {f} /\ ready' = ready \ {f}
      /\ UNCHANGED <<backlog, listening>>
      /\ \A g \in Fd : g # f => fdtab'[g] = fdtab[g]
      /\ \A c \in Conn : c # fdtab[f] => rx'[c] = rx[c] /\ peer'[c] = peer[c]
  BY <1>1, ConnTyped DEF EndSession, CloseSocket, IInv, KernelTypeOK
<1>4. ASSUME NEW g \in Owed', Readable(g)' PROVE Announced(g)'
  <2>1. g \in Owed /\ g # f /\ g \in Fd \cup {m_sock}
    BY <1>3, ReadinessTyped, KernelAssumption DEF Owed
  <2>2. Readable(g)
    <3>1. CASE g = m_sock
      BY <1>3, <1>4, <3>1 DEF Readable
    <3>2. CASE g # m_sock
      <4>1. g \in Fd /\ fdtab'[g] = fdtab[g] /\ fdtab[g] # NoConn /\ Pending(fdtab[g])'
        BY <1>3, <1>4, <2>1, <3>2 DEF Readable, Pending
      <4>2. fdtab[g] \in Conn /\ fdtab[g] # fdtab[f]
        <5>1. m_clients[g] # NULL
          BY <4>1 DEF IInv, ClientTable
        <5> QED BY <1>1, <2>1, <4>1, <5>1, Apart, Serves
      <4> QED BY <1>3, <3>2, <4>1, <4>2 DEF Readable, Pending
    <3> QED BY <3>1, <3>2
  <2>3. Announced(g)
    BY <2>1, <2>2 DEF EdgeInv
  <2>4. CASE g \in ready
    BY <1>3, <2>1, <2>4 DEF Announced
  <2>5. CASE \E i \in DOMAIN events : events[i].fd = g
    <3>1. CASE CloseClient(f)
      BY <2>5, <3>1 DEF CloseClient, Announced
    <3>2. CASE HangUp(f) \/ ReadEnds(f)
      <4>1. At(f) /\ NextEvent
        BY <3>2 DEF HangUp, ReadEnds
      <4> QED BY <2>1, <2>5, <4>1, EventDone DEF At, Announced
    <3> QED BY <3>1, <3>2 DEF Ending
  <2> QED BY <2>3, <2>4, <2>5 DEF Announced
<1> QED BY <1>4 DEF EdgeInv

LEMMA AcceptEdges ==
  ASSUME IInv, CloseInv, EdgeInv, AcceptClient
  PROVE  EdgeInv'
<1>1. PICK f \in Fd, o \in Obj, added \in BOOLEAN :
        /\ Accept(f, added) /\ AllocateClient(o, f)
        /\ m_clients' = [m_clients EXCEPT ![f] = o]
        /\ backlog # <<>> /\ UNCHANGED events
  BY AcceptSteps
<1>2. m_clients[f] = NULL /\ \A g \in Fd : g # f => fdtab'[g] = fdtab[g]
  BY <1>1, AcceptKeeps
<1>3. f \notin watched
  BY <1>2 DEF CloseInv
<1>4. /\ UNCHANGED <<peer, rx, listening>> /\ ready \subseteq ready'
      /\ fdtab'[f] = Head(backlog)
      /\ watched' = (IF added THEN watched \cup {f} ELSE watched)
      /\ added /\ Pending(Head(backlog)) => f \in ready'
  BY <1>1, ConnTyped DEF Accept
<1>5. ASSUME NEW g \in Owed', Readable(g)' PROVE Announced(g)'
  <2>1. CASE g = f
    <3>1. added /\ g # m_sock
      BY <1>3, <1>4, <1>5, <2>1, KernelAssumption DEF Owed
    <3>2. Pending(Head(backlog))
      BY <1>4, <1>5, <2>1, <3>1 DEF Readable, Pending
    <3> QED BY <1>4, <2>1, <3>1, <3>2 DEF Announced
  <2>2. CASE g # f
    <3>1. g \in Owed /\ g \in Fd \cup {m_sock}
      BY <1>4, <2>2, ReadinessTyped DEF Owed
    <3>2. Readable(g)
      BY <1>1, <1>2, <1>4, <1>5, <2>2, <3>1 DEF Readable, Pending
    <3> QED BY <1>1, <1>4, <3>1, <3>2 DEF EdgeInv, Announced
  <2> QED BY <2>1, <2>2
<1> QED BY <1>5 DEF EdgeInv

LEMMA WorldEdges ==
  ASSUME IInv, EdgeInv, World
  PROVE  EdgeInv'
<1>1. UNCHANGED <<events, fdtab, watched, listening>>
  BY DEF World, KernelNext, serverVars, Connect, PeerSend, PeerClose, PeerReset, Tick
<1>2. ASSUME NEW c \in Conn, Connect(c) PROVE EdgeInv'
  <2>1. /\ UNCHANGED <<peer, rx>> /\ ready' = ready \cup {m_sock}
    BY <1>2 DEF Connect
  <2>2. ASSUME NEW g \in Owed', Readable(g)' PROVE Announced(g)'
    <3>1. CASE g = m_sock
      BY <2>1, <3>1 DEF Announced
    <3>2. CASE g # m_sock
      <4>1. g \in Owed /\ Readable(g)
        BY <1>1, <2>1, <2>2, <3>2 DEF Owed, Readable, Pending
      <4> QED BY <1>1, <2>1, <4>1 DEF EdgeInv, Announced
    <3> QED BY <3>1, <3>2
  <2> QED BY <2>2 DEF EdgeInv
<1>3. ASSUME NEW c \in Conn, PeerSend(c) \/ PeerClose(c) \/ PeerReset(c) PROVE EdgeInv'
  <2>1. Edge(c) /\ backlog' = backlog
    BY <1>3 DEF PeerSend, PeerClose, PeerReset
  <2>2. \A d \in Conn : d # c => rx'[d] = rx[d] /\ peer'[d] = peer[d]
    BY <1>3, ConnTyped DEF PeerSend, PeerClose, PeerReset, IInv, KernelTypeOK
  <2>3. ASSUME NEW g \in Owed', Readable(g)' PROVE Announced(g)'
    <3>1. g \in Owed /\ g \in Fd \cup {m_sock}
      BY <1>1, ReadinessTyped DEF Owed
    <3>2. CASE g # m_sock /\ fdtab[g] = c
      <4>1. g \in watched
        BY <3>1, <3>2 DEF Owed
      <4> QED BY <2>1, <3>2, <4>1 DEF Edge, Announced
    <3>3. CASE g = m_sock \/ fdtab[g] # c
      <4>1. Readable(g)
        BY <1>1, <2>1, <2>2, <2>3, <3>1, <3>3, ConnTyped DEF Readable, Pending
      <4> QED BY <1>1, <2>1, <3>1, <4>1 DEF EdgeInv, Announced, Edge
    <3> QED BY <3>2, <3>3
  <2> QED BY <2>3 DEF EdgeInv
<1>4. CASE UNCHANGED <<rx, peer, backlog, ready>>
  BY <1>1, <1>4 DEF EdgeInv, Owed, Readable, Pending, Announced
<1> QED BY <1>2, <1>3, <1>4 DEF World, KernelNext, Tick

LEMMA EdgeStep ==
  ASSUME IInv, IInv', CloseInv, EdgeInv, FailInv, [Next]_vars
  PROVE  EdgeInv'
<1>1. CASE CloseServer
  <2>1. watched = {}
    BY <1>1, ReadinessTyped DEF CloseServer, CloseInv
  <2>2. watched' = watched /\ listening' = FALSE
    BY <1>1 DEF CloseServer, CloseListener
  <2> QED BY <2>1, <2>2 DEF EdgeInv, Owed
<1>2. CASE Destroy \/ UNCHANGED vars
  <2>1. UNCHANGED <<rx, peer, backlog, listening, fdtab, watched, ready, events>>
    BY <1>2 DEF Destroy, vars, kernelVars, serverVars
  <2> QED BY <2>1 DEF EdgeInv, Owed, Readable, Pending, Announced
<1> QED BY <1>1, <1>2, ServerSteps, WorkingEdges, EndingEdges, AcceptEdges, WorldEdges

(***************************************************************************)
(* accept fails only where the queue may be forgotten; no other step comes *)
(* to the place after a failure, or stays there and owes more.             *)
(***************************************************************************)
LEMMA FailStep ==
  ASSUME IInv, FailInv, [Next]_vars, IsFiniteSet(Conn), IsFiniteSet(Fd)
  PROVE  FailInv'
<1>1. CASE AcceptFails
  <2>1. /\ backlog # <<>> /\ (FreeFds = {} \/ AcceptMayFail)
        /\ UNCHANGED <<watched, listening>>
    BY <1>1 DEF AcceptFails, AcceptFailure, kernelVars
  <2>2. ~(Cardinality(Conn) <= Cardinality(Fd) /\ ~AcceptMayFail)
    BY <2>1, DescriptorLeft
  <2> QED BY <2>1, <2>2, ReadinessTyped DEF FailInv, Owed
<1>2. CASE World \/ UNCHANGED vars
  <2>1. UNCHANGED <<watched, listening, pc>>
    BY <1>2 DEF World, KernelNext, Connect, PeerSend, PeerClose, PeerReset, Tick,
         serverVars, kernelVars, vars
  <2> QED BY <2>1 DEF FailInv, Owed
<1>3. CASE \/ ReadClock \/ EpollWait \/ AcceptEnds \/ AcceptAbandoned
           \/ \E f \in Fd : ReadData(f) \/ ReadDrained(f)
  BY <1>3 DEF ReadClock, EpollWait, AcceptEnds, AcceptAbandoned, ReadData, ReadDrained,
      NextEvent, FailInv
<1>4. CASE CheckClients \/ NoKey \/ EscapeKey \/ CloseServer \/ Destroy
  BY <1>4 DEF CheckClients, NoKey, EscapeKey, CloseServer, Destroy, FailInv
<1>5. CASE Parse
  BY <1>5 DEF Parse, ParseShort, ParseIncomplete, ParseRefused, ParsePacket,
      vars, serverVars, FailInv
<1>6. CASE AcceptClient \/ \E f \in Fd : Ending(f)
  BY <1>6 DEF AcceptClient, Ending, HangUp, ReadEnds, CloseClient, NextEvent, At, FailInv
<1> QED BY <1>1, <1>2, <1>3, <1>4, <1>5, <1>6, ServerSteps DEF Working

(***************************************************************************)
(* However the edges of a batch, of new data and of new connections fall,  *)
(* no registered descriptor that has something to report is forgotten; and *)
(* where accept fails for want of a descriptor only and every connection   *)
(* can have one, no queued connection is.                                  *)
(***************************************************************************)
THEOREM EdgesCorrect ==
  ASSUME IsFiniteSet(Conn), IsFiniteSet(Fd)
  PROVE  Spec => []NoLostEdge
<1>1. Init => CloseInv /\ EdgeInv /\ FailInv
  BY CloseInit DEF Init, KernelInit, ServerInit, EdgeInv, FailInv, Owed, Readable
<1>2. IInv /\ EdgeInv => NoLostEdge
  BY DEF NoLostEdge, EdgeInv, Owed
<1>3. IInv /\ CloseInv /\ EdgeInv /\ FailInv /\ [Next]_vars
        => CloseInv' /\ EdgeInv' /\ FailInv'
  BY NextIInv, LinuxSteps, CloseStep, EdgeStep, FailStep
<1> QED BY <1>1, <1>2, <1>3, Invariance, PTL DEF Spec

-----------------------------------------------------------------------------
(* The pool *)

LEMMA FewInUse ==
  ASSUME IsFiniteSet(Fd), NEW m \in [Fd -> Obj \cup {NULL}]
  PROVE  LET used == {m[f] : f \in Fd} \ {NULL}
         IN  IsFiniteSet(used) /\ Cardinality(used) <= Cardinality(Fd)
<1> DEFINE used == {m[f] : f \in Fd} \ {NULL}
           busy == {f \in Fd : m[f] # NULL}
           serves == [f \in busy |-> m[f]]
<1>1. IsFiniteSet(busy) /\ Cardinality(busy) <= Cardinality(Fd)
  BY FS_Subset
<1>2. serves \in Surjection(busy, used)
  BY DEF Surjection
<1>3. IsFiniteSet(used) /\ Cardinality(used) <= Cardinality(busy)
  BY <1>1, <1>2, FS_Surjection
<1>4. /\ Cardinality(used) \in Nat /\ Cardinality(busy) \in Nat /\ Cardinality(Fd) \in Nat
  BY <1>1, <1>3, FS_CardinalityType
<1> HIDE DEF used, busy
<1>5. Cardinality(used) <= Cardinality(Fd)
  BY <1>1, <1>3, <1>4
<1> QED BY <1>3, <1>5 DEF used

LEMMA PoolStep ==
  ASSUME IInv, IInv', Step, IsFiniteSet(Fd), IsFiniteSet(heap), PoolBound
  PROVE  IsFiniteSet(heap') /\ PoolBound'
<1>1. CASE heap' = heap
  BY <1>1 DEF PoolBound
<1>2. CASE Destroy
  <2>1. heap' \in SUBSET heap
    BY <1>2 DEF Destroy
  <2>2. IsFiniteSet(heap') /\ Cardinality(heap') <= Cardinality(heap)
    BY <2>1, FS_Subset
  <2>3. Cardinality(heap') \in Nat /\ Cardinality(heap) \in Nat /\ Cardinality(Fd) \in Nat
    BY <2>2, FS_CardinalityType
  <2> QED BY <2>2, <2>3 DEF PoolBound
<1>3. CASE Admits /\ heap' # heap
  <2>1. PICK f \in Fd, o \in Obj : AllocateClient(o, f)
    BY <1>3 DEF Admits
  <2>2. m_pFreeList' = <<>>
    BY <1>3, <2>1 DEF AllocateClient
  <2>3. heap' = {m_clients'[g] : g \in Fd} \ {NULL}
    <3>1. heap' = Live' \cup {m_pFreeList'[i] : i \in DOMAIN m_pFreeList'}
      BY DEF IInv, PoolDiscipline
    <3>2. {m_pFreeList'[i] : i \in DOMAIN m_pFreeList'} = {}
      BY <2>2
    <3> QED BY <3>1, <3>2 DEF Live
  <2>4. m_clients' \in [Fd -> Obj \cup {NULL}]
    BY DEF IInv, TypeOK
  <2> QED BY <2>3, <2>4, FewInUse DEF PoolBound
<1>4. CASE Staying \/ CloseServer \/ World \/ UNCHANGED vars
  BY <1>1, <1>4 DEF Staying, CloseServer, poolVars, World, serverVars, vars
<1>5. ASSUME NEW f \in Fd, Ends(f) PROVE heap' = heap
  BY <1>5 DEF Ends, EndSession, FreeClient
<1> QED BY <1>1, <1>2, <1>3, <1>4, <1>5 DEF Step

LEMMA PoolInit ==
  ASSUME Init, IsFiniteSet(Fd) PROVE IsFiniteSet(heap) /\ PoolBound
<1> SUFFICES ASSUME heap = {} PROVE IsFiniteSet(heap) /\ Cardinality(heap) <= Cardinality(Fd)
  BY DEF Init, ServerInit, PoolBound
<1>1. IsFiniteSet(heap) /\ Cardinality(heap) = 0
  BY FS_EmptySet
<1> QED BY <1>1, FS_CardinalityType

(***************************************************************************)
(* However many sessions come and go, there is never an object more than   *)
(* the process has descriptors.                                            *)
(***************************************************************************)
THEOREM PoolBounded == ASSUME IsFiniteSet(Fd) PROVE Spec => []PoolBound
<1> DEFINE Inv == IsFiniteSet(heap) /\ PoolBound
<1>1. Init => Inv
  BY PoolInit
<1>2. IInv /\ Inv /\ [Next]_vars => Inv'
  BY NextIInv, LinuxSteps, PoolStep
<1>3. Inv => PoolBound
  OBVIOUS
<1> QED BY <1>1, <1>2, <1>3, Invariance, PTL DEF Spec

-----------------------------------------------------------------------------
(* The abstract sessions *)

(***************************************************************************)
(* A connection that waits is in the listen queue.                         *)
(***************************************************************************)
QueueInv == \A c \in Conn : conn[c] = "queued" => \E i \in 1..Len(backlog) : backlog[i] = c

LEMMA QueueInit == Init => QueueInv
BY DEF Init, KernelInit, QueueInv

LEMMA QueueStep == ASSUME IInv, IInv', QueueInv, Step PROVE QueueInv'
<1>1. CASE Admits
  <2>1. PICK f \in Fd, o \in Obj, added \in BOOLEAN : Accept(f, added) /\ backlog # <<>>
    BY <1>1 DEF Admits
  <2>2. /\ conn' = [conn EXCEPT ![Head(backlog)] = "open"] /\ backlog' = Tail(backlog)
        /\ backlog \in Seq(Conn)
    BY <2>1 DEF Accept, IInv, KernelTypeOK
  <2>3. ASSUME NEW c \in Conn, conn'[c] = "queued"
        PROVE  \E i \in 1..Len(backlog') : backlog'[i] = c
    <3>1. c # Head(backlog) /\ conn[c] = "queued"
      BY <2>1, <2>2, <2>3, TailElements, ConnTyped
    <3>2. PICK i \in 1..Len(backlog) : backlog[i] = c
      BY <3>1 DEF QueueInv
    <3>3. i # 1 /\ Len(backlog) \in Nat /\ Len(backlog') = Len(backlog) - 1
      BY <2>1, <2>2, <3>1, <3>2, TailElements
    <3>4. i - 1 \in 1..Len(backlog') /\ (i - 1) + 1 = i
      BY <3>3
    <3>5. backlog'[i - 1] = backlog[(i - 1) + 1]
      BY <2>1, <2>2, <3>4, TailElements
    <3> QED BY <3>2, <3>4, <3>5
  <2> QED BY <2>3 DEF QueueInv
<1>2. ASSUME NEW c \in Conn, Connect(c) PROVE QueueInv'
  <2>1. /\ backlog' = Append(backlog, c) /\ backlog \in Seq(Conn)
        /\ \A d \in Conn : d # c => conn'[d] = conn[d]
    BY <1>2, ConnTyped DEF Connect, IInv, KernelTypeOK
  <2>2. /\ Len(backlog) \in Nat /\ Len(backlog') = Len(backlog) + 1
        /\ \A i \in 1..Len(backlog) : backlog'[i] = backlog[i]
        /\ backlog'[Len(backlog) + 1] = c
    BY <2>1, AppendProperties, LenProperties
  <2>3. \A i \in 1..Len(backlog) : i \in 1..Len(backlog')
    BY <2>2
  <2>4. Len(backlog) + 1 \in 1..Len(backlog')
    BY <2>2
  <2> QED BY <2>1, <2>2, <2>3, <2>4 DEF QueueInv
<1>3. ASSUME UNCHANGED backlog, \A c \in Conn : conn'[c] = "queued" => conn[c] = "queued"
      PROVE  QueueInv'
  BY <1>3 DEF QueueInv
<1>4. CASE Staying \/ UNCHANGED vars \/ Destroy
  BY <1>3, <1>4 DEF Staying, vars, kernelVars, Destroy
<1>5. ASSUME NEW f \in Fd, Ends(f) PROVE QueueInv'
  <2>1. EndSession(f)
    BY <1>5 DEF Ends
  <2>2. conn' = [conn EXCEPT ![fdtab[f]] = "closed"] /\ backlog' = backlog
    BY <2>1 DEF EndSession, CloseSocket
  <2> QED BY <1>3, <2>2, ConnTyped
<1>6. CASE CloseServer
  BY <1>6 DEF CloseServer, CloseListener, QueueInv
<1>7. CASE World
  <2>1. CASE UNCHANGED <<conn, backlog>>
    BY <1>3, <2>1
  <2> QED BY <1>2, <1>7, <2>1 DEF World, KernelNext, PeerSend, PeerClose, PeerReset, Tick
<1> QED BY <1>1, <1>2, <1>4, <1>5, <1>6, <1>7 DEF Step

(***************************************************************************)
(* The number of the session that serves a connection, from the tables of  *)
(* descriptors (t), of clients (m) and of their fields (k).                *)
(***************************************************************************)
Numbers(t, m, k) ==
  [c \in Conn |-> IF {f \in Fd : t[f] = c} = {} THEN 0
                  ELSE k[m[CHOOSE f \in Fd : t[f] = c]].ProtocolId]

LEMMA NumberFound ==
  ASSUME NEW t, NEW m, NEW k, NEW f \in Fd, t[f] \in Conn,
         \A g \in Fd : t[g] = t[f] => g = f
  PROVE  Numbers(t, m, k)[t[f]] = k[m[f]].ProtocolId
<1>1. (CHOOSE g \in Fd : t[g] = t[f]) = f
  OBVIOUS
<1> QED BY <1>1 DEF Numbers

LEMMA NumberNone ==
  ASSUME NEW t, NEW m, NEW k, NEW c \in Conn, \A g \in Fd : t[g] # c
  PROVE  Numbers(t, m, k)[c] = 0
BY DEF Numbers

(***************************************************************************)
(* The numbers are the same where the tables are.                          *)
(***************************************************************************)
LEMMA NumberSame ==
  ASSUME IInv, IInv', NEW c \in Conn,
         \A f \in Fd : fdtab[f] = c \/ fdtab'[f] = c =>
           /\ fdtab'[f] = fdtab[f] /\ m_clients'[f] = m_clients[f]
           /\ client'[m_clients[f]].ProtocolId = client[m_clients[f]].ProtocolId
  PROVE  Numbers(fdtab', m_clients', client')[c] = Numbers(fdtab, m_clients, client)[c]
<1>1. CASE \A f \in Fd : fdtab[f] # c
  <2>1. \A f \in Fd : fdtab'[f] # c
    BY <1>1
  <2>2. Numbers(fdtab, m_clients, client)[c] = 0
    BY <1>1, NumberNone
  <2>3. Numbers(fdtab', m_clients', client')[c] = 0
    BY <2>1, NumberNone
  <2> QED BY <2>2, <2>3
<1>2. ASSUME NEW f \in Fd, fdtab[f] = c
      PROVE  Numbers(fdtab', m_clients', client')[c] = Numbers(fdtab, m_clients, client)[c]
  <2>1. fdtab'[f] = c /\ m_clients'[f] = m_clients[f]
        /\ client'[m_clients[f]].ProtocolId = client[m_clients[f]].ProtocolId
    BY <1>2
  <2>2. \A g \in Fd : (fdtab[g] = c => g = f) /\ (fdtab'[g] = c => g = f)
    BY <1>2, <2>1, KernelAssumption DEF IInv, ClientTable
  <2>3. Numbers(fdtab, m_clients, client)[c] = client[m_clients[f]].ProtocolId
    BY <1>2, <2>2, NumberFound
  <2>4. Numbers(fdtab', m_clients', client')[c] = client'[m_clients'[f]].ProtocolId
    BY <2>1, <2>2, NumberFound
  <2> QED BY <2>1, <2>3, <2>4
<1> QED BY <1>1, <1>2

number == Numbers(fdtab, m_clients, client)
Served == {c \in Conn : conn[c] = "open"}
Over == {c \in Conn : conn[c] = "closed"}

(***************************************************************************)
(* The steps of Sessions, under the mapping.                               *)
(***************************************************************************)
LEMMA MappedNext ==
  [S!Next]_(S!sessionVars) <=>
    \/ \E c \in Conn : S!Arrive(c) \/ S!End(c)
    \/ S!Admit \/ S!Shut
    \/ UNCHANGED <<backlog, Served, Over, number, m_nNextId, listening>>
BY DEF S!Next, S!sessionVars, Served, Over, number, Numbers, Serving

LEMMA MappedArrive ==
  ASSUME NEW c \in Conn
  PROVE  S!Arrive(c) <=>
           /\ listening
           /\ c \notin {backlog[i] : i \in DOMAIN backlog} \cup Served \cup Over
           /\ backlog' = Append(backlog, c)
           /\ UNCHANGED <<Served, Over, number, m_nNextId, listening>>
BY DEF S!Arrive, S!Waiting, Served, Over, number, Numbers, Serving

LEMMA MappedAdmit ==
  S!Admit <=>
    /\ listening /\ backlog # <<>>
    /\ backlog' = Tail(backlog)
    /\ Served' = Served \cup {Head(backlog)}
    /\ number' = [number EXCEPT ![Head(backlog)] = m_nNextId % IdRange]
    /\ m_nNextId' = m_nNextId + 1
    /\ UNCHANGED <<Over, listening>>
BY DEF S!Admit, Served, Over, number, Numbers, Serving

LEMMA MappedEnd ==
  ASSUME NEW c \in Conn
  PROVE  S!End(c) <=>
           /\ c \in Served
           /\ Served' = Served \ {c} /\ Over' = Over \cup {c}
           /\ number' = [number EXCEPT ![c] = 0]
           /\ UNCHANGED <<backlog, m_nNextId, listening>>
BY DEF S!End, Served, Over, number, Numbers, Serving

LEMMA MappedShut ==
  S!Shut <=>
    /\ listening /\ Served = {}
    /\ listening' = FALSE /\ backlog' = <<>>
    /\ Over' = Over \cup {backlog[i] : i \in DOMAIN backlog}
    /\ UNCHANGED <<Served, number, m_nNextId>>
BY DEF S!Shut, S!Waiting, Served, Over, number, Numbers, Serving

LEMMA NumberTyped == DOMAIN number = Conn /\ DOMAIN number' = Conn
BY DEF number, Numbers

(***************************************************************************)
(* Two tables of numbers that agree everywhere are the same.               *)
(***************************************************************************)
LEMMA NumberEqual ==
  ASSUME NEW t, NEW m, NEW k, NEW u, DOMAIN u = Conn, u = [c \in Conn |-> u[c]],
         \A c \in Conn : Numbers(t, m, k)[c] = u[c]
  PROVE  Numbers(t, m, k) = u
<1>1. Numbers(t, m, k) = [c \in Conn |-> Numbers(t, m, k)[c]]
  BY DEF Numbers
<1> HIDE DEF Numbers
<1> QED BY <1>1

(***************************************************************************)
(* Steps that move no connection and keep every session's number.          *)
(***************************************************************************)
LEMMA SessionsStay ==
  ASSUME IInv, IInv', UNCHANGED <<conn, backlog, listening, m_nNextId, fdtab, m_clients>>,
         \A o \in Obj : client'[o].ProtocolId = client[o].ProtocolId
  PROVE  [S!Next]_(S!sessionVars)
<1>1. \A c \in Conn : number'[c] = number[c]
  <2> TAKE c \in Conn
  <2>1. \A f \in Fd : fdtab[f] = c => m_clients[f] \in Obj
    BY Serves, KernelAssumption DEF IInv, ClientTable
  <2> QED BY <2>1, NumberSame DEF number
<1>2. number' = number
  <2>1. number = [c \in Conn |-> number[c]]
    BY DEF number, Numbers
  <2> QED BY <1>1, <2>1, NumberTyped, NumberEqual DEF number
<1>3. Served' = Served /\ Over' = Over
  BY DEF Served, Over
<1> QED BY <1>2, <1>3, MappedNext

LEMMA StayingRefines ==
  ASSUME IInv, IInv', Staying
  PROVE  [S!Next]_(S!sessionVars)
BY SessionsStay DEF Staying

LEMMA EndingRefines ==
  ASSUME IInv, IInv', NEW f \in Fd, Ends(f), NEW c \in Conn, c = fdtab[f]
  PROVE  S!End(c)
<1>1. EndSession(f) /\ m_clients[f] # NULL
  BY DEF Ends
<1>2. c \in Conn /\ conn[c] = "open"
  BY <1>1, Serves
<1>3. /\ conn' = [conn EXCEPT ![c] = "closed"]
      /\ m_clients' = [m_clients EXCEPT ![f] = NULL]
      /\ fdtab' = [fdtab EXCEPT ![f] = NoConn]
      /\ UNCHANGED <<backlog, listening, m_nNextId, client>>
  BY <1>1 DEF EndSession, CloseSocket, FreeClient
<1>4. /\ \A g \in Fd : g # f => m_clients'[g] = m_clients[g] /\ fdtab'[g] = fdtab[g]
      /\ fdtab'[f] = NoConn /\ c # NoConn
      /\ \A g \in Fd : g # f => fdtab[g] # c
  BY <1>2, <1>3, ConnTyped, ObjTyped, KernelAssumption DEF IInv, ClientTable
<1>5. number'[c] = 0
  <2>1. \A g \in Fd : fdtab'[g] # c
    BY <1>4
  <2> QED BY <1>2, <2>1, NumberNone DEF number
<1>6. ASSUME NEW d \in Conn, d # c PROVE number'[d] = number[d]
  <2>1. \A g \in Fd : fdtab[g] = d \/ fdtab'[g] = d =>
          fdtab'[g] = fdtab[g] /\ m_clients'[g] = m_clients[g]
    BY <1>4, <1>6, KernelAssumption
  <2> QED BY <1>3, <2>1, NumberSame DEF number
<1>7. number' = [number EXCEPT ![c] = 0]
  <2> DEFINE u == [number EXCEPT ![c] = 0]
  <2>1. /\ DOMAIN u = Conn /\ u = [d \in Conn |-> u[d]]
        /\ \A d \in Conn : u[d] = IF d = c THEN 0 ELSE number[d]
    BY NumberTyped
  <2>2. \A d \in Conn : number'[d] = u[d]
    BY <1>5, <1>6, <2>1
  <2> HIDE DEF u
  <2>3. number' = u
    BY <2>1, <2>2, NumberEqual DEF number
  <2> QED BY <2>3 DEF u
<1>8. Served' = Served \ {c} /\ Over' = Over \cup {c} /\ c \in Served
  BY <1>2, <1>3, ConnTyped DEF Served, Over
<1> QED BY <1>3, <1>7, <1>8, MappedEnd

LEMMA AcceptRefines ==
  ASSUME IInv, IInv', CloseInv, Admits
  PROVE  S!Admit
<1>1. PICK f \in Fd, o \in Obj, added \in BOOLEAN :
        /\ Accept(f, added) /\ AllocateClient(o, f)
        /\ m_clients' = [m_clients EXCEPT ![f] = o]
        /\ backlog # <<>> /\ pc \notin Down
  BY DEF Admits
<1>2. PICK c \in Conn : c = Head(backlog) /\ conn[c] = "queued"
  <2>1. /\ Head(backlog) = backlog[1] /\ 1 \in 1..Len(backlog) /\ Head(backlog) \in Conn
    BY <1>1, TailElements DEF IInv, KernelTypeOK
  <2> QED BY <2>1 DEF IInv, BacklogOK
<1>3. /\ conn' = [conn EXCEPT ![c] = "open"] /\ fdtab' = [fdtab EXCEPT ![f] = c]
      /\ backlog' = Tail(backlog) /\ listening' = listening /\ listening
      /\ m_nNextId' = m_nNextId + 1
      /\ client' = [client EXCEPT ![o] = InitClient(@, f)]
  <2>1. /\ conn' = [conn EXCEPT ![c] = "open"] /\ fdtab' = [fdtab EXCEPT ![f] = c]
        /\ backlog' = Tail(backlog) /\ listening' = listening
    BY <1>1, <1>2 DEF Accept
  <2>2. /\ m_nNextId' = m_nNextId + 1
        /\ client' = [client EXCEPT ![o] = InitClient(@, f)]
    BY <1>1 DEF AllocateClient
  <2>3. listening
    BY <1>1 DEF CloseInv, Down
  <2> QED BY <2>1, <2>2, <2>3
<1>4. /\ \A g \in Fd : g # f => m_clients'[g] = m_clients[g] /\ fdtab'[g] = fdtab[g]
      /\ fdtab'[f] = c /\ m_clients'[f] = o /\ m_clients[f] = NULL
  <2>1. /\ \A g \in Fd : g # f => fdtab'[g] = fdtab[g]
        /\ fdtab'[f] = c
    BY <1>3, ConnTyped
  <2>2. /\ \A g \in Fd : g # f => m_clients'[g] = m_clients[g]
        /\ m_clients'[f] = o
    BY <1>1, ObjTyped
  <2>3. m_clients[f] = NULL
    BY <1>1, AcceptKeeps
  <2> QED BY <2>1, <2>2, <2>3
<1>5. /\ \A g \in Fd : g # f => fdtab'[g] # c
      /\ fdtab[f] = NoConn
  BY <1>4, KernelAssumption DEF IInv, ClientTable
<1>6. client'[o].ProtocolId = m_nNextId % IdRange
  <2>1. client[o] \in [Socket : Fd \cup {m_sock}, bDisconnect : BOOLEAN,
           szDisconnectReason : Reason, ProtocolId : Nat,
           tmStartTime : Nat, bAuthenticated : BOOLEAN] /\ client'[o] = InitClient(client[o], f)
    BY <1>3 DEF IInv, TypeOK
  <2> QED BY <2>1 DEF InitClient
<1>7. number'[c] = m_nNextId % IdRange
  <2>1. fdtab'[f] \in Conn /\ \A g \in Fd : fdtab'[g] = fdtab'[f] => g = f
    BY <1>4, <1>5
  <2>2. Numbers(fdtab', m_clients', client')[fdtab'[f]] = client'[m_clients'[f]].ProtocolId
    BY <2>1, NumberFound
  <2> QED BY <1>4, <1>6, <2>2 DEF number
<1>8. ASSUME NEW d \in Conn, d # c PROVE number'[d] = number[d]
  <2>1. o \notin Live
    BY <1>1, AllocateClientFresh
  <2>2. ASSUME NEW g \in Fd, fdtab[g] = d \/ fdtab'[g] = d
        PROVE  /\ fdtab'[g] = fdtab[g] /\ m_clients'[g] = m_clients[g]
               /\ client'[m_clients[g]].ProtocolId = client[m_clients[g]].ProtocolId
    <3>1. g # f
      BY <1>4, <1>5, <1>8, <2>2, KernelAssumption
    <3>2. fdtab'[g] = fdtab[g] /\ m_clients'[g] = m_clients[g] /\ fdtab[g] = d
      BY <1>4, <2>2, <3>1
    <3>3. m_clients[g] # NULL /\ m_clients[g] # o /\ m_clients[g] \in Obj
      BY <2>1, <3>2, Serves, KernelAssumption DEF IInv, ClientTable, Live
    <3>4. client'[m_clients[g]] = client[m_clients[g]]
      BY <1>3, <3>3 DEF IInv, TypeOK
    <3> QED BY <3>2, <3>4
  <2> QED BY <2>2, NumberSame DEF number
<1>9. number' = [number EXCEPT ![c] = m_nNextId % IdRange]
  <2> DEFINE n == m_nNextId % IdRange
             u == [number EXCEPT ![c] = n]
  <2>1. number'[c] = n
    BY <1>7
  <2> HIDE DEF n
  <2>2. /\ DOMAIN u = Conn /\ u = [d \in Conn |-> u[d]]
        /\ \A d \in Conn : u[d] = IF d = c THEN n ELSE number[d]
    BY NumberTyped
  <2>3. \A d \in Conn : number'[d] = u[d]
    BY <1>8, <2>1, <2>2
  <2> HIDE DEF u
  <2>4. number' = u
    BY <2>2, <2>3, NumberEqual DEF number
  <2> QED BY <2>4 DEF u, n
<1>10. Served' = Served \cup {c} /\ Over' = Over
  BY <1>2, <1>3, ConnTyped DEF Served, Over
<1> QED BY <1>1, <1>2, <1>3, <1>9, <1>10, MappedAdmit

LEMMA CloseRefines ==
  ASSUME IInv, IInv', CloseInv, QueueInv, CloseServer
  PROVE  S!Shut
<1>1. /\ \A f \in Fd : m_clients[f] = NULL
      /\ pc = "closing" /\ listening' = FALSE /\ backlog' = <<>>
      /\ conn' = [c \in Conn |-> IF conn[c] = "queued" THEN "closed" ELSE conn[c]]
      /\ UNCHANGED <<fdtab, m_clients, client, m_nNextId>>
  BY DEF CloseServer, CloseListener, poolVars
<1>2. listening
  BY <1>1 DEF CloseInv, Down
<1>3. Served = {} /\ Served' = Served
  <2>1. \A f \in Fd : fdtab[f] = NoConn
    BY <1>1 DEF IInv, ClientTable
  <2>2. Served = {}
    BY <2>1 DEF IInv, ClientTable, Served
  <2> QED BY <1>1, <2>2 DEF Served
<1>4. Over' = Over \cup {backlog[i] : i \in DOMAIN backlog}
  <2>1. backlog \in Seq(Conn) /\ DOMAIN backlog = 1..Len(backlog)
    BY LenProperties DEF IInv, KernelTypeOK
  <2>2. {backlog[i] : i \in DOMAIN backlog} = {c \in Conn : conn[c] = "queued"}
    <3>1. \A i \in 1..Len(backlog) : backlog[i] \in Conn /\ conn[backlog[i]] = "queued"
      BY <2>1, ElementOfSeq DEF IInv, BacklogOK
    <3>2. \A c \in Conn : conn[c] = "queued" => \E i \in 1..Len(backlog) : backlog[i] = c
      BY DEF QueueInv
    <3> QED BY <2>1, <3>1, <3>2
  <2> QED BY <1>1, <2>2 DEF Over
<1>5. number' = number
  BY <1>1 DEF number
<1> QED BY <1>1, <1>2, <1>3, <1>4, <1>5, MappedShut

LEMMA WorldRefines ==
  ASSUME IInv, IInv', World
  PROVE  [S!Next]_(S!sessionVars)
<1>1. UNCHANGED <<m_clients, fdtab, client, m_nNextId, listening>>
  BY DEF World, KernelNext, serverVars, Connect, PeerSend, PeerClose, PeerReset, Tick
<1>2. ASSUME NEW c \in Conn, Connect(c) PROVE S!Arrive(c)
  <2>1. /\ listening /\ conn[c] = "none" /\ conn' = [conn EXCEPT ![c] = "queued"]
        /\ backlog' = Append(backlog, c)
    BY <1>2 DEF Connect
  <2>2. c \notin {backlog[i] : i \in DOMAIN backlog} \cup Served \cup Over
    <3>1. DOMAIN backlog = 1..Len(backlog)
      BY LenProperties DEF IInv, KernelTypeOK
    <3> QED BY <2>1, <3>1 DEF IInv, BacklogOK, Served, Over
  <2>3. UNCHANGED <<Served, Over, number>>
    BY <1>1, <2>1, ConnTyped DEF Served, Over, number
  <2> QED BY <1>1, <2>1, <2>2, <2>3, MappedArrive
<1>3. ASSUME UNCHANGED <<conn, backlog>> PROVE [S!Next]_(S!sessionVars)
  BY <1>1, <1>3, SessionsStay
<1> QED BY <1>2, <1>3, MappedNext DEF World, KernelNext, PeerSend, PeerClose, PeerReset, Tick

LEMMA StepRefines ==
  ASSUME IInv, IInv', CloseInv, QueueInv, Step
  PROVE  [S!Next]_(S!sessionVars)
<1>1. ASSUME NEW f \in Fd, Ends(f) PROVE [S!Next]_(S!sessionVars)
  <2>1. fdtab[f] \in Conn
    BY <1>1, Serves DEF Ends
  <2>2. PICK c \in Conn : c = fdtab[f]
    BY <2>1
  <2> QED BY <1>1, <2>2, EndingRefines, MappedNext
<1>2. CASE Destroy \/ UNCHANGED vars
  BY <1>2, SessionsStay DEF Destroy, vars, kernelVars, serverVars
<1> QED BY <1>1, <1>2, StayingRefines, AcceptRefines, CloseRefines, WorldRefines,
           MappedNext DEF Step

LEMMA InitRefines == Init => S!Init
<1> SUFFICES ASSUME Init PROVE S!Init
  OBVIOUS
<1>1. /\ conn = [c \in Conn |-> "none"] /\ backlog = <<>> /\ listening = TRUE
      /\ m_nNextId = 1 /\ fdtab = [f \in Fd |-> NoConn]
  BY DEF Init, KernelInit, ServerInit
<1>2. Served = {} /\ Over = {}
  BY <1>1 DEF Served, Over
<1>3. number = [c \in Conn |-> 0]
  <2>1. \A c \in Conn : number[c] = 0
    <3>1. \A c \in Conn, g \in Fd : fdtab[g] # c
      BY <1>1, KernelAssumption
    <3> QED BY <3>1, NumberNone DEF number
  <2> DEFINE u == [c \in Conn |-> 0]
  <2>2. /\ DOMAIN u = Conn /\ u = [c \in Conn |-> u[c]] /\ \A c \in Conn : number[c] = u[c]
    BY <2>1
  <2> HIDE DEF u
  <2>3. number = u
    BY <2>2, NumberEqual DEF number
  <2> QED BY <2>3 DEF u
<1> QED BY <1>1, <1>2, <1>3 DEF S!Init, Served, Over, number, Numbers, Serving

(***************************************************************************)
(* The loop with its batches, descriptors, objects and buffers admits and  *)
(* ends sessions as the abstract network layer does: in order of arrival,  *)
(* once each, under consecutive numbers, none after shutdown.              *)
(***************************************************************************)
THEOREM ServerImplementsSessions == Spec => ImplementsSessions
<1>1. Init => CloseInv /\ QueueInv
  BY CloseInit, QueueInit
<1>2. IInv /\ CloseInv /\ QueueInv /\ [Next]_vars => CloseInv' /\ QueueInv'
  BY NextIInv, LinuxSteps, CloseStep, QueueStep
<1>3. IInv /\ IInv' /\ CloseInv /\ QueueInv /\ [Next]_vars => [S!Next]_(S!sessionVars)
  BY LinuxSteps, StepRefines
<1> QED BY <1>1, <1>2, <1>3, InitRefines, Invariance, PTL
        DEF Spec, ImplementsSessions, S!Spec
=============================================================================
