-------------------------- MODULE LoginServerProofs --------------------------
(***************************************************************************)
(* Proofs about LoginServer, for every set of connections, descriptors,    *)
(* objects and scripts and every batch, buffer and header size.            *)
(*                                                                         *)
(* TypeOK is not inductive: FreeClient pushes the object m_clients has for *)
(* the descriptor of an event, so that the free list is one of objects     *)
(* only if the event has a client.  That holds because the descriptors of  *)
(* a batch differ, because m_clients and the descriptor table agree, and   *)
(* because no two sessions share an object.  IInv is the conjunction.      *)
(***************************************************************************)
EXTENDS LoginServer, SequenceTheorems, TLAPS

KernelTypeOK ==
  /\ conn \in [Conn -> {"none", "queued", "open", "closed"}]
  /\ peer \in [Conn -> {"up", "fin", "rst"}]
  /\ tosend \in [Conn -> Seq(Bytes)]
  /\ rx \in [Conn -> Seq(Bytes)]
  /\ backlog \in Seq(Conn)
  /\ listening \in BOOLEAN
  /\ fdtab \in [Fd -> Conn \cup {NoConn}]
  /\ watched \subseteq Fd
  /\ ready \subseteq Fd \cup {m_sock}
  /\ now \in Nat

(***************************************************************************)
(* The listen queue holds every connection at most once, none accepted.    *)
(***************************************************************************)
BacklogOK ==
  /\ \A i \in 1..Len(backlog) : conn[backlog[i]] = "queued"
  /\ \A i, j \in 1..Len(backlog) : backlog[i] = backlog[j] => i = j

(***************************************************************************)
(* A batch reports a descriptor once; outside the loop over m_events there *)
(* is no event left, and the packet loop works for a connection's event.   *)
(***************************************************************************)
EventsOK ==
  /\ \A i, j \in 1..Len(events) : events[i].fd = events[j].fd => i = j
  /\ pc \notin {"batch", "parse", "failed"} => events = <<>>
  /\ pc = "parse" => events # <<>> /\ Head(events).fd \in Fd

IInv ==
  /\ KernelTypeOK /\ TypeOK
  /\ ClientTable /\ PoolDiscipline /\ BacklogOK
  /\ EventsOK /\ NoStaleEvent

-----------------------------------------------------------------------------
(* Sequences *)

(***************************************************************************)
(* A cut out of a sequence is a sequence over the same set.                *)
(***************************************************************************)
LEMMA CutTyped ==
  ASSUME NEW T, NEW q \in Seq(T), NEW m \in Nat \ {0}, NEW n \in Nat,
         n <= Len(q)
  PROVE  SubSeq(q, m, n) \in Seq(T)
<1>1. \A i \in m..n : q[i] \in T
  BY ElementOfSeq
<1> QED BY <1>1, SubSeqProperties

(***************************************************************************)
(* The tail of a sequence without repetition repeats nothing and misses    *)
(* its head.                                                               *)
(***************************************************************************)
LEMMA TailElements ==
  ASSUME NEW T, NEW q \in Seq(T), q # <<>>
  PROVE  /\ Tail(q) \in Seq(T) /\ Head(q) \in T /\ Head(q) = q[1]
         /\ Len(Tail(q)) = Len(q) - 1 /\ Len(q) \in Nat \ {0}
         /\ \A i \in 1..Len(Tail(q)) : Tail(q)[i] = q[i + 1] /\ i + 1 \in 1..Len(q)
BY HeadTailProperties, EmptySeq, LenProperties

(***************************************************************************)
(* A push puts its element first and keeps the rest in place.              *)
(***************************************************************************)
LEMMA PushElements ==
  ASSUME NEW T, NEW q \in Seq(T), NEW x \in T
  PROVE  /\ <<x>> \o q \in Seq(T) /\ Len(<<x>> \o q) = Len(q) + 1
         /\ (<<x>> \o q)[1] = x
         /\ \A i \in 1..Len(q) : (<<x>> \o q)[i + 1] = q[i]
         /\ \A i \in 2..(Len(q) + 1) : (<<x>> \o q)[i] = q[i - 1]
<1>1. <<x>> \in Seq(T) /\ Len(<<x>>) = 1 /\ <<x>>[1] = x
  OBVIOUS
<1>2. Len(q) \in Nat
  BY LenProperties
<1> QED BY <1>1, <1>2, ConcatProperties

-----------------------------------------------------------------------------
(* The initial states *)

LEMMA InitIInv == Init => IInv
<1> SUFFICES ASSUME Init PROVE IInv
  OBVIOUS
<1> USE KernelAssumption, FramingAssumption, ServerAssumption
    DEF Init, KernelInit, ServerInit
<1>1. KernelTypeOK
  BY DEF KernelTypeOK
<1>2. TypeOK
  <2>1. RawClient \in [Socket : Fd \cup {m_sock}, bDisconnect : BOOLEAN,
           szDisconnectReason : Reason, ProtocolId : Nat,
           tmStartTime : Nat, bAuthenticated : BOOLEAN]
    BY DEF RawClient, Reason
  <2>2. /\ m_clients \in [Fd -> Obj \cup {NULL}]
        /\ heap \subseteq Obj /\ m_nNextId \in Nat /\ tm \in Nat
        /\ pc \in {"clock", "wait", "batch", "parse", "failed", "kbhit",
                  "closing", "closed", "exit"}
    OBVIOUS
  <2>3. m_pFreeList \in Seq(Obj) /\ buffer \in [Obj -> Seq(Bytes)]
        /\ handled \in [Obj -> Seq(Bytes)]
    OBVIOUS
  <2>4. events \in Seq([fd : Fd \cup {m_sock}, hup : BOOLEAN,
                       of : Conn \cup {NoConn}])
    OBVIOUS
  <2>5. clean \in [Obj -> BOOLEAN]
    OBVIOUS
  <2>6. client = [o \in Obj |-> RawClient]
    OBVIOUS
  <2> QED BY <2>1, <2>2, <2>3, <2>4, <2>5, <2>6 DEF TypeOK
<1>3. ClientTable
  BY DEF ClientTable
<1>4. PoolDiscipline
  BY DEF PoolDiscipline, Live
<1>5. BacklogOK /\ EventsOK /\ NoStaleEvent
  BY DEF BacklogOK, EventsOK, NoStaleEvent
<1> QED BY <1>1, <1>2, <1>3, <1>4, <1>5 DEF IInv

-----------------------------------------------------------------------------
(* Steps that leave the descriptors and the pool alone *)

Structural == <<m_clients, m_pFreeList, heap, fdtab, conn, backlog>>

(***************************************************************************)
(* Who owns which object and descriptor does not depend on anything else.  *)
(***************************************************************************)
LEMMA StructureKept ==
  ASSUME IInv, UNCHANGED Structural,
         \A o \in Obj : client'[o].Socket = client[o].Socket
  PROVE  ClientTable' /\ PoolDiscipline' /\ BacklogOK'
<1>1. ClientTable'
  BY DEF IInv, TypeOK, ClientTable, Structural
<1>2. PoolDiscipline'
  BY DEF IInv, PoolDiscipline, Live, Structural
<1>3. BacklogOK'
  BY DEF IInv, BacklogOK, Structural
<1> QED BY <1>1, <1>2, <1>3

(***************************************************************************)
(* The events that remain are still those of their clients, if the step    *)
(* disturbs no descriptor but the one of the event it finishes.            *)
(***************************************************************************)
LEMMA EventFinished ==
  ASSUME IInv, events # <<>>, NextEvent,
         \A g \in Fd : g # Head(events).fd =>
           m_clients'[g] = m_clients[g] /\ fdtab'[g] = fdtab[g]
  PROVE  /\ EventsOK' /\ NoStaleEvent'
         /\ events' \in Seq([fd : Fd \cup {m_sock}, hup : BOOLEAN,
                             of : Conn \cup {NoConn}])
<1> DEFINE E == [fd : Fd \cup {m_sock}, hup : BOOLEAN, of : Conn \cup {NoConn}]
<1>0. events \in Seq(E) /\ events' = Tail(events) /\ pc' = "batch"
  BY DEF IInv, TypeOK, NextEvent
<1> HIDE DEF E
<1>1. /\ events' \in Seq(E) /\ Head(events) = events[1] /\ Len(events) \in Nat \ {0}
      /\ Len(events') = Len(events) - 1
      /\ \A i \in 1..Len(events') :
           events'[i] = events[i + 1] /\ i + 1 \in 1..Len(events)
  BY <1>0, TailElements
<1>2. DOMAIN events = 1..Len(events) /\ DOMAIN events' = 1..Len(events')
  BY <1>0, <1>1, LenProperties
<1>3. \A i, j \in 1..Len(events) : events[i].fd = events[j].fd => i = j
  BY DEF IInv, EventsOK
<1>4. EventsOK'
  BY <1>0, <1>1, <1>3 DEF EventsOK
<1>5. \A i \in 1..Len(events) : events[i] \in E
  BY <1>0, ElementOfSeq
<1>6. NoStaleEvent'
  <2> SUFFICES ASSUME NEW i \in 1..Len(events'), events'[i].fd # m_sock
               PROVE  /\ m_clients'[events'[i].fd] # NULL
                      /\ fdtab'[events'[i].fd] = events'[i].of
    BY <1>2 DEF NoStaleEvent
  <2>1. events'[i] = events[i + 1] /\ i + 1 \in 1..Len(events)
    BY <1>1
  <2>2. events[i + 1].fd \in Fd
    BY <2>1, <1>5 DEF E
  <2>3. events[i + 1].fd # Head(events).fd
    BY <2>1, <1>1, <1>3
  <2>4. /\ m_clients[events[i + 1].fd] # NULL
        /\ fdtab[events[i + 1].fd] = events[i + 1].of
    BY <2>1, <1>2 DEF IInv, NoStaleEvent
  <2> QED BY <2>1, <2>2, <2>3, <2>4
<1> QED BY <1>1, <1>4, <1>6 DEF E

(***************************************************************************)
(* A step that leaves the batch alone and does not move between the loops. *)
(***************************************************************************)
LEMMA EventsKept ==
  ASSUME IInv, UNCHANGED <<events, m_clients, fdtab>>,
         \/ pc' = pc
         \/ pc' \in {"batch", "failed"}
         \/ events = <<>> /\ pc' # "parse"
  PROVE  EventsOK' /\ NoStaleEvent'
BY DEF IInv, EventsOK, NoStaleEvent

LEMMA ReadClockStep == ASSUME IInv, ReadClock PROVE IInv'
<1> USE DEF ReadClock, poolVars, kernelVars
<1>1. KernelTypeOK' /\ TypeOK'
  BY DEF IInv, KernelTypeOK, TypeOK
<1>2. events = <<>>
  BY DEF IInv, EventsOK
<1> QED BY <1>1, <1>2, StructureKept, EventsKept DEF IInv, Structural

LEMMA NoKeyStep == ASSUME IInv, NoKey \/ EscapeKey PROVE IInv'
<1> USE DEF NoKey, EscapeKey, poolVars, kernelVars
<1>1. KernelTypeOK' /\ TypeOK'
  BY DEF IInv, KernelTypeOK, TypeOK
<1>2. events = <<>>
  BY DEF IInv, EventsOK
<1> QED BY <1>1, <1>2, StructureKept, EventsKept DEF IInv, Structural

LEMMA AcceptEndsStep ==
  ASSUME IInv, AcceptEnds \/ AcceptAbandoned PROVE IInv'
<1> USE DEF AcceptEnds, AcceptAbandoned, At, poolVars, kernelVars
<1>1. EventsOK' /\ NoStaleEvent' /\
      events' \in Seq([fd : Fd \cup {m_sock}, hup : BOOLEAN,
                       of : Conn \cup {NoConn}])
  BY EventFinished
<1>2. KernelTypeOK' /\ TypeOK'
  BY <1>1 DEF IInv, KernelTypeOK, TypeOK, NextEvent
<1> QED BY <1>1, <1>2, StructureKept DEF IInv, Structural

LEMMA AcceptFailsStep == ASSUME IInv, AcceptFailure PROVE IInv'
<1> USE DEF AcceptFailure, poolVars, kernelVars
<1>1. KernelTypeOK' /\ TypeOK'
  BY DEF IInv, KernelTypeOK, TypeOK
<1>2. EventsOK' /\ NoStaleEvent'
  BY EventsKept
<1> QED BY <1>1, <1>2, StructureKept DEF IInv, Structural

LEMMA ReadDrainedStep == ASSUME IInv, NEW f \in Fd, ReadDrained(f) PROVE IInv'
<1> USE DEF ReadDrained, At, poolVars, kernelVars
<1>1. EventsOK' /\ NoStaleEvent' /\
      events' \in Seq([fd : Fd \cup {m_sock}, hup : BOOLEAN,
                       of : Conn \cup {NoConn}])
  BY EventFinished
<1>2. KernelTypeOK' /\ TypeOK'
  BY <1>1 DEF IInv, KernelTypeOK, TypeOK, NextEvent
<1> QED BY <1>1, <1>2, StructureKept DEF IInv, Structural

-----------------------------------------------------------------------------
(* The packet loop *)

(***************************************************************************)
(* In the packet loop the current object is allocated.                     *)
(***************************************************************************)
LEMMA CurrentIsObject == ASSUME IInv, pc = "parse" PROVE Current \in Obj
<1>1. events # <<>> /\ Head(events).fd \in Fd
  BY DEF IInv, EventsOK
<1>2. Head(events) = events[1] /\ 1 \in DOMAIN events
  BY <1>1, TailElements, LenProperties DEF IInv, TypeOK
<1>3. m_clients[Head(events).fd] # NULL
  BY <1>1, <1>2, KernelAssumption DEF IInv, NoStaleEvent
<1> QED BY <1>1, <1>3 DEF IInv, TypeOK, Current, ClientOf

LEMMA ParseShortStep == ASSUME IInv, ParseShort \/ ParseIncomplete PROVE IInv'
<1> USE DEF ParseShort, ParseIncomplete, vars, serverVars, poolVars, kernelVars
<1>1. KernelTypeOK' /\ TypeOK'
  BY DEF IInv, KernelTypeOK, TypeOK
<1>2. EventsOK' /\ NoStaleEvent'
  BY EventsKept
<1> QED BY <1>1, <1>2, StructureKept DEF IInv, Structural

LEMMA DisconnectTyped ==
  ASSUME IInv, NEW o \in Obj, NEW reason \in Reason
  PROVE  /\ Disconnect(client[o], reason) \in
              [Socket : Fd \cup {m_sock}, bDisconnect : BOOLEAN,
               szDisconnectReason : Reason, ProtocolId : Nat,
               tmStartTime : Nat, bAuthenticated : BOOLEAN]
         /\ Disconnect(client[o], reason).Socket = client[o].Socket
BY DEF IInv, TypeOK, Disconnect

LEMMA ParseRefusedStep ==
  ASSUME IInv, NEW reason \in Reason, ParseRefused(reason) PROVE IInv'
<1> USE DEF ParseRefused, poolVars, kernelVars
<1>1. Current \in Obj
  BY CurrentIsObject
<1>2. KernelTypeOK' /\ TypeOK'
  BY <1>1, DisconnectTyped DEF IInv, KernelTypeOK, TypeOK
<1>3. EventsOK' /\ NoStaleEvent'
  BY EventsKept
<1>4. \A o \in Obj : client'[o].Socket = client[o].Socket
  BY <1>1, DisconnectTyped DEF IInv, TypeOK
<1> QED BY <1>2, <1>3, <1>4, StructureKept DEF IInv, Structural

(***************************************************************************)
(* A complete packet and what follows it are cuts out of the buffer.       *)
(***************************************************************************)
LEMMA PacketTyped ==
  ASSUME NEW buf \in Seq(Bytes), Complete(buf)
  PROVE  Packet(buf) \in Seq(Bytes) /\ RemovePacket(buf) \in Seq(Bytes)
<1>1. Len(buf) \in Nat /\ HEADER_SIZE \in Nat /\ HEADER_SIZE >= 2 /\ Byte \subseteq Nat
  BY LenProperties, FramingAssumption
<1>2. Len(buf) >= HEADER_SIZE
  BY <1>1 DEF Complete, PrefixRight, HeaderMissing
<1>3. buf[2] \in Bytes
  BY <1>1, <1>2, ElementOfSeq
<1>4. PacketLength(buf) \in Nat /\ PacketLength(buf) >= 2
  <2>1. buf[2].b \in Byte
    BY <1>3 DEF Bytes
  <2>2. SizeField(buf) \in Nat
    BY <1>1, <2>1 DEF SizeField
  <2> QED BY <1>1, <2>2 DEF PacketLength
<1>5. PacketLength(buf) <= Len(buf)
  BY <1>1, <1>4 DEF Complete
<1> HIDE DEF PacketLength
<1>6. SubSeq(buf, 1, PacketLength(buf)) \in Seq(Bytes)
  BY <1>4, <1>5, CutTyped
<1>7. SubSeq(buf, PacketLength(buf) + 1, Len(buf)) \in Seq(Bytes)
  BY <1>1, <1>4, CutTyped
<1> QED BY <1>6, <1>7 DEF Packet, RemovePacket

LEMMA ParsePacketStep == ASSUME IInv, ParsePacket PROVE IInv'
<1> USE DEF ParsePacket, poolVars, kernelVars
<1>1. Current \in Obj
  BY CurrentIsObject
<1>2. buffer[Current] \in Seq(Bytes) /\ handled[Current] \in Seq(Bytes)
  BY <1>1 DEF IInv, TypeOK
<1>3. Packet(buffer[Current]) \in Seq(Bytes)
      /\ RemovePacket(buffer[Current]) \in Seq(Bytes)
  BY <1>2, PacketTyped
<1>4. handled[Current] \o Packet(buffer[Current]) \in Seq(Bytes)
  BY <1>2, <1>3, ConcatProperties
<1>5. handled' \in [Obj -> Seq(Bytes)] /\ buffer' \in [Obj -> Seq(Bytes)]
      /\ pc' \in {"parse", "batch"}
  BY <1>3, <1>4 DEF IInv, TypeOK
<1>6. KernelTypeOK' /\ TypeOK'
  BY <1>5 DEF IInv, KernelTypeOK, TypeOK
<1>7. EventsOK' /\ NoStaleEvent'
  BY <1>5, EventsKept
<1> QED BY <1>6, <1>7, StructureKept DEF IInv, Structural

LEMMA ReadDataStep == ASSUME IInv, NEW f \in Fd, ReadData(f) PROVE IInv'
<1> USE DEF ReadData, At, poolVars, kernelVars
<1>1. events # <<>> /\ Head(events).fd = f /\ f # m_sock
  BY KernelAssumption
<1>2. Head(events) = events[1] /\ 1 \in DOMAIN events
  BY <1>1, TailElements, LenProperties DEF IInv, TypeOK
<1>3. m_clients[f] \in Obj /\ fdtab[f] \in Conn
  BY <1>1, <1>2 DEF IInv, NoStaleEvent, TypeOK, ClientTable, KernelTypeOK
<1> DEFINE k == IF Len(rx[fdtab[f]]) < MAX_BUFFER THEN Len(rx[fdtab[f]])
                ELSE MAX_BUFFER
<1>4. rx[fdtab[f]] \in Seq(Bytes) /\ Len(rx[fdtab[f]]) \in Nat
  BY <1>3, LenProperties DEF IInv, KernelTypeOK
<1>5. k \in Nat /\ k <= Len(rx[fdtab[f]])
  BY <1>4, ServerAssumption
<1> HIDE DEF k
<1>6. /\ SubSeq(rx[fdtab[f]], 1, k) \in Seq(Bytes)
      /\ SubSeq(rx[fdtab[f]], k + 1, Len(rx[fdtab[f]])) \in Seq(Bytes)
  BY <1>4, <1>5, CutTyped
<1>7. buffer[m_clients[f]] \o SubSeq(rx[fdtab[f]], 1, k) \in Seq(Bytes)
  BY <1>3, <1>6, ConcatProperties DEF IInv, TypeOK
<1>8. rx' \in [Conn -> Seq(Bytes)] /\ buffer' \in [Obj -> Seq(Bytes)]
  BY <1>3, <1>6, <1>7 DEF IInv, TypeOK, KernelTypeOK, k, ClientOf
<1>9. KernelTypeOK' /\ TypeOK'
  BY <1>8 DEF IInv, KernelTypeOK, TypeOK
<1>10. EventsOK' /\ NoStaleEvent'
  BY <1>1 DEF IInv, EventsOK, NoStaleEvent
<1> QED BY <1>9, <1>10, StructureKept DEF IInv, Structural

LEMMA CheckClientsStep == ASSUME IInv, CheckClients PROVE IInv'
<1> USE DEF CheckClients, poolVars, kernelVars
<1>1. \A o \in Obj : client'[o] = client[o] \/ client'[o] = Disconnect(client[o], "timeout")
  OBVIOUS
<1>2. "timeout" \in Reason
  BY DEF Reason
<1>3. \A o \in Obj :
        /\ client'[o] \in [Socket : Fd \cup {m_sock}, bDisconnect : BOOLEAN,
             szDisconnectReason : Reason, ProtocolId : Nat,
             tmStartTime : Nat, bAuthenticated : BOOLEAN]
        /\ client'[o].Socket = client[o].Socket
  BY <1>1, <1>2, DisconnectTyped DEF IInv, TypeOK
<1>4. client' \in [Obj -> [Socket : Fd \cup {m_sock}, bDisconnect : BOOLEAN,
             szDisconnectReason : Reason, ProtocolId : Nat,
             tmStartTime : Nat, bAuthenticated : BOOLEAN]]
  BY <1>3
<1>5. KernelTypeOK' /\ TypeOK'
  BY <1>4 DEF IInv, KernelTypeOK, TypeOK
<1>6. EventsOK' /\ NoStaleEvent'
  BY EventsKept
<1> QED BY <1>3, <1>5, <1>6, StructureKept DEF IInv, Structural

-----------------------------------------------------------------------------
(* epoll_wait, peers and the clock *)

(***************************************************************************)
(* A function on 1..n is a sequence of length n.                           *)
(***************************************************************************)
LEMMA FunctionIsSeq ==
  ASSUME NEW T, NEW n \in Nat, NEW q \in [1..n -> T]
  PROVE  q \in Seq(T) /\ Len(q) = n
BY SeqDef

LEMMA EpollWaitStep == ASSUME IInv, EpollWait PROVE IInv'
<1> DEFINE E == [fd : Fd \cup {m_sock}, hup : BOOLEAN, of : Conn \cup {NoConn}]
           some == {f \in ready : Readable(f)}
           event(f) == [fd |-> f, hup |-> HungUp(f),
                        of |-> IF f = m_sock THEN NoConn ELSE fdtab[f]]
<1> USE DEF EpollWait, poolVars, kernelVars
<1>1. PICK batch \in Batches(MAX_EVENTS) :
        /\ events' = [i \in DOMAIN batch |-> event(batch[i])]
        /\ ready' = some \ {batch[i] : i \in DOMAIN batch}
  OBVIOUS
<1>2. PICK n \in 0..MAX_EVENTS : batch \in [1..n -> some]
  BY DEF Batches
<1>3. n \in Nat /\ DOMAIN batch = 1..n /\ \A i \in 1..n : batch[i] \in some
  BY <1>2, ServerAssumption
<1>4. \A i, j \in 1..n : batch[i] = batch[j] => i = j
  BY <1>3 DEF Batches
<1>5. \A f \in some : f \in Fd \cup {m_sock} /\ (f # m_sock => fdtab[f] \in Conn)
  BY DEF IInv, KernelTypeOK, Readable
<1>6. \A f \in some : event(f) \in E
  <2> TAKE f \in some
  <2>1. HungUp(f) \in BOOLEAN
    BY DEF HungUp
  <2>2. (IF f = m_sock THEN NoConn ELSE fdtab[f]) \in Conn \cup {NoConn}
    BY <1>5
  <2> QED BY <1>5, <2>1, <2>2
<1>7. events' \in [1..n -> E]
  BY <1>1, <1>3, <1>6
<1>8. events' \in Seq(E) /\ Len(events') = n /\ DOMAIN events' = 1..n
  BY <1>3, <1>7, FunctionIsSeq
<1>9. ready' \subseteq Fd \cup {m_sock}
  BY <1>1 DEF IInv, KernelTypeOK
<1>10. KernelTypeOK' /\ TypeOK'
  BY <1>8, <1>9 DEF IInv, KernelTypeOK, TypeOK
<1>11. \A i \in 1..n :
         /\ events'[i].fd = batch[i]
         /\ events'[i].of = IF batch[i] = m_sock THEN NoConn ELSE fdtab[batch[i]]
  BY <1>1, <1>3
<1>12. pc' = "batch" /\ UNCHANGED <<m_clients, fdtab>>
  OBVIOUS
<1> HIDE DEF E, event, some, EpollWait
<1>13. EventsOK'
  BY <1>4, <1>8, <1>11, <1>12 DEF EventsOK
<1>14. NoStaleEvent'
  <2> SUFFICES ASSUME NEW i \in 1..n, batch[i] # m_sock
               PROVE  m_clients[batch[i]] # NULL
    BY <1>8, <1>11, <1>12 DEF NoStaleEvent
  <2>1. fdtab[batch[i]] \in Conn /\ batch[i] \in Fd
    BY <1>3, <1>5
  <2> QED BY <2>1, KernelAssumption DEF IInv, ClientTable
<1>15. UNCHANGED Structural /\ client' = client
  BY DEF EpollWait, Structural
<1> QED BY <1>10, <1>13, <1>14, <1>15, StructureKept DEF IInv

(***************************************************************************)
(* The bytes of a script, numbered.                                        *)
(***************************************************************************)
LEMMA StreamTyped ==
  ASSUME NEW c \in Conn, NEW script \in Scripts
  PROVE  Stream(c, script) \in Seq(Bytes)
<1>1. script \in Seq(Byte) /\ Len(script) \in Nat
  BY ServerAssumption, LenProperties
<1>2. \A i \in 1..Len(script) : script[i] \in Byte /\ i \in Nat
  BY <1>1, ElementOfSeq
<1>3. Stream(c, script) \in [1..Len(script) -> Bytes]
  BY <1>2 DEF Stream, Bytes
<1> QED BY <1>1, <1>3, FunctionIsSeq

LEMMA ConnectStep ==
  ASSUME IInv, NEW c \in Conn, Connect(c), UNCHANGED serverVars PROVE IInv'
<1> USE DEF Connect, serverVars
<1>1. /\ Append(backlog, c) \in Seq(Conn) /\ Len(backlog) \in Nat
      /\ Len(Append(backlog, c)) = Len(backlog) + 1
      /\ \A i \in 1..Len(backlog) : Append(backlog, c)[i] = backlog[i]
      /\ Append(backlog, c)[Len(backlog) + 1] = c
      /\ \A i \in 1..Len(backlog) : backlog[i] \in Conn
  BY AppendProperties, LenProperties, ElementOfSeq DEF IInv, KernelTypeOK
<1>2. KernelTypeOK'
  <2>1. tosend' \in [Conn -> Seq(Bytes)]
    BY StreamTyped DEF IInv, KernelTypeOK
  <2> QED BY <1>1, <2>1 DEF IInv, KernelTypeOK
<1>3. TypeOK'
  BY DEF IInv, TypeOK
<1>4. BacklogOK'
  BY <1>1 DEF IInv, BacklogOK, KernelTypeOK
<1>5. ClientTable' /\ PoolDiscipline'
  <2>1. {d \in Conn : conn'[d] = "open"} = {d \in Conn : conn[d] = "open"}
    BY DEF IInv, KernelTypeOK
  <2> QED BY <2>1 DEF IInv, ClientTable, PoolDiscipline, Live
<1>6. EventsOK' /\ NoStaleEvent'
  BY EventsKept
<1> QED BY <1>2, <1>3, <1>4, <1>5, <1>6 DEF IInv

LEMMA PeerStep ==
  ASSUME IInv, NEW c \in Conn, PeerSend(c) \/ PeerClose(c) \/ PeerReset(c),
         UNCHANGED serverVars
  PROVE  IInv'
<1> USE DEF PeerSend, PeerClose, PeerReset, Edge, serverVars
<1>1. rx' \in [Conn -> Seq(Bytes)] /\ tosend' \in [Conn -> Seq(Bytes)]
  <2>1. CASE PeerSend(c)
    <3>1. tosend[c] \in Seq(Bytes) /\ rx[c] \in Seq(Bytes) /\ Len(tosend[c]) \in Nat
      BY LenProperties DEF IInv, KernelTypeOK
    <3>2. PICK k \in 1..Len(tosend[c]) :
            /\ rx' = [rx EXCEPT ![c] = @ \o SubSeq(tosend[c], 1, k)]
            /\ tosend' = [tosend EXCEPT ![c] = SubSeq(@, k + 1, Len(@))]
      BY <2>1
    <3>3. SubSeq(tosend[c], 1, k) \in Seq(Bytes)
          /\ SubSeq(tosend[c], k + 1, Len(tosend[c])) \in Seq(Bytes)
      BY <3>1, CutTyped
    <3>4. rx[c] \o SubSeq(tosend[c], 1, k) \in Seq(Bytes)
      BY <3>1, <3>3, ConcatProperties
    <3> QED BY <3>2, <3>3, <3>4 DEF IInv, KernelTypeOK
  <2>2. CASE PeerClose(c) \/ PeerReset(c)
    BY <2>2 DEF IInv, KernelTypeOK
  <2> QED BY <2>1, <2>2
<1>2. KernelTypeOK' /\ TypeOK'
  BY <1>1 DEF IInv, KernelTypeOK, TypeOK
<1>3. EventsOK' /\ NoStaleEvent'
  BY EventsKept
<1> QED BY <1>2, <1>3, StructureKept DEF IInv, Structural

LEMMA TickStep == ASSUME IInv, Tick, UNCHANGED serverVars PROVE IInv'
<1> USE DEF Tick, serverVars
<1>1. KernelTypeOK' /\ TypeOK'
  BY DEF IInv, KernelTypeOK, TypeOK
<1>2. EventsOK' /\ NoStaleEvent'
  BY EventsKept
<1> QED BY <1>1, <1>2, StructureKept DEF IInv, Structural

-----------------------------------------------------------------------------
(* Sessions begin and end *)

Idle == {m_pFreeList[i] : i \in DOMAIN m_pFreeList}

(***************************************************************************)
(* EndSession gives the descriptor of a client back to the process and its *)
(* object to the free list, and disturbs no other.                         *)
(***************************************************************************)
LEMMA EndSessionKeeps ==
  ASSUME IInv, NEW f \in Fd, m_clients[f] # NULL, EndSession(f), 
         UNCHANGED <<tm>>
  PROVE  /\ KernelTypeOK' /\ ClientTable' /\ PoolDiscipline' /\ BacklogOK'
         /\ m_clients' \in [Fd -> Obj \cup {NULL}] /\ m_pFreeList' \in Seq(Obj)
         /\ UNCHANGED <<heap, client, buffer, m_nNextId, handled, clean>>
         /\ \A g \in Fd : g # f => m_clients'[g] = m_clients[g] /\ fdtab'[g] = fdtab[g]
<1> DEFINE o == m_clients[f]
           c == fdtab[f]
<1>1. /\ m_clients' = [m_clients EXCEPT ![f] = NULL]
      /\ m_pFreeList' = <<o>> \o m_pFreeList
      /\ fdtab' = [fdtab EXCEPT ![f] = NoConn]
      /\ conn' = [conn EXCEPT ![c] = "closed"]
      /\ UNCHANGED <<heap, client, buffer, m_nNextId, handled, clean, backlog>>
  BY DEF EndSession, FreeClient, CloseSocket
<1>2. o \in Obj /\ c \in Conn /\ c # NoConn
  BY KernelAssumption DEF IInv, TypeOK, ClientTable, KernelTypeOK
<1>3. KernelTypeOK'
  BY <1>2 DEF IInv, KernelTypeOK, EndSession, CloseSocket
<1>4. m_clients \in [Fd -> Obj \cup {NULL}] /\ m_pFreeList \in Seq(Obj)
      /\ fdtab \in [Fd -> Conn \cup {NoConn}]
      /\ conn \in [Conn -> {"none", "queued", "open", "closed"}]
  BY DEF IInv, TypeOK, KernelTypeOK
<1>5. conn[c] = "open"
  BY <1>2 DEF IInv, ClientTable
<1> HIDE DEF o, c
<1>6. \A g \in Fd : m_clients'[g] = IF g = f THEN NULL ELSE m_clients[g]
  BY <1>1, <1>4
<1>7. \A g \in Fd : fdtab'[g] = IF g = f THEN NoConn ELSE fdtab[g]
  BY <1>1, <1>4
<1>8. \A d \in Conn : conn'[d] = IF d = c THEN "closed" ELSE conn[d]
  BY <1>1, <1>4
<1>9. ClientTable'
  <2>1. \A g \in Fd : m_clients'[g] = NULL <=> fdtab'[g] = NoConn
    BY <1>6, <1>7 DEF IInv, ClientTable
  <2>2. \A g \in Fd : m_clients'[g] # NULL => client'[m_clients'[g]].Socket = g
    BY <1>1, <1>6 DEF IInv, ClientTable
  <2>3. \A g, h \in Fd : fdtab'[g] = fdtab'[h] /\ fdtab'[g] # NoConn => g = h
    BY <1>7 DEF IInv, ClientTable
  <2>4. {d \in Conn : conn'[d] = "open"} = {d \in Conn : conn[d] = "open"} \ {c}
    BY <1>8
  <2>5. {fdtab'[g] : g \in Fd} \ {NoConn} = ({fdtab[g] : g \in Fd} \ {NoConn}) \ {c}
    BY <1>2, <1>7 DEF IInv, ClientTable, c
  <2>6. {d \in Conn : conn[d] = "open"} = {fdtab[g] : g \in Fd} \ {NoConn}
    BY DEF IInv, ClientTable
  <2> QED BY <2>1, <2>2, <2>3, <2>4, <2>5, <2>6 DEF ClientTable
<1>10. PoolDiscipline'
  <2>1. Live' = Live \ {o}
    BY <1>2, <1>6 DEF IInv, PoolDiscipline, Live, o
  <2>2. o \in Live /\ o \notin Idle
    BY <1>2 DEF IInv, PoolDiscipline, Live, Idle, o
  <2>3. /\ m_pFreeList' \in Seq(Obj) /\ Len(m_pFreeList) \in Nat
        /\ Len(m_pFreeList') = Len(m_pFreeList) + 1 /\ m_pFreeList'[1] = o
        /\ \A i \in 1..Len(m_pFreeList) : m_pFreeList'[i + 1] = m_pFreeList[i]
        /\ \A i \in 2..(Len(m_pFreeList) + 1) : m_pFreeList'[i] = m_pFreeList[i - 1]
    BY <1>1, <1>2, <1>4, PushElements, LenProperties
  <2>4. DOMAIN m_pFreeList = 1..Len(m_pFreeList)
        /\ DOMAIN m_pFreeList' = 1..(Len(m_pFreeList) + 1)
    BY <1>4, <2>3, LenProperties
  <2>5. Idle' = Idle \cup {o}
    <3>1. \A x \in Idle' : x \in Idle \cup {o}
      <4> SUFFICES ASSUME NEW i \in 1..(Len(m_pFreeList) + 1)
                   PROVE  m_pFreeList'[i] \in Idle \cup {o}
        BY <2>4 DEF Idle
      <4>1. CASE i = 1
        BY <4>1, <2>3
      <4>2. CASE i # 1
        <5>1. i - 1 \in 1..Len(m_pFreeList) /\ m_pFreeList'[i] = m_pFreeList[i - 1]
          BY <4>2, <2>3
        <5> QED BY <5>1, <2>4 DEF Idle
      <4> QED BY <4>1, <4>2
    <3>2. o \in Idle'
      BY <2>3, <2>4 DEF Idle
    <3>3. \A i \in 1..Len(m_pFreeList) : m_pFreeList[i] \in Idle'
      <4> TAKE i \in 1..Len(m_pFreeList)
      <4>1. i + 1 \in DOMAIN m_pFreeList' /\ m_pFreeList'[i + 1] = m_pFreeList[i]
        BY <2>3, <2>4
      <4> QED BY <4>1 DEF Idle
    <3> QED BY <3>1, <3>2, <3>3, <2>4 DEF Idle
  <2>6. \A i, j \in DOMAIN m_pFreeList : m_pFreeList[i] = m_pFreeList[j] => i = j
    BY DEF IInv, PoolDiscipline
  <2>7. \A i \in DOMAIN m_pFreeList : m_pFreeList[i] # o
    BY <2>2 DEF Idle
  <2>8. \A i, j \in DOMAIN m_pFreeList' : m_pFreeList'[i] = m_pFreeList'[j] => i = j
    <3> SUFFICES ASSUME NEW i \in 1..(Len(m_pFreeList) + 1), NEW j \in 1..(Len(m_pFreeList) + 1),
                        m_pFreeList'[i] = m_pFreeList'[j]
                 PROVE  i = j
      BY <2>4
    <3>1. \A k \in 2..(Len(m_pFreeList) + 1) :
            k - 1 \in DOMAIN m_pFreeList /\ m_pFreeList'[k] = m_pFreeList[k - 1]
      BY <2>3, <2>4
    <3>2. \A k \in 2..(Len(m_pFreeList) + 1) : m_pFreeList'[k] # o
      BY <3>1, <2>7
    <3>3. CASE i = 1 \/ j = 1
      BY <3>2, <3>3, <2>3
    <3>4. CASE i # 1 /\ j # 1
      <4>1. i \in 2..(Len(m_pFreeList) + 1) /\ j \in 2..(Len(m_pFreeList) + 1)
        BY <3>4, <2>3
      <4>2. i - 1 = j - 1
        BY <4>1, <3>1, <2>6
      <4> QED BY <4>2
    <3> QED BY <3>3, <3>4
  <2>9. Live' \cap Idle' = {} /\ heap' = Live' \cup Idle'
    <3>1. Live \cap Idle = {} /\ heap = Live \cup Idle
      BY DEF IInv, PoolDiscipline, Idle
    <3>2. heap' = heap
      BY <1>1
    <3> QED BY <3>1, <3>2, <2>1, <2>2, <2>5
  <2>10. \A g, h \in Fd : m_clients'[g] = m_clients'[h] /\ m_clients'[g] # NULL => g = h
    BY <1>6 DEF IInv, PoolDiscipline
  <2> QED BY <2>8, <2>9, <2>10 DEF PoolDiscipline, Idle
<1>11. BacklogOK'
  <2>1. \A i \in 1..Len(backlog) : backlog[i] \in Conn
    BY ElementOfSeq DEF IInv, KernelTypeOK
  <2> QED BY <1>1, <1>5, <1>8, <2>1 DEF IInv, BacklogOK
<1>12. m_clients' \in [Fd -> Obj \cup {NULL}] /\ m_pFreeList' \in Seq(Obj)
  BY <1>1, <1>2, <1>4, PushElements
<1> QED BY <1>1, <1>3, <1>6, <1>7, <1>9, <1>10, <1>11, <1>12

(***************************************************************************)
(* HangUp and ReadEnds: the end of the session of the event at work.       *)
(***************************************************************************)
LEMMA HangUpStep == ASSUME IInv, NEW f \in Fd, HangUp(f) \/ ReadEnds(f) PROVE IInv'
<1>1. events # <<>> /\ Head(events).fd = f /\ EndSession(f) /\ NextEvent /\ UNCHANGED tm
  BY DEF HangUp, ReadEnds, At
<1>2. Head(events) = events[1] /\ 1 \in DOMAIN events
  BY <1>1, TailElements, LenProperties DEF IInv, TypeOK
<1>3. m_clients[f] # NULL
  BY <1>1, <1>2, KernelAssumption DEF IInv, NoStaleEvent
<1>4. /\ KernelTypeOK' /\ ClientTable' /\ PoolDiscipline' /\ BacklogOK'
      /\ m_clients' \in [Fd -> Obj \cup {NULL}] /\ m_pFreeList' \in Seq(Obj)
      /\ UNCHANGED <<heap, client, buffer, m_nNextId, handled, clean>>
      /\ \A g \in Fd : g # f => m_clients'[g] = m_clients[g] /\ fdtab'[g] = fdtab[g]
  BY <1>1, <1>3, EndSessionKeeps
<1>5. EventsOK' /\ NoStaleEvent' /\
      events' \in Seq([fd : Fd \cup {m_sock}, hup : BOOLEAN,
                       of : Conn \cup {NoConn}])
  BY <1>1, <1>4, EventFinished
<1>6. TypeOK'
  BY <1>1, <1>4, <1>5 DEF IInv, TypeOK, NextEvent
<1> QED BY <1>4, <1>5, <1>6 DEF IInv

LEMMA CloseClientStep == ASSUME IInv, NEW f \in Fd, CloseClient(f) PROVE IInv'
<1>1. pc = "closing" /\ m_clients[f] # NULL /\ EndSession(f) /\ UNCHANGED <<events, tm, pc>>
  BY DEF CloseClient
<1>2. /\ KernelTypeOK' /\ ClientTable' /\ PoolDiscipline' /\ BacklogOK'
      /\ m_clients' \in [Fd -> Obj \cup {NULL}] /\ m_pFreeList' \in Seq(Obj)
      /\ UNCHANGED <<heap, client, buffer, m_nNextId, handled, clean>>
  BY <1>1, EndSessionKeeps
<1>3. TypeOK'
  BY <1>1, <1>2 DEF IInv, TypeOK
<1>4. events = <<>> /\ events' = <<>> /\ pc' = "closing"
  BY <1>1 DEF IInv, EventsOK
<1>5. EventsOK' /\ NoStaleEvent'
  BY <1>4 DEF EventsOK, NoStaleEvent
<1> QED BY <1>2, <1>3, <1>5 DEF IInv

LEMMA InitClientTyped ==
  ASSUME IInv, NEW o \in Obj, NEW f \in Fd
  PROVE  /\ InitClient(client[o], f) \in
              [Socket : Fd \cup {m_sock}, bDisconnect : BOOLEAN,
               szDisconnectReason : Reason, ProtocolId : Nat,
               tmStartTime : Nat, bAuthenticated : BOOLEAN]
         /\ InitClient(client[o], f).Socket = f
<1>1. m_nNextId \in Nat /\ now \in Nat /\ IdRange \in Nat \ {0}
  BY ServerAssumption DEF IInv, TypeOK, KernelTypeOK
<1>2. m_nNextId % IdRange \in Nat
  BY <1>1
<1>3. client[o] \in [Socket : Fd \cup {m_sock}, bDisconnect : BOOLEAN,
               szDisconnectReason : Reason, ProtocolId : Nat,
               tmStartTime : Nat, bAuthenticated : BOOLEAN]
  BY DEF IInv, TypeOK
<1> QED BY <1>1, <1>2, <1>3 DEF InitClient

(***************************************************************************)
(* AllocateClient never hands out an object that serves a session: it is   *)
(* the top of the free list, or new.                                       *)
(***************************************************************************)
LEMMA AllocateClientFresh ==
  ASSUME IInv, NEW o \in Obj, NEW f \in Fd, AllocateClient(o, f)
  PROVE  /\ o \notin Live /\ o \notin Idle'
         /\ Idle' \cup {o} \cup Live = heap'
         /\ m_pFreeList' \in Seq(Obj) /\ heap' \subseteq Obj
         /\ buffer' \in [Obj -> Seq(Bytes)]
         /\ \A i, j \in DOMAIN m_pFreeList' : m_pFreeList'[i] = m_pFreeList'[j] => i = j
<1>0. m_pFreeList \in Seq(Obj) /\ heap \subseteq Obj /\ buffer \in [Obj -> Seq(Bytes)]
      /\ Live \cap Idle = {} /\ heap = Live \cup Idle
      /\ \A i, j \in DOMAIN m_pFreeList : m_pFreeList[i] = m_pFreeList[j] => i = j
  BY DEF IInv, TypeOK, PoolDiscipline, Idle
<1>1. CASE m_pFreeList # <<>> /\ o = Head(m_pFreeList)
           /\ m_pFreeList' = Tail(m_pFreeList) /\ UNCHANGED <<heap, buffer>>
  <2> DEFINE q == m_pFreeList
  <2>1. /\ m_pFreeList' \in Seq(Obj) /\ o = q[1] /\ Len(q) \in Nat \ {0}
        /\ Len(m_pFreeList') = Len(q) - 1
        /\ \A i \in 1..Len(m_pFreeList') : m_pFreeList'[i] = q[i + 1] /\ i + 1 \in 1..Len(q)
    BY <1>0, <1>1, TailElements
  <2>2. DOMAIN m_pFreeList' = 1..(Len(q) - 1) /\ DOMAIN q = 1..Len(q)
    BY <1>0, <2>1, LenProperties
  <2>0. \A i, j \in 1..Len(q) : q[i] = q[j] => i = j
    BY <1>0, <2>2
  <2> HIDE DEF q
  <2>3. \A i, j \in DOMAIN m_pFreeList' : m_pFreeList'[i] = m_pFreeList'[j] => i = j
    <3> SUFFICES ASSUME NEW i \in 1..Len(m_pFreeList'), NEW j \in 1..Len(m_pFreeList')
                 PROVE  m_pFreeList'[i] = m_pFreeList'[j] => i = j
      BY <2>1, <2>2
    <3>1. m_pFreeList'[i] = q[i + 1] /\ m_pFreeList'[j] = q[j + 1]
      BY <2>1
    <3>2. i + 1 \in 1..Len(q) /\ j + 1 \in 1..Len(q)
      BY <2>1
    <3>3. q[i + 1] = q[j + 1] => i + 1 = j + 1
      BY <2>0, <3>2
    <3> QED BY <3>1, <3>3
  <2>4. o \in Idle
    BY <2>1, <2>2 DEF Idle, q
  <2>5. o \notin Idle'
    <3> SUFFICES ASSUME NEW i \in 1..Len(m_pFreeList') PROVE m_pFreeList'[i] # o
      BY <2>1, <2>2 DEF Idle
    <3>1. m_pFreeList'[i] = q[i + 1] /\ i + 1 \in 1..Len(q) /\ 1 \in 1..Len(q)
      BY <2>1
    <3>2. i + 1 # 1
      OBVIOUS
    <3> QED BY <2>0, <2>1, <3>1, <3>2
  <2>6. Idle' \cup {o} = Idle
    <3>1. \A i \in DOMAIN m_pFreeList' : m_pFreeList'[i] \in Idle
      BY <2>1, <2>2 DEF Idle, q
    <3>2. \A i \in DOMAIN q : q[i] = o \/ q[i] \in Idle'
      <4> SUFFICES ASSUME NEW i \in 2..Len(q) PROVE q[i] \in Idle'
        BY <2>1, <2>2
      <4>1. i - 1 \in DOMAIN m_pFreeList' /\ m_pFreeList'[i - 1] = q[i]
        BY <2>1, <2>2
      <4> QED BY <4>1 DEF Idle
    <3> QED BY <3>1, <3>2, <2>4 DEF Idle, q
  <2> QED BY <1>0, <1>1, <2>1, <2>3, <2>4, <2>5, <2>6
<1>2. CASE m_pFreeList = <<>> /\ o \in Obj \ heap /\ heap' = heap \cup {o}
           /\ buffer' = [buffer EXCEPT ![o] = <<>>] /\ UNCHANGED m_pFreeList
  <2>1. Idle' = {} /\ Idle = {}
    BY <1>2 DEF Idle
  <2>2. buffer' \in [Obj -> Seq(Bytes)]
    BY <1>0, <1>2
  <2> QED BY <1>0, <1>2, <2>1, <2>2
<1> QED BY <1>1, <1>2 DEF AllocateClient

(***************************************************************************)
(* A session that begins takes a descriptor and an object nobody has, and  *)
(* disturbs no other.                                                      *)
(***************************************************************************)
LEMMA AcceptKeeps ==
  ASSUME IInv, NEW f \in Fd, NEW o \in Obj, NEW added \in BOOLEAN,
         backlog # <<>>, Accept(f, added), AllocateClient(o, f),
         m_clients' = [m_clients EXCEPT ![f] = o]
  PROVE  /\ KernelTypeOK' /\ ClientTable' /\ PoolDiscipline' /\ BacklogOK'
         /\ m_clients' \in [Fd -> Obj \cup {NULL}] /\ m_pFreeList' \in Seq(Obj)
         /\ heap' \subseteq Obj /\ m_nNextId' \in Nat
         /\ client' \in [Obj -> [Socket : Fd \cup {m_sock}, bDisconnect : BOOLEAN,
              szDisconnectReason : Reason, ProtocolId : Nat,
              tmStartTime : Nat, bAuthenticated : BOOLEAN]]
         /\ buffer' \in [Obj -> Seq(Bytes)] /\ handled' \in [Obj -> Seq(Bytes)]
         /\ clean' \in [Obj -> BOOLEAN]
         /\ m_clients[f] = NULL
         /\ \A g \in Fd : g # f => m_clients'[g] = m_clients[g] /\ fdtab'[g] = fdtab[g]
<1> DEFINE c == Head(backlog)
<1>3. /\ backlog \in Seq(Conn) /\ m_clients \in [Fd -> Obj \cup {NULL}]
      /\ fdtab \in [Fd -> Conn \cup {NoConn}]
      /\ conn \in [Conn -> {"none", "queued", "open", "closed"}]
  BY DEF IInv, KernelTypeOK, TypeOK
<1>4. /\ backlog' \in Seq(Conn) /\ c \in Conn /\ c = backlog[1]
      /\ Len(backlog) \in Nat \ {0} /\ Len(backlog') = Len(backlog) - 1
      /\ \A i \in 1..Len(backlog') :
           backlog'[i] = backlog[i + 1] /\ i + 1 \in 1..Len(backlog)
  BY <1>3, TailElements DEF Accept
<1>5. /\ fdtab[f] = NoConn /\ fdtab' = [fdtab EXCEPT ![f] = c]
      /\ conn' = [conn EXCEPT ![c] = "open"]
  BY DEF Accept, FreeFds
<1>6. conn[c] = "queued"
  BY <1>4 DEF IInv, BacklogOK
<1>7. /\ o \notin Live /\ o \notin Idle'
      /\ Idle' \cup {o} \cup Live = heap'
      /\ m_pFreeList' \in Seq(Obj) /\ heap' \subseteq Obj
      /\ buffer' \in [Obj -> Seq(Bytes)]
      /\ \A i, j \in DOMAIN m_pFreeList' : m_pFreeList'[i] = m_pFreeList'[j] => i = j
  BY AllocateClientFresh
<1>8. /\ client' = [client EXCEPT ![o] = InitClient(client[o], f)]
      /\ m_nNextId' = m_nNextId + 1
      /\ handled' = [handled EXCEPT ![o] = <<>>]
      /\ clean' = [clean EXCEPT ![o] = buffer'[o] = <<>>]
  BY DEF AllocateClient
<1>9. KernelTypeOK'
  <2>1. watched' \subseteq Fd /\ ready' \subseteq Fd \cup {m_sock}
    BY DEF IInv, KernelTypeOK, Accept
  <2>2. UNCHANGED <<peer, tosend, rx, listening, now>>
    BY DEF Accept
  <2> QED BY <1>3, <1>4, <1>5, <2>1, <2>2 DEF IInv, KernelTypeOK
<1> HIDE DEF c
<1>10. clean' \in [Obj -> BOOLEAN]
  BY <1>8 DEF IInv, TypeOK
<1>22. handled' \in [Obj -> Seq(Bytes)] /\ m_nNextId' \in Nat
       /\ m_clients' \in [Fd -> Obj \cup {NULL}]
  BY <1>3, <1>8 DEF IInv, TypeOK
<1>23. client' \in [Obj -> [Socket : Fd \cup {m_sock}, bDisconnect : BOOLEAN,
               szDisconnectReason : Reason, ProtocolId : Nat,
               tmStartTime : Nat, bAuthenticated : BOOLEAN]]
  BY <1>8, InitClientTyped DEF IInv, TypeOK
<1>11. \A g \in Fd : m_clients'[g] = IF g = f THEN o ELSE m_clients[g]
  BY <1>3
<1>12. \A g \in Fd : fdtab'[g] = IF g = f THEN c ELSE fdtab[g]
  BY <1>3, <1>5
<1>13. \A d \in Conn : conn'[d] = IF d = c THEN "open" ELSE conn[d]
  BY <1>3, <1>5
<1>14. m_clients[f] = NULL /\ o # NULL /\ c # NoConn
  BY <1>4, <1>5, KernelAssumption, ServerAssumption DEF IInv, ClientTable
<1>15. \A g \in Fd : fdtab[g] # c
  BY <1>4, <1>6, <1>14 DEF IInv, ClientTable
<1>16. \A g \in Fd : m_clients[g] # o
  BY <1>7, <1>14 DEF Live
<1>17. ClientTable'
  <2>1. \A g \in Fd : m_clients'[g] = NULL <=> fdtab'[g] = NoConn
    BY <1>11, <1>12, <1>14 DEF IInv, ClientTable
  <2>2. \A p \in Obj : client'[p].Socket = IF p = o THEN f ELSE client[p].Socket
    BY <1>8, InitClientTyped DEF IInv, TypeOK
  <2>3. \A g \in Fd : m_clients'[g] # NULL => client'[m_clients'[g]].Socket = g
    BY <1>3, <1>11, <1>16, <2>2 DEF IInv, ClientTable
  <2>4. \A g, h \in Fd : fdtab'[g] = fdtab'[h] /\ fdtab'[g] # NoConn => g = h
    BY <1>12, <1>15 DEF IInv, ClientTable
  <2>5. {d \in Conn : conn'[d] = "open"} = {d \in Conn : conn[d] = "open"} \cup {c}
    BY <1>4, <1>13
  <2>6. {fdtab'[g] : g \in Fd} \ {NoConn} = ({fdtab[g] : g \in Fd} \ {NoConn}) \cup {c}
    BY <1>5, <1>12, <1>14
  <2>7. {d \in Conn : conn[d] = "open"} = {fdtab[g] : g \in Fd} \ {NoConn}
    BY DEF IInv, ClientTable
  <2> QED BY <2>1, <2>3, <2>4, <2>5, <2>6, <2>7 DEF ClientTable
<1>18. PoolDiscipline'
  <2>1. Live' = Live \cup {o}
    BY <1>11, <1>14 DEF Live
  <2>2. Live \cap Idle' = {}
    <3>1. Live \cap Idle = {}
      BY DEF IInv, PoolDiscipline, Idle
    <3>2. Idle' \subseteq Idle
      <4>1. \/ m_pFreeList' = m_pFreeList
            \/ /\ m_pFreeList # <<>>
               /\ m_pFreeList' = Tail(m_pFreeList)
        BY DEF AllocateClient
      <4>2. m_pFreeList \in Seq(Obj)
        BY DEF IInv, TypeOK
      <4>3. \A i \in DOMAIN m_pFreeList' : \E j \in DOMAIN m_pFreeList :
              m_pFreeList'[i] = m_pFreeList[j]
        BY <4>1, <4>2, TailElements, LenProperties
      <4> QED BY <4>3 DEF Idle
    <3> QED BY <3>1, <3>2
  <2>3. \A g, h \in Fd : m_clients'[g] = m_clients'[h] /\ m_clients'[g] # NULL => g = h
    BY <1>11, <1>16 DEF IInv, PoolDiscipline
  <2> QED BY <1>7, <2>1, <2>2, <2>3 DEF PoolDiscipline, Idle
<1>19. BacklogOK'
  <2>1. \A i \in 1..Len(backlog') : backlog'[i] # c /\ backlog'[i] \in Conn
    BY <1>3, <1>4, ElementOfSeq DEF IInv, BacklogOK
  <2>2. \A i, j \in 1..Len(backlog') : backlog'[i] = backlog'[j] => i = j
    <3> SUFFICES ASSUME NEW i \in 1..Len(backlog'), NEW j \in 1..Len(backlog'),
                        backlog[i + 1] = backlog[j + 1]
                 PROVE  i = j
      BY <1>4
    <3>1. i + 1 = j + 1
      BY <1>4 DEF IInv, BacklogOK
    <3> QED BY <3>1, <1>4
  <2>3. \A i \in 1..Len(backlog') : conn'[backlog'[i]] = "queued"
    <3> TAKE i \in 1..Len(backlog')
    <3>1. conn[backlog[i + 1]] = "queued" /\ backlog'[i] = backlog[i + 1]
      BY <1>4 DEF IInv, BacklogOK
    <3> QED BY <1>13, <2>1, <3>1
  <2> QED BY <2>2, <2>3 DEF BacklogOK
<1> QED BY <1>7, <1>9, <1>10, <1>11, <1>12, <1>14, <1>17, <1>18, <1>19, <1>22, <1>23

LEMMA AcceptClientStep == ASSUME IInv, AcceptClient PROVE IInv'
<1>1. PICK f \in Fd, o \in Obj, added \in {TRUE, ~AddMayFail} :
        /\ AcceptAndAdd(f, added)
        /\ AllocateClient(o, f)
        /\ m_clients' = [m_clients EXCEPT ![f] = o]
  BY DEF AcceptClient
<1>2. backlog # <<>> /\ UNCHANGED <<events, tm, pc>>
  BY DEF AcceptClient
<1>3. /\ KernelTypeOK' /\ ClientTable' /\ PoolDiscipline' /\ BacklogOK'
      /\ m_clients' \in [Fd -> Obj \cup {NULL}] /\ m_pFreeList' \in Seq(Obj)
      /\ heap' \subseteq Obj /\ m_nNextId' \in Nat
      /\ client' \in [Obj -> [Socket : Fd \cup {m_sock}, bDisconnect : BOOLEAN,
           szDisconnectReason : Reason, ProtocolId : Nat,
           tmStartTime : Nat, bAuthenticated : BOOLEAN]]
      /\ buffer' \in [Obj -> Seq(Bytes)] /\ handled' \in [Obj -> Seq(Bytes)]
      /\ clean' \in [Obj -> BOOLEAN]
      /\ m_clients[f] = NULL
      /\ \A g \in Fd : g # f => m_clients'[g] = m_clients[g] /\ fdtab'[g] = fdtab[g]
  <2>1. Accept(f, added) /\ added \in BOOLEAN
    BY <1>1, ServerAssumption DEF AcceptAndAdd
  <2> QED BY <1>1, <1>2, <2>1, AcceptKeeps
<1>4. TypeOK'
  BY <1>2, <1>3 DEF IInv, TypeOK
<1>5. EventsOK'
  BY <1>2 DEF IInv, EventsOK
<1>6. NoStaleEvent'
  <2> SUFFICES ASSUME NEW i \in DOMAIN events, events[i].fd # m_sock
               PROVE  m_clients'[events[i].fd] # NULL /\ fdtab'[events[i].fd] = events[i].of
    BY <1>2 DEF NoStaleEvent
  <2>1. m_clients[events[i].fd] # NULL /\ fdtab[events[i].fd] = events[i].of
    BY DEF IInv, NoStaleEvent
  <2>2. events[i].fd \in Fd /\ events[i].fd # f
    <3> DEFINE E == [fd : Fd \cup {m_sock}, hup : BOOLEAN, of : Conn \cup {NoConn}]
    <3>1. events \in Seq(E)
      BY DEF IInv, TypeOK
    <3> HIDE DEF E
    <3>2. events[i] \in E
      BY <3>1, ElementOfSeq, LenProperties
    <3>3. events[i].fd \in Fd
      BY <3>2 DEF E
    <3> QED BY <2>1, <1>3, <3>3
  <2> QED BY <2>1, <2>2, <1>3
<1> QED BY <1>3, <1>4, <1>5, <1>6 DEF IInv

-----------------------------------------------------------------------------
(* Shutdown *)

LEMMA CloseServerStep == ASSUME IInv, CloseServer PROVE IInv'
<1> USE DEF CloseServer, CloseListener, poolVars
<1>1. \A d \in Conn : conn'[d] = IF conn[d] = "queued" THEN "closed" ELSE conn[d]
  OBVIOUS
<1>2. KernelTypeOK'
  <2>1. conn' \in [Conn -> {"none", "queued", "open", "closed"}]
    BY <1>1 DEF IInv, KernelTypeOK
  <2>2. peer' \in [Conn -> {"up", "fin", "rst"}]
    BY DEF IInv, KernelTypeOK
  <2>3. tosend' \in [Conn -> Seq(Bytes)] /\ rx' \in [Conn -> Seq(Bytes)]
    BY DEF IInv, KernelTypeOK
  <2>4. listening' \in BOOLEAN
    OBVIOUS
  <2>5. backlog' \in Seq(Conn)
    BY EmptySeq
  <2>6. fdtab' = fdtab /\ watched' = watched /\ now' = now
        /\ ready' \subseteq Fd \cup {m_sock}
    BY DEF IInv, KernelTypeOK
  <2> QED BY <2>1, <2>2, <2>3, <2>4, <2>5, <2>6 DEF IInv, KernelTypeOK
<1>3. TypeOK'
  BY DEF IInv, TypeOK
<1>4. ClientTable'
  <2>1. {d \in Conn : conn'[d] = "open"} = {d \in Conn : conn[d] = "open"}
    BY <1>1
  <2> QED BY <2>1 DEF IInv, ClientTable
<1>5. PoolDiscipline' /\ BacklogOK'
  BY DEF IInv, PoolDiscipline, Live, BacklogOK
<1>6. events = <<>>
  BY DEF IInv, EventsOK
<1>7. EventsOK' /\ NoStaleEvent'
  BY <1>6 DEF EventsOK, NoStaleEvent
<1> QED BY <1>2, <1>3, <1>4, <1>5, <1>7 DEF IInv

LEMMA DestroyStep == ASSUME IInv, Destroy PROVE IInv'
<1> USE DEF Destroy, kernelVars
<1>1. KernelTypeOK' /\ TypeOK'
  BY DEF IInv, KernelTypeOK, TypeOK
<1>2. ClientTable' /\ BacklogOK'
  BY DEF IInv, ClientTable, BacklogOK
<1>3. PoolDiscipline'
  <2>1. heap' = Live /\ Live' = Live
    BY DEF IInv, PoolDiscipline, Live
  <2> QED BY <2>1 DEF IInv, PoolDiscipline
<1>4. events = <<>>
  BY DEF IInv, EventsOK
<1>5. EventsOK' /\ NoStaleEvent'
  BY <1>4 DEF EventsOK, NoStaleEvent
<1> QED BY <1>1, <1>2, <1>3, <1>5 DEF IInv

-----------------------------------------------------------------------------
(* The theorems *)

(***************************************************************************)
(* Every step of the server, of a peer or of the clock preserves IInv.     *)
(***************************************************************************)
LEMMA NextIInv == IInv /\ [Next]_vars => IInv'
<1> SUFFICES ASSUME IInv, [Next]_vars PROVE IInv'
  OBVIOUS
<1>1. CASE ReadClock \/ NoKey \/ EscapeKey
  BY <1>1, ReadClockStep, NoKeyStep
<1>2. CASE EpollWait
  BY <1>2, EpollWaitStep
<1>3. CASE AcceptClient \/ AcceptEnds \/ AcceptFails \/ AcceptAbandoned
  BY <1>3, AcceptClientStep, AcceptEndsStep, AcceptFailsStep DEF AcceptFails
<1>4. CASE \E f \in Fd : HangUp(f) \/ ReadData(f) \/ ReadDrained(f) \/ ReadEnds(f)
  BY <1>4, HangUpStep, ReadDataStep, ReadDrainedStep
<1>5. CASE Parse
  BY <1>5, ParseShortStep, ParsePacketStep, ParseRefusedStep DEF Parse
<1>6. CASE CheckClients
  BY <1>6, CheckClientsStep
<1>7. CASE (\E f \in Fd : CloseClient(f)) \/ CloseServer \/ Destroy
  BY <1>7, CloseClientStep, CloseServerStep, DestroyStep
<1>8. CASE World
  BY <1>8, ConnectStep, PeerStep, TickStep DEF World, KernelNext
<1>9. CASE UNCHANGED vars
  <2> USE <1>9 DEF vars, kernelVars, serverVars
  <2>1. KernelTypeOK' /\ TypeOK'
    BY DEF IInv, KernelTypeOK, TypeOK
  <2>2. EventsOK' /\ NoStaleEvent'
    BY EventsKept
  <2> QED BY <2>1, <2>2, StructureKept DEF IInv, Structural
<1> QED
  BY <1>1, <1>2, <1>3, <1>4, <1>5, <1>6, <1>7, <1>8, <1>9 DEF Next, Server, Exited

(***************************************************************************)
(* The inductive invariant holds in every reachable state.                 *)
(***************************************************************************)
THEOREM Invariance == Spec => []IInv
BY InitIInv, NextIInv, PTL DEF Spec

(***************************************************************************)
(* Every variable of the server keeps its type: in particular the free     *)
(* list links objects only.                                                *)
(***************************************************************************)
THEOREM TypeCorrect == Spec => []TypeOK
<1>1. IInv => TypeOK
  BY DEF IInv
<1> QED BY <1>1, Invariance, PTL

(***************************************************************************)
(* m_clients and the open descriptors agree in every state between steps.  *)
(***************************************************************************)
THEOREM TableCorrect == Spec => []ClientTable
<1>1. IInv => ClientTable
  BY DEF IInv
<1> QED BY <1>1, Invariance, PTL

(***************************************************************************)
(* Every event still to be handled is about the connection that is open on *)
(* its descriptor: the "Fatal error" of Process cannot occur.              *)
(***************************************************************************)
THEOREM EventsCorrect == Spec => []NoStaleEvent
<1>1. IInv => NoStaleEvent
  BY DEF IInv
<1> QED BY <1>1, Invariance, PTL

(***************************************************************************)
(* No object serves two sessions, no object that serves one is on the free *)
(* list, and no allocated object is lost.                                  *)
(***************************************************************************)
THEOREM PoolCorrect == Spec => []PoolDiscipline
<1>1. IInv => PoolDiscipline
  BY DEF IInv
<1> QED BY <1>1, Invariance, PTL

=============================================================================
