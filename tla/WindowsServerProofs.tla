------------------------- MODULE WindowsServerProofs -------------------------
(***************************************************************************)
(* Proofs about WindowsServer.  The invariant of LoginServerProofs holds   *)
(* here too; the steps that are not Linux's are those of the loop over     *)
(* m_clients, where NoStaleEvent says that the iterator stands at an entry *)
(* of the table or at end(), whatever has been erased.  Builds'            *)
(* StreamOnce and MarkedLeftAlone are proved from the steps of             *)
(* StreamProofs, and what SessionProofs and StreamProofs show of any Step  *)
(* is proved of either build.                                              *)
(***************************************************************************)
EXTENDS Builds, StreamProofs

WinIInv == IInv /\ received \in BOOLEAN

EventType == Seq([fd : Fd \cup {m_sock}, hup : BOOLEAN, of : Conn \cup {NoConn}])

(***************************************************************************)
(* Wherever the iterator moves, it stands at an entry of the new table.    *)
(***************************************************************************)
LEMMA IteratorValid ==
  ASSUME NEW entries, entries \subseteq Entries', MoveTo(entries),
         fdtab' \in [Fd -> Conn \cup {NoConn}], pc' = "batch"
  PROVE  EventsOK' /\ NoStaleEvent' /\ events' \in EventType
<1>1. CASE entries = {} /\ events' = <<>>
  BY <1>1 DEF EventsOK, NoStaleEvent, EventType
<1>2. ASSUME NEW f \in entries,
             events' = <<[fd |-> f, hup |-> FALSE, of |-> fdtab'[f]]>>
      PROVE  EventsOK' /\ NoStaleEvent' /\ events' \in EventType
  <2>1. f \in Fd /\ m_clients'[f] # NULL
    BY DEF Entries
  <2>2. /\ Len(events') = 1 /\ DOMAIN events' = {1}
        /\ events'[1].fd = f /\ events'[1].of = fdtab'[f]
    BY <1>2
  <2>3. EventsOK'
    BY <2>2 DEF EventsOK
  <2>4. NoStaleEvent'
    BY <2>1, <2>2 DEF NoStaleEvent
  <2>5. [fd |-> f, hup |-> FALSE, of |-> fdtab'[f]]
          \in [fd : Fd \cup {m_sock}, hup : BOOLEAN, of : Conn \cup {NoConn}]
    BY <2>1
  <2> QED BY <1>2, <2>3, <2>4, <2>5 DEF EventType
<1> QED BY <1>1, <1>2 DEF MoveTo

(***************************************************************************)
(* At the entry of f there is a session.                                   *)
(***************************************************************************)
LEMMA VisitedIsServed ==
  ASSUME IInv, NEW f \in Fd, At(f)
  PROVE  m_clients[f] \in Obj /\ m_clients[f] # NULL /\ fdtab[f] \in Conn
<1>1. Head(events) = events[1] /\ 1 \in DOMAIN events /\ events[1].fd = f
  BY TailElements, LenProperties DEF At, IInv, TypeOK
<1>2. m_clients[f] # NULL
  BY <1>1, KernelAssumption DEF IInv, NoStaleEvent
<1> QED BY <1>2 DEF IInv, TypeOK, ClientTable, KernelTypeOK

LEMMA AcceptNobodyStep ==
  ASSUME WinIInv, AcceptNobody \/ InvalidReported PROVE WinIInv'
<1> USE DEF AcceptNobody, InvalidReported, poolVars, kernelVars
<1>1. EventsOK' /\ NoStaleEvent' /\ events' \in EventType
  BY IteratorValid DEF WinIInv, IInv, KernelTypeOK
<1>2. KernelTypeOK' /\ TypeOK'
  BY <1>1 DEF WinIInv, IInv, KernelTypeOK, TypeOK, EventType
<1> QED BY <1>1, <1>2, StructureKept DEF WinIInv, IInv, Structural

LEMMA AcceptOneStep == ASSUME WinIInv, AcceptOne PROVE WinIInv'
<1>1. PICK f \in Fd, o \in Obj :
        /\ Accept(f, FALSE)
        /\ AllocateClient(o, f)
        /\ m_clients' = [m_clients EXCEPT ![f] = o]
  BY DEF AcceptOne
<1>2. backlog # <<>> /\ MoveTo(Entries') /\ pc' = "batch" /\ UNCHANGED <<tm, received>>
  BY DEF AcceptOne
<1>3. /\ KernelTypeOK' /\ ClientTable' /\ PoolDiscipline' /\ BacklogOK'
      /\ m_clients' \in [Fd -> Obj \cup {NULL}] /\ m_pFreeList' \in Seq(Obj)
      /\ heap' \subseteq Obj /\ m_nNextId' \in Nat
      /\ client' \in [Obj -> [Socket : Fd \cup {m_sock}, bDisconnect : BOOLEAN,
           szDisconnectReason : Reason, ProtocolId : Nat,
           tmStartTime : Nat, bAuthenticated : BOOLEAN]]
      /\ buffer' \in [Obj -> Seq(Bytes)] /\ handled' \in [Obj -> Seq(Bytes)]
      /\ clean' \in [Obj -> BOOLEAN]
  BY <1>1, <1>2, AcceptKeeps DEF WinIInv
<1>4. EventsOK' /\ NoStaleEvent' /\ events' \in EventType
  BY <1>2, <1>3, IteratorValid DEF KernelTypeOK
<1>5. TypeOK'
  BY <1>2, <1>3, <1>4 DEF WinIInv, IInv, TypeOK, EventType
<1> QED BY <1>2, <1>3, <1>4, <1>5 DEF WinIInv, IInv

LEMMA EndMarkedStep == ASSUME WinIInv, NEW f \in Fd, EndMarked(f) PROVE WinIInv'
<1>1. /\ pc = "batch" /\ At(f) /\ EndSession(f) /\ MoveOn(f)
      /\ UNCHANGED <<tm, pc, received>>
  BY DEF EndMarked, Visit, At
<1>2. /\ KernelTypeOK' /\ ClientTable' /\ PoolDiscipline' /\ BacklogOK'
      /\ m_clients' \in [Fd -> Obj \cup {NULL}] /\ m_pFreeList' \in Seq(Obj)
      /\ UNCHANGED <<heap, client, buffer, m_nNextId, handled, clean>>
  BY <1>1, VisitedIsServed, EndSessionKeeps DEF WinIInv
<1>3. EventsOK' /\ NoStaleEvent' /\ events' \in EventType
  BY <1>1, <1>2, IteratorValid DEF MoveOn, KernelTypeOK
<1>4. TypeOK'
  BY <1>1, <1>2, <1>3 DEF WinIInv, IInv, TypeOK, EventType
<1> QED BY <1>1, <1>2, <1>3, <1>4 DEF WinIInv, IInv

LEMMA SelectNothingStep ==
  ASSUME WinIInv, NEW f \in Fd, SelectNothing(f) \/ DataTaken(f) PROVE WinIInv'
<1> USE DEF SelectNothing, DataTaken, Visit, At, poolVars, kernelVars
<1>1. EventsOK' /\ NoStaleEvent' /\ events' \in EventType
  BY IteratorValid DEF WinIInv, IInv, KernelTypeOK, MoveOn
<1>2. KernelTypeOK' /\ TypeOK' /\ received' \in BOOLEAN
  BY <1>1 DEF WinIInv, IInv, KernelTypeOK, TypeOK, EventType
<1> QED BY <1>1, <1>2, StructureKept DEF WinIInv, IInv, Structural

LEMMA RecvFailsStep == ASSUME WinIInv, NEW f \in Fd, RecvFails(f) PROVE WinIInv'
<1> USE DEF RecvFails, Visit, poolVars, kernelVars
<1>1. m_clients[f] \in Obj /\ pc = "batch"
  BY VisitedIsServed DEF WinIInv, At
<1>2. EventsOK' /\ NoStaleEvent' /\ events' \in EventType
  BY <1>1, IteratorValid DEF WinIInv, IInv, KernelTypeOK, MoveOn
<1>3. /\ client' \in [Obj -> [Socket : Fd \cup {m_sock}, bDisconnect : BOOLEAN,
           szDisconnectReason : Reason, ProtocolId : Nat,
           tmStartTime : Nat, bAuthenticated : BOOLEAN]]
      /\ \A o \in Obj : client'[o].Socket = client[o].Socket
  <2> DEFINE o == m_clients[f]
             cl == [client[o] EXCEPT !.bDisconnect = TRUE]
             Fields == [Socket : Fd \cup {m_sock}, bDisconnect : BOOLEAN,
                        szDisconnectReason : Reason, ProtocolId : Nat,
                        tmStartTime : Nat, bAuthenticated : BOOLEAN]
  <2>1. client \in [Obj -> Fields]
    BY DEF WinIInv, IInv, TypeOK
  <2>2. o \in Obj /\ client' = [client EXCEPT ![o] = cl]
    BY <1>1
  <2>3. cl \in Fields /\ cl.Socket = client[o].Socket
    BY ONLY <2>1, <2>2
  <2> HIDE DEF o, cl, Fields
  <2>4. client' \in [Obj -> Fields] /\ \A p \in Obj : client'[p].Socket = client[p].Socket
    BY ONLY <2>1, <2>2, <2>3
  <2> QED BY <2>4 DEF Fields
<1>4. KernelTypeOK' /\ TypeOK'
  BY <1>2, <1>3 DEF WinIInv, IInv, KernelTypeOK, TypeOK, EventType
<1> QED BY <1>2, <1>3, <1>4, StructureKept DEF WinIInv, IInv, Structural

LEMMA SharedStep == ASSUME WinIInv, Shared, UNCHANGED received PROVE WinIInv'
<1>1. IInv'
  <2>1. CASE ReadClock \/ NoKey \/ EscapeKey
    BY <2>1, ReadClockStep, NoKeyStep DEF WinIInv
  <2>2. CASE Parse
    BY <2>2, ParseShortStep, ParsePacketStep, ParseRefusedStep DEF Parse, WinIInv
  <2>3. CASE CheckClients
    BY <2>3, CheckClientsStep DEF WinIInv
  <2>4. CASE (\E f \in Fd : CloseClient(f)) \/ CloseServer \/ Destroy
    BY <2>4, CloseClientStep, CloseServerStep, DestroyStep DEF WinIInv
  <2> QED BY <2>1, <2>2, <2>3, <2>4 DEF Shared
<1> QED BY <1>1 DEF WinIInv

(***************************************************************************)
(* Every step of the Windows build preserves the invariant.                *)
(***************************************************************************)
LEMMA WinNextIInv == WinIInv /\ [WinNext]_winVars => WinIInv'
<1> SUFFICES ASSUME WinIInv, [WinNext]_winVars PROVE WinIInv'
  OBVIOUS
<1>1. CASE Shared /\ UNCHANGED received
  BY <1>1, SharedStep
<1>2. CASE AcceptNobody \/ InvalidReported \/ AcceptOne
  BY <1>2, AcceptNobodyStep, AcceptOneStep
<1>7. CASE AcceptInvalid
  BY <1>7, AcceptFailsStep DEF AcceptInvalid, WinIInv
<1>3. CASE \E f \in Fd : EndMarked(f) \/ SelectNothing(f) \/ RecvFails(f) \/ DataTaken(f)
  BY <1>3, EndMarkedStep, SelectNothingStep, RecvFailsStep
<1>4. CASE \E f \in Fd : Recv(f)
  BY <1>4, ReadDataStep DEF Recv, WinIInv
<1>5. CASE World /\ UNCHANGED received
  BY <1>5, NextIInv DEF Next, WinIInv
<1>6. CASE UNCHANGED winVars
  BY <1>6, NextIInv DEF winVars, WinIInv
<1> QED
  BY <1>1, <1>2, <1>3, <1>4, <1>5, <1>6, <1>7 DEF WinNext, WinServer, Exited, winVars

(***************************************************************************)
(* The invariant holds throughout, for any clients, handles and objects.   *)
(***************************************************************************)
THEOREM WinInvariance == WinSpec => []WinIInv
<1>1. WinInit => WinIInv
  BY InitIInv DEF WinInit, WinIInv
<1> QED BY <1>1, WinNextIInv, PTL DEF WinSpec

(***************************************************************************)
(* The loop over m_clients of the Windows build erases entries while it    *)
(* goes: the table agrees with the open handles at every step, and the     *)
(* iterator stands at an entry of it, about the connection open there.     *)
(***************************************************************************)
THEOREM WinTableCorrect == WinSpec => [](ClientTable /\ NoStaleEvent)
<1>1. WinIInv => ClientTable /\ NoStaleEvent
  BY DEF WinIInv, IInv
<1> QED BY <1>1, WinInvariance, PTL

(***************************************************************************)
(* On Windows too no object serves two sessions or is idle while it serves *)
(* one, and none is lost.                                                  *)
(***************************************************************************)
THEOREM WinPoolCorrect == WinSpec => []PoolDiscipline
<1>1. WinIInv => PoolDiscipline
  BY DEF WinIInv, IInv
<1> QED BY <1>1, WinInvariance, PTL

-----------------------------------------------------------------------------
(***************************************************************************)
(* On Windows nothing of a session that began with an empty buffer is lost *)
(* or moved, marked or not, because a marked session is not read on and so *)
(* never comes into the packet loop.                                       *)
(***************************************************************************)
WinStreamInv ==
  /\ Chains
  /\ \A f \in Fd : m_clients[f] # NULL /\ clean[m_clients[f]] => Flow(f)
  /\ pc = "parse" => ~client[Current].bDisconnect

LEMMA FlowsGoOn ==
  ASSUME WinStreamInv, FlowsOn(Fd), UNCHANGED clean,
         pc' = "parse" => ~client'[Current'].bDisconnect
  PROVE  WinStreamInv'
BY DEF WinStreamInv, FlowsOn

(***************************************************************************)
(* The steps that move no bytes and leave the packet loop or are not in    *)
(* it.                                                                     *)
(***************************************************************************)
LEMMA WinQuiet ==
  ASSUME WinStreamInv, pc' # "parse",
         UNCHANGED <<m_clients, clean, fdtab, conn, rx, tosend, buffer, handled>>
  PROVE  WinStreamInv'
<1>1. FlowsOn(Fd)
  BY QuietFlows DEF WinStreamInv
<1> QED BY <1>1, FlowsGoOn

LEMMA WinParse ==
  ASSUME WinIInv, WinStreamInv, Parse
  PROVE  WinStreamInv'
<1>1. CASE ParseShort \/ \E reason \in Reason : ParseRefused(reason)
  <2>1. /\ pc' = "batch"
        /\ UNCHANGED <<m_clients, clean, fdtab, conn, rx, tosend, buffer, handled>>
    BY <1>1 DEF ParseShort, ParseRefused, kernelVars, poolVars
  <2> QED BY <2>1, WinQuiet
<1>2. CASE ParseIncomplete
  <2>1. UNCHANGED vars
    BY <1>2 DEF ParseIncomplete
  <2>2. /\ UNCHANGED <<m_clients, clean, fdtab, conn, rx, tosend, buffer, handled>>
        /\ UNCHANGED <<pc, client, events>>
    BY <2>1 DEF vars, kernelVars, serverVars
  <2>3. FlowsOn(Fd)
    BY <2>2, QuietFlows DEF WinStreamInv
  <2>4. pc' = "parse" => ~client'[Current'].bDisconnect
    BY <2>2 DEF WinStreamInv, Current, ClientOf
  <2> QED BY <2>2, <2>3, <2>4, FlowsGoOn
<1>3. CASE ParsePacket
  <2>1. pc = "parse" /\ UNCHANGED <<m_clients, clean, fdtab, conn, rx, tosend, client, events>>
    BY <1>3 DEF ParsePacket, kernelVars, poolVars
  <2>2. PICK f \in Fd, k \in Nat : Handles(f, k) /\ m_clients[f] = Current
    BY <1>3, PacketHandled DEF WinIInv
  <2>3. m_clients[f] # NULL /\ ~client[m_clients[f]].bDisconnect
    BY <2>1, <2>2, ServerAssumption DEF Handles, WinStreamInv
  <2>4. FlowsOn(Fd \ {f}) /\ (Flow(f) => Flow(f)')
    BY <2>1, <2>2, <2>3, HandlesFlows DEF WinIInv, WinStreamInv
  <2>5. FlowsOn(Fd)
    BY <2>1, <2>4 DEF FlowsOn
  <2>6. pc' = "parse" => ~client'[Current'].bDisconnect
    BY <2>1 DEF WinStreamInv, Current, ClientOf
  <2> QED BY <2>1, <2>5, <2>6, FlowsGoOn
<1> QED BY <1>1, <1>2, <1>3 DEF Parse

LEMMA WinRecv ==
  ASSUME WinIInv, WinStreamInv, NEW f \in Fd, Recv(f)
  PROVE  WinStreamInv'
<1>1. /\ ReadData(f) /\ ~Marked(f) /\ At(f) /\ pc' = "parse"
      /\ UNCHANGED <<m_clients, clean, fdtab, conn, tosend, client, events>>
  BY DEF Recv, Visit, ReadData, poolVars
<1>2. m_clients[f] # NULL
  BY <1>1, VisitedIsServed DEF WinIInv
<1>3. PICK k \in Nat : Takes(f, k)
  BY <1>1, DataRead DEF WinIInv
<1>4. FlowsOn(Fd)
  BY <1>1, <1>2, <1>3, TakesFlows DEF WinIInv, WinStreamInv
<1>5. ~client'[Current'].bDisconnect
  BY <1>1 DEF Marked, At, Current, ClientOf
<1> QED BY <1>1, <1>4, <1>5, FlowsGoOn

LEMMA WinEnds ==
  ASSUME WinIInv, WinStreamInv, NEW f \in Fd, EndMarked(f) \/ CloseClient(f)
  PROVE  WinStreamInv'
<1>1. /\ EndSession(f) /\ m_clients[f] # NULL /\ pc' # "parse"
  <2>1. CASE EndMarked(f)
    BY <2>1, VisitedIsServed DEF EndMarked, Visit, At, WinIInv
  <2>2. CASE CloseClient(f)
    BY <2>2 DEF CloseClient
  <2> QED BY <2>1, <2>2
<1>2. FlowsOn(Fd \ {f}) /\ m_clients'[f] = NULL /\ UNCHANGED <<clean, client>>
  BY <1>1, EndSessionFlows DEF WinIInv, WinStreamInv
<1> QED BY <1>1, <1>2 DEF FlowsOn, WinStreamInv

LEMMA WinAccept ==
  ASSUME WinIInv, WinStreamInv, AcceptOne
  PROVE  WinStreamInv'
<1>1. PICK f \in Fd, o \in Obj :
        /\ Accept(f, FALSE) /\ AllocateClient(o, f)
        /\ m_clients' = [m_clients EXCEPT ![f] = o]
        /\ backlog # <<>> /\ pc' = "batch"
  BY DEF AcceptOne
<1>2. /\ FlowsOn(Fd \ {f}) /\ m_clients'[f] = o
      /\ clean'[o] => Flow(f)'
      /\ \A g \in Fd : g # f /\ m_clients[g] # NULL =>
           clean'[m_clients[g]] = clean[m_clients[g]]
  BY <1>1, AcceptFlows DEF WinIInv, WinStreamInv
<1>3. ASSUME NEW g \in Fd, m_clients'[g] # NULL /\ clean'[m_clients'[g]] PROVE Flow(g)'
  <2>1. CASE g = f
    BY <1>2, <1>3, <2>1
  <2>2. CASE g # f
    BY <1>2, <1>3, <2>2 DEF FlowsOn, WinStreamInv
  <2> QED BY <2>1, <2>2
<1> QED BY <1>1, <1>2, <1>3 DEF FlowsOn, WinStreamInv

LEMMA WinStreamStep ==
  ASSUME WinIInv, WinStreamInv, [WinNext]_winVars
  PROVE  WinStreamInv'
<1>1. CASE \/ ReadClock \/ NoKey \/ EscapeKey \/ CheckClients \/ Destroy
           \/ AcceptNobody \/ AcceptInvalid \/ InvalidReported
           \/ \E f \in Fd : SelectNothing(f) \/ RecvFails(f) \/ DataTaken(f)
  <2>1. /\ pc' # "parse"
        /\ UNCHANGED <<m_clients, clean, fdtab, conn, rx, tosend, buffer, handled>>
    BY <1>1 DEF ReadClock, NoKey, EscapeKey, CheckClients, Destroy, AcceptNobody,
      AcceptInvalid, AcceptFailure, InvalidReported, SelectNothing, RecvFails, DataTaken, Visit, At, kernelVars, poolVars
  <2> QED BY <2>1, WinQuiet
<1>2. CASE CloseServer
  <2>1. Chains' /\ (\A f \in Fd : m_clients'[f] = NULL) /\ pc' # "parse"
    BY <1>2, CloseServerFlows DEF WinStreamInv, CloseServer
  <2> QED BY <2>1 DEF WinStreamInv
<1>3. CASE World
  <2>1. FlowsOn(Fd) /\ UNCHANGED <<m_clients, clean, client, events, pc>>
    BY <1>3, WorldFlows DEF WinIInv, WinStreamInv
  <2>2. pc' = "parse" => ~client'[Current'].bDisconnect
    BY <2>1 DEF WinStreamInv, Current, ClientOf
  <2> QED BY <2>1, <2>2, FlowsGoOn
<1>4. CASE UNCHANGED vars
  <2>1. /\ UNCHANGED <<m_clients, clean, fdtab, conn, rx, tosend, buffer, handled>>
        /\ UNCHANGED <<pc, client, events>>
    BY <1>4 DEF vars, kernelVars, serverVars
  <2>2. FlowsOn(Fd)
    BY <2>1, QuietFlows DEF WinStreamInv
  <2>3. pc' = "parse" => ~client'[Current'].bDisconnect
    BY <2>1 DEF WinStreamInv, Current, ClientOf
  <2> QED BY <2>1, <2>2, <2>3, FlowsGoOn
<1> QED
  BY <1>1, <1>2, <1>3, <1>4, WinParse, WinRecv, WinEnds, WinAccept
  DEF WinNext, WinServer, Shared, Exited, winVars

-----------------------------------------------------------------------------
(* Either build *)

(***************************************************************************)
(* What the loop over m_clients does in terms of sessions: a round of it   *)
(* admits one, ends one, or takes bytes or marks.                          *)
(***************************************************************************)
LEMMA VisitsStay ==
  ASSUME WinIInv, NEW f \in Fd, SelectNothing(f) \/ Recv(f) \/ RecvFails(f) \/ DataTaken(f)
  PROVE  Staying
<1>1. pc \notin Down /\ pc' \notin Down
  BY DEF SelectNothing, Recv, ReadData, RecvFails, DataTaken, Visit, At, Down
<1>2. CASE SelectNothing(f) \/ DataTaken(f)
  BY <1>1, <1>2 DEF SelectNothing, DataTaken, kernelVars, poolVars, Staying
<1>3. CASE Recv(f)
  <2>1. Working
    BY <1>3 DEF Recv, Working
  <2> QED BY <2>1, WorkingStays DEF WinIInv
<1>4. CASE RecvFails(f)
  <2>1. m_clients[f] \in Obj
    BY <1>4, VisitedIsServed DEF RecvFails, Visit, WinIInv
  <2>2. UNCHANGED <<m_clients, heap, m_pFreeList, m_nNextId, clean, fdtab, conn,
                    watched, listening, backlog, tosend, now, buffer, handled, rx>>
    BY <1>4 DEF RecvFails, kernelVars, poolVars
  <2>3. ASSUME NEW o \in Obj
        PROVE  /\ client'[o].ProtocolId = client[o].ProtocolId
               /\ client'[o].bDisconnect \in {client[o].bDisconnect, TRUE}
    <3>1. client \in [Obj -> [Socket : Fd \cup {m_sock}, bDisconnect : BOOLEAN,
             szDisconnectReason : Reason, ProtocolId : Nat,
             tmStartTime : Nat, bAuthenticated : BOOLEAN]]
      BY DEF WinIInv, IInv, TypeOK
    <3>2. client' = [client EXCEPT ![m_clients[f]].bDisconnect = TRUE]
      BY <1>4 DEF RecvFails
    <3> QED BY <3>1, <3>2
  <2> QED BY <1>1, <2>2, <2>3 DEF Staying
<1> QED BY <1>2, <1>3, <1>4

LEMMA WindowsSteps == ASSUME WinIInv, [WinNext]_winVars PROVE Step
<1>1. CASE ReadClock \/ Parse \/ CheckClients \/ NoKey \/ EscapeKey
  <2>1. Working
    BY <1>1 DEF Working
  <2> QED BY <2>1, WorkingStays DEF WinIInv, Step
<1>2. CASE AcceptNobody \/ AcceptInvalid \/ InvalidReported
  <2>1. pc \notin Down /\ pc' \notin Down
    BY <1>2 DEF AcceptNobody, AcceptInvalid, AcceptFailure, InvalidReported, Down
  <2> QED BY <1>2, <2>1 DEF AcceptNobody, AcceptInvalid, AcceptFailure, InvalidReported,
             kernelVars, poolVars, Staying, Step
<1>3. CASE AcceptOne
  <2>1. PICK f \in Fd, o \in Obj :
          /\ Accept(f, FALSE) /\ AllocateClient(o, f)
          /\ m_clients' = [m_clients EXCEPT ![f] = o]
    BY <1>3 DEF AcceptOne
  <2>2. backlog # <<>> /\ pc \notin Down /\ pc' \notin Down
    BY <1>3 DEF AcceptOne, Down
  <2> QED BY <2>1, <2>2 DEF Admits, Step
<1>4. ASSUME NEW f \in Fd, EndMarked(f) \/ CloseClient(f) PROVE Ends(f)
  <2>1. CASE EndMarked(f)
    BY <2>1, VisitedIsServed DEF EndMarked, Visit, At, Ends, Down, WinIInv
  <2>2. CASE CloseClient(f)
    BY <2>2 DEF CloseClient, Ends, Down
  <2> QED BY <1>4, <2>1, <2>2
<1>5. CASE World \/ CloseServer \/ Destroy \/ UNCHANGED vars
  BY <1>5 DEF Step
<1> QED
  BY <1>1, <1>2, <1>3, <1>4, <1>5, VisitsStay
  DEF WinNext, WinServer, Shared, Exited, winVars, Step

(***************************************************************************)
(* The invariant of both builds, and their steps.                          *)
(***************************************************************************)
BuildInv ==
  /\ WinIInv
  /\ build = "windows" => WinStreamInv

LEMMA BuildCases ==
  ASSUME [BuildNext]_buildVars
  PROVE  /\ build' = build
         /\ build = "windows" => [WinNext]_winVars
         /\ build # "windows" => [Next]_vars /\ received' = received
BY DEF BuildNext, BuildServer, Others, buildVars, winVars, WinNext, Next

LEMMA BuildInitInv == BuildInit => BuildInv
<1> SUFFICES ASSUME BuildInit PROVE WinIInv /\ WinStreamInv
  BY DEF BuildInv
<1>1. WinIInv
  BY InitIInv DEF BuildInit, WinInit, WinIInv
<1> QED BY <1>1 DEF BuildInit, WinInit, Init, KernelInit, ServerInit, WinStreamInv, Chains

LEMMA BuildNextInv == BuildInv /\ [BuildNext]_buildVars => BuildInv'
<1> SUFFICES ASSUME BuildInv, [BuildNext]_buildVars PROVE BuildInv'
  OBVIOUS
<1>1. CASE build = "windows"
  <2>1. [WinNext]_winVars
    BY <1>1, BuildCases
  <2> QED BY <1>1, <2>1, BuildCases, WinNextIInv, WinStreamStep DEF BuildInv
<1>2. CASE build # "windows"
  <2>1. IInv /\ [Next]_vars /\ received' = received /\ build' # "windows"
    BY <1>2, BuildCases DEF BuildInv, WinIInv
  <2>2. IInv'
    BY <2>1, NextIInv
  <2> QED BY <2>1, <2>2 DEF BuildInv, WinIInv
<1> QED BY <1>1, <1>2

LEMMA BuildInvariance == BuildSpec => []BuildInv
BY BuildInitInv, BuildNextInv, PTL DEF BuildSpec

LEMMA BuildSteps ==
  ASSUME BuildInv, [BuildNext]_buildVars
  PROVE  IInv /\ IInv' /\ Step
<1>1. IInv /\ IInv'
  BY BuildNextInv DEF BuildInv, WinIInv
<1>2. CASE build = "windows"
  BY <1>1, <1>2, BuildCases, WindowsSteps DEF BuildInv
<1>3. CASE build # "windows"
  BY <1>1, <1>3, BuildCases, LinuxSteps
<1> QED BY <1>1, <1>2, <1>3

(***************************************************************************)
(* In the Windows build of the two, what a peer sends is handled once and  *)
(* in order also in a session that is marked for disconnection, for all    *)
(* scripts, cuts and sizes.                                                *)
(***************************************************************************)
THEOREM WinStreamCorrect == BuildSpec => []StreamOnce
<1>1. BuildInv => StreamOnce
  <2> SUFFICES ASSUME WinIInv, WinStreamInv, NEW f \in Fd, m_clients[f] # NULL,
                      clean[m_clients[f]]
               PROVE  InOrder(f)
    BY DEF BuildInv, StreamOnce, InOrder
  <2> QED BY FlowInOrder DEF WinIInv, WinStreamInv
<1> QED BY <1>1, BuildInvariance, PTL

(***************************************************************************)
(* On either platform Close leaves no handle of a client, no session and   *)
(* no queued connection behind and closes the listening socket, and the    *)
(* destructors leave no object: also when shutdown comes upon sessions     *)
(* that are marked and have not been visited yet.                          *)
(***************************************************************************)
THEOREM EitherShutsDown == BuildSpec => []ShutdownComplete
<1>1. BuildInit => CloseInv
  BY CloseInit DEF BuildInit, WinInit
<1>2. BuildInv /\ CloseInv /\ [BuildNext]_buildVars => CloseInv'
  BY BuildSteps, CloseStep
<1>3. BuildInv /\ CloseInv => ShutdownComplete
  BY NothingLeft DEF BuildInv, WinIInv
<1> QED BY <1>1, <1>2, <1>3, BuildInvariance, PTL DEF BuildSpec

(***************************************************************************)
(* On either platform there is never an object more than the process can   *)
(* have handles of clients.                                                *)
(***************************************************************************)
THEOREM EitherPoolBounded == ASSUME IsFiniteSet(Fd) PROVE BuildSpec => []PoolBound
<1> DEFINE Inv == IsFiniteSet(heap) /\ PoolBound
<1>1. BuildInit => Inv
  BY PoolInit DEF BuildInit, WinInit
<1>2. BuildInv /\ Inv /\ [BuildNext]_buildVars => Inv'
  BY BuildSteps, PoolStep
<1>3. Inv => PoolBound
  OBVIOUS
<1> QED BY <1>1, <1>2, <1>3, BuildInvariance, PTL DEF BuildSpec

(***************************************************************************)
(* On either platform no session finds in its buffer bytes of a session    *)
(* that is still open.                                                     *)
(***************************************************************************)
THEOREM EitherNoBytesAcross == BuildSpec => []NoCrossTalk
<1>1. BuildInit => OriginInv
  BY OriginInit DEF BuildInit, WinInit
<1>2. BuildInv /\ OriginInv /\ [BuildNext]_buildVars => OriginInv'
  BY BuildSteps, OriginStep
<1>3. BuildInv /\ OriginInv => NoCrossTalk
  BY NoneAcross DEF BuildInv, WinIInv
<1> QED BY <1>1, <1>2, <1>3, BuildInvariance, PTL DEF BuildSpec

(***************************************************************************)
(* The loop with select and the loop with epoll are one network layer to   *)
(* the sessions: both admit them in order of arrival, under consecutive    *)
(* numbers, end each once, and admit none after shutdown.                  *)
(***************************************************************************)
THEOREM EitherImplementsSessions == BuildSpec => ImplementsSessions
<1>1. BuildInit => CloseInv /\ QueueInv /\ S!Init
  BY CloseInit, QueueInit, InitRefines DEF BuildInit, WinInit
<1>2. /\ BuildInv /\ CloseInv /\ [BuildNext]_buildVars => CloseInv'
      /\ BuildInv /\ QueueInv /\ [BuildNext]_buildVars => QueueInv'
  BY BuildSteps, CloseStep, QueueStep
<1>3. /\ BuildInv /\ CloseInv /\ QueueInv /\ [BuildNext]_buildVars
      => [S!Next]_(S!sessionVars)
  BY BuildSteps, StepRefines
<1> QED BY <1>1, <1>2, <1>3, BuildInvariance, PTL
        DEF BuildSpec, ImplementsSessions, S!Spec

(***************************************************************************)
(* On either platform a session that is not marked goes through the packet *)
(* loop as if it were the only one.                                        *)
(***************************************************************************)
THEOREM EitherInRounds == BuildSpec => SessionRounds
<1>1. BuildInv /\ [BuildNext]_buildVars =>
        [\A f \in Fd : Lasts(f) /\ ~client[m_clients[f]].bDisconnect
           => [Rounds(f)!Next]_(Rounds(f)!roundVars)]_vars
  BY BuildSteps, StepRounds
<1> QED BY <1>1, BuildInvariance, PTL DEF BuildSpec, SessionRounds

-----------------------------------------------------------------------------
(* Marked sessions *)

(***************************************************************************)
(* On Windows only a session that is not marked is read or has a packet    *)
(* handled.                                                                *)
(***************************************************************************)
LEMMA OnlyUnmarkedMoves ==
  ASSUME WinIInv, WinStreamInv, [WinNext]_winVars, Staying
  PROVE  \/ UNCHANGED <<buffer, handled>>
         \/ \E g \in Fd, k \in Nat : /\ Takes(g, k) \/ Handles(g, k)
                                    /\ ~client[m_clients[g]].bDisconnect
<1>1. CASE ParsePacket
  <2>1. PICK g \in Fd, k \in Nat : Handles(g, k) /\ m_clients[g] = Current
    BY <1>1, PacketHandled DEF WinIInv
  <2>2. ~client[Current].bDisconnect
    BY <1>1 DEF ParsePacket, WinStreamInv
  <2> QED BY <2>1, <2>2
<1>2. ASSUME NEW g \in Fd, Recv(g)
      PROVE  \E k \in Nat : Takes(g, k) /\ ~client[m_clients[g]].bDisconnect
  <2>1. \E k \in Nat : Takes(g, k)
    BY <1>2, DataRead DEF Recv, WinIInv
  <2> QED BY <1>2, <2>1 DEF Recv, Marked
<1>3. CASE \/ ReadClock \/ NoKey \/ EscapeKey \/ CheckClients \/ Destroy
           \/ AcceptNobody \/ AcceptInvalid \/ InvalidReported
  BY <1>3 DEF ReadClock, NoKey, EscapeKey, CheckClients, Destroy, AcceptNobody,
      AcceptInvalid, AcceptFailure, InvalidReported
<1>4. CASE ParseShort \/ ParseIncomplete \/ \E reason \in Reason : ParseRefused(reason)
  BY <1>4 DEF ParseShort, ParseIncomplete, ParseRefused, vars, serverVars
<1>5. CASE CloseServer \/ World \/ UNCHANGED vars
  BY <1>5 DEF CloseServer, World, vars, serverVars
<1>6. CASE \E g \in Fd : EndMarked(g) \/ CloseClient(g)
  BY <1>6 DEF EndMarked, CloseClient, EndSession, FreeClient
<1>7. CASE \E g \in Fd : SelectNothing(g) \/ RecvFails(g) \/ DataTaken(g)
  BY <1>7 DEF SelectNothing, RecvFails, DataTaken
<1>8. ~AcceptOne
  <2> SUFFICES ASSUME AcceptOne PROVE FALSE
    OBVIOUS
  <2>1. m_nNextId' = m_nNextId + 1 /\ m_nNextId \in Nat
    BY DEF AcceptOne, AllocateClient, WinIInv, IInv, TypeOK
  <2>2. m_nNextId' = m_nNextId
    BY DEF Staying
  <2> QED BY <2>1, <2>2
<1> QED
  BY <1>1, <1>2, <1>3, <1>4, <1>5, <1>6, <1>7, <1>8
  DEF WinNext, WinServer, Shared, Parse, Exited, winVars

(***************************************************************************)
(* On Windows a session marked by the packet loop, by the timeout or by    *)
(* the end of its connection is left as it is until it is ended, for all   *)
(* scripts, cuts and sizes.                                                *)
(***************************************************************************)
THEOREM MarkedLeft == BuildSpec => MarkedLeftAlone
<1>1. ASSUME BuildInv, [BuildNext]_buildVars, build = "windows",
             NEW f \in Fd, Lasts(f), client[m_clients[f]].bDisconnect
      PROVE  /\ buffer'[m_clients[f]] = buffer[m_clients[f]]
             /\ handled'[m_clients[f]] = handled[m_clients[f]]
  <2>1. /\ IInv /\ WinIInv /\ WinStreamInv /\ [WinNext]_winVars /\ Step
        /\ m_clients[f] \in Obj /\ m_clients[f] # NULL
    BY <1>1, BuildCases, BuildSteps, Serves DEF BuildInv, Lasts
  <2>2. CASE Admits \/ \E g \in Fd : Ends(g)
    BY <1>1, <2>1, <2>2, OthersKept
  <2>3. CASE CloseServer \/ Destroy \/ World \/ UNCHANGED vars
    BY <2>3 DEF CloseServer, Destroy, World, vars, serverVars
  <2>4. ASSUME NEW g \in Fd, NEW k \in Nat, Takes(g, k) \/ Handles(g, k),
               ~client[m_clients[g]].bDisconnect
        PROVE  /\ buffer'[m_clients[f]] = buffer[m_clients[f]]
               /\ handled'[m_clients[f]] = handled[m_clients[f]]
    <3>1. m_clients[g] # m_clients[f]
      BY <1>1, <2>4
    <3> QED BY <2>1, <2>4, <3>1, ObjTyped DEF Takes, Handles
  <2>5. CASE Staying
    BY <2>1, <2>4, <2>5, OnlyUnmarkedMoves
  <2> QED BY <2>1, <2>2, <2>3, <2>5 DEF Step
<1>2. BuildInv /\ [BuildNext]_buildVars =>
        [build = "windows" =>
           \A f \in Fd : Lasts(f) /\ client[m_clients[f]].bDisconnect =>
             /\ buffer'[m_clients[f]] = buffer[m_clients[f]]
             /\ handled'[m_clients[f]] = handled[m_clients[f]]]_buildVars
  BY <1>1
<1> QED BY <1>2, BuildInvariance, PTL DEF BuildSpec, MarkedLeftAlone
=============================================================================
