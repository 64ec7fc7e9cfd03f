---------------------------- MODULE WindowsServer ----------------------------
(***************************************************************************)
(* The certifier built for Windows: the other branch of                    *)
(* CNetworkServer::Process, which asks select about one socket at a time.  *)
(* The pool, the packet loop, the authentication check, main and Close are *)
(* LoginServer's.                                                          *)
(*                                                                         *)
(* select reports what is there and not what has changed: `watched' stays  *)
(* empty and `ready' says nothing.  At most one connection is accepted in  *)
(* a round.  `events' is the iterator over m_clients: empty at end(),      *)
(* otherwise the entry it stands at (hup is never set).                    *)
(*                                                                         *)
(* What is sent in a step is taken to find room: sockets of clients block  *)
(* in this build, and a peer that does not read may hold the thread (see   *)
(* HeldUp in Replies).                                                     *)
(***************************************************************************)
EXTENDS LoginServer

VARIABLE received   \* OnClientData was called for the entry of the iterator

winVars == <<vars, received>>

WinInit == Init /\ received = FALSE

-----------------------------------------------------------------------------
(***************************************************************************)
(* The iterator moves to the least of `entries', or to end().              *)
(***************************************************************************)
MoveTo(entries) ==
  \/ entries = {} /\ events' = <<>>
  \/ \E f \in entries :
       /\ \A g \in entries : f <= g
       /\ events' = <<[fd |-> f, hup |-> FALSE, of |-> fdtab'[f]]>>

Entries == {f \in Fd : m_clients[f] # NULL}

MoveOnSkips(f) ==       \* mutant: ++it after it = m_clients.erase( it )
  MoveTo({g \in Entries' : \E h \in Entries' : f < h /\ h < g})

(***************************************************************************)
(* ++it, and it = m_clients.erase( it ) when the entry of f is gone.       *)
(***************************************************************************)
MoveOn(f) == MoveTo({g \in Entries' : f < g})

AcceptNobodyMisses ==     \* mutant: a waiting connection may be missed
  /\ pc = "wait"
  /\ UNCHANGED <<kernelVars, poolVars, client, buffer, tm, handled, received>>
  /\ MoveTo(Entries') /\ pc' = "batch"

(***************************************************************************)
(* select finds nobody waiting.                                            *)
(***************************************************************************)
AcceptNobody ==
  /\ pc = "wait" /\ backlog = <<>>
  /\ UNCHANGED <<kernelVars, poolVars, client, buffer, tm, handled, received>>
  /\ MoveTo(Entries') /\ pc' = "batch"

(***************************************************************************)
(* accept fails with a connection waiting, for want of a handle or for     *)
(* another reason: the connection is still there in the next round.        *)
(***************************************************************************)
AcceptInvalid == pc = "wait" /\ AcceptFailure /\ UNCHANGED received

InvalidReported ==
  /\ pc = "failed"
  /\ UNCHANGED <<kernelVars, poolVars, client, buffer, tm, handled, received>>
  /\ MoveTo(Entries') /\ pc' = "batch"

AcceptOne ==
  /\ pc = "wait" /\ backlog # <<>>
  /\ \E f \in Fd, o \in Obj :
       /\ Accept(f, FALSE)
       /\ AllocateClient(o, f)
       /\ m_clients' = [m_clients EXCEPT ![f] = o]
  /\ MoveTo(Entries') /\ pc' = "batch"
  /\ UNCHANGED <<tm, received>>

-----------------------------------------------------------------------------
(* One round of the loop over m_clients, for the entry of f *)

Marked(f) == client[m_clients[f]].bDisconnect

Visit(f) == At(f) /\ ~received

EndMarkedIgnored(f) ==  \* mutant: a marked session is passed over
  /\ Visit(f) /\ Marked(f)
  /\ UNCHANGED <<kernelVars, poolVars, client, buffer, tm, pc, handled, received>>
  /\ MoveOn(f)

EndMarked(f) ==
  /\ Visit(f) /\ Marked(f)
  /\ EndSession(f)
  /\ MoveOn(f)
  /\ UNCHANGED <<tm, pc, received>>

SelectNothing(f) ==
  /\ Visit(f) /\ ~Marked(f)
  /\ ~Pending(fdtab[f])
  /\ UNCHANGED <<kernelVars, poolVars, client, buffer, tm, pc, handled, received>>
  /\ MoveOn(f)

RecvUnmarked(f) ==      \* mutant: bDisconnect is not looked at
  Visit(f) /\ ReadData(f) /\ received' = TRUE

Recv(f) == Visit(f) /\ ~Marked(f) /\ ReadData(f) /\ received' = TRUE

(***************************************************************************)
(* recv returns 0 or fails; a reset may overtake the data before it.  The  *)
(* reason is left as it is.                                                *)
(***************************************************************************)
RecvFails(f) ==
  /\ Visit(f) /\ ~Marked(f)
  /\ peer[fdtab[f]] = "rst" \/ (peer[fdtab[f]] = "fin" /\ rx[fdtab[f]] = <<>>)
  /\ client' = [client EXCEPT ![m_clients[f]].bDisconnect = TRUE]
  /\ UNCHANGED <<kernelVars, poolVars, buffer, tm, pc, handled, received>>
  /\ MoveOn(f)

(***************************************************************************)
(* OnClientData has returned.                                              *)
(***************************************************************************)
DataTaken(f) ==
  /\ At(f) /\ received
  /\ received' = FALSE
  /\ UNCHANGED <<kernelVars, poolVars, client, buffer, tm, pc, handled>>
  /\ MoveOn(f)

-----------------------------------------------------------------------------
Shared ==
  \/ ReadClock \/ Parse \/ CheckClients \/ NoKey \/ EscapeKey
  \/ (\E f \in Fd : CloseClient(f)) \/ CloseServer \/ Destroy

WinServer ==
  \/ Shared /\ UNCHANGED received
  \/ AcceptNobody \/ AcceptInvalid \/ InvalidReported \/ AcceptOne
  \/ \E f \in Fd : \/ EndMarked(f) \/ SelectNothing(f)
                   \/ Recv(f) \/ RecvFails(f) \/ DataTaken(f)

WinNext ==
  \/ WinServer
  \/ (World \/ Exited) /\ UNCHANGED received

WinSpec == WinInit /\ [][WinNext]_winVars
=============================================================================
