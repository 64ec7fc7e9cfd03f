------------------------------- MODULE Kernel --------------------------------
(***************************************************************************)
(* The world around the event loop: TCP peers, the listen queue, the table *)
(* of file descriptors, the edge-triggered epoll set and the clock.  None  *)
(* of it is code of the repository: it is modelled from how                *)
(* src/Network/NetworkServer.cpp uses it (accept, read, close, epoll_ctl,  *)
(* epoll_wait, time).                                                      *)
(***************************************************************************)
EXTENDS Naturals, Sequences, FiniteSets

CONSTANTS
  Conn,      \* connections peers may ever make
  NoConn,    \* a descriptor that is not open
  Fd,        \* descriptors the process may still open for connections
  m_sock,    \* the descriptor of the listening socket
  Scripts,   \* byte sequences a peer may send over one connection
  MaxTime    \* bound of the clock

ASSUME KernelAssumption ==
  /\ NoConn \notin Conn
  /\ Fd \subseteq Nat
  /\ m_sock \notin Fd
  /\ MaxTime \in Nat

VARIABLES
  conn,       \* conn[c]: "none", "queued", "open" (accepted) or "closed"
  peer,       \* peer[c]: "up", "fin" (it closed) or "rst" (it reset)
  tosend,     \* tosend[c]: bytes the peer has not sent yet
  rx,         \* rx[c]: bytes received and not read yet
  backlog,    \* connections not accepted yet, oldest first
  listening,  \* the listening socket is open
  fdtab,      \* fdtab[f]: the connection descriptor f is open on, or NoConn
  watched,    \* descriptors registered with epoll_ctl( EPOLL_CTL_ADD )
  ready,      \* descriptors with an edge that epoll_wait has not reported
  now         \* time( NULL )

kernelVars ==
  <<conn, peer, tosend, rx, backlog, listening, fdtab, watched, ready, now>>

KernelInit ==
  /\ conn = [c \in Conn |-> "none"]
  /\ peer = [c \in Conn |-> "up"]
  /\ tosend = [c \in Conn |-> <<>>]
  /\ rx = [c \in Conn |-> <<>>]
  /\ backlog = <<>>
  /\ listening = TRUE
  /\ fdtab = [f \in Fd |-> NoConn]
  /\ watched = {}
  /\ ready = {}
  /\ now = 0

-----------------------------------------------------------------------------
(* epoll *)

(***************************************************************************)
(* An edge on a connection: its descriptor joins the ready set, if it is   *)
(* registered.                                                             *)
(***************************************************************************)
Edge(c) == ready' = ready \cup {f \in watched : fdtab[f] = c}

(***************************************************************************)
(* What a poll of the descriptor would report.                             *)
(***************************************************************************)
Pending(c) == rx[c] # <<>> \/ peer[c] # "up"
Readable(f) ==
  IF f = m_sock THEN backlog # <<>> ELSE fdtab[f] # NoConn /\ Pending(fdtab[f])
HungUp(f) == f # m_sock /\ peer[fdtab[f]] = "rst"

-----------------------------------------------------------------------------
(* Peers and the clock *)

Stream(c, script) == [i \in 1..Len(script) |-> [b |-> script[i], s |-> c, n |-> i]]

Connect(c) ==
  /\ listening
  /\ conn[c] = "none"
  /\ conn' = [conn EXCEPT ![c] = "queued"]
  /\ \E script \in Scripts : tosend' = [tosend EXCEPT ![c] = Stream(c, script)]
  /\ backlog' = Append(backlog, c)
  /\ ready' = ready \cup {m_sock}
  /\ UNCHANGED <<peer, rx, listening, fdtab, watched, now>>

Connected(c) == conn[c] \in {"queued", "open"}

PeerSend(c) ==
  /\ Connected(c) /\ peer[c] = "up"
  /\ \E k \in 1..Len(tosend[c]) :
       /\ rx' = [rx EXCEPT ![c] = @ \o SubSeq(tosend[c], 1, k)]
       /\ tosend' = [tosend EXCEPT ![c] = SubSeq(@, k + 1, Len(@))]
  /\ Edge(c)
  /\ UNCHANGED <<conn, peer, backlog, listening, fdtab, watched, now>>

PeerClose(c) ==
  /\ Connected(c) /\ peer[c] = "up"
  /\ peer' = [peer EXCEPT ![c] = "fin"]
  /\ Edge(c)
  /\ UNCHANGED <<conn, tosend, rx, backlog, listening, fdtab, watched, now>>

PeerReset(c) ==
  /\ Connected(c) /\ peer[c] # "rst"
  /\ peer' = [peer EXCEPT ![c] = "rst"]
  /\ Edge(c)
  /\ UNCHANGED <<conn, tosend, rx, backlog, listening, fdtab, watched, now>>

Tick ==
  /\ now < MaxTime
  /\ now' = now + 1
  /\ UNCHANGED <<conn, peer, tosend, rx, backlog, listening, fdtab, watched,
                 ready>>

KernelNext ==
  \/ \E c \in Conn : Connect(c) \/ PeerSend(c) \/ PeerClose(c) \/ PeerReset(c)
  \/ Tick

-----------------------------------------------------------------------------
(* System calls: each is a conjunct of a server's action. *)

(***************************************************************************)
(* epoll_wait reports, once per edge, up to `max' of the ready descriptors *)
(* that still have something to report, in any order.                      *)
(***************************************************************************)
Batches(max) ==
  LET some == {f \in ready : Readable(f)} IN
  {batch \in UNION {[1..n -> some] : n \in 0..max} :
     /\ \A i, j \in DOMAIN batch : batch[i] = batch[j] => i = j
     /\ Len(batch) = max \/ some = {batch[i] : i \in DOMAIN batch}}

FreeFds == {f \in Fd : fdtab[f] = NoConn}

(***************************************************************************)
(* accept opens a free descriptor on the oldest connection; `added' says   *)
(* whether an epoll_ctl( EPOLL_CTL_ADD ) follows and succeeds.             *)
(* Registering a descriptor that is ready already is an edge.              *)
(***************************************************************************)
Accept(f, added) ==
  /\ f \in FreeFds
  /\ fdtab' = [fdtab EXCEPT ![f] = Head(backlog)]
  /\ conn' = [conn EXCEPT ![Head(backlog)] = "open"]
  /\ backlog' = Tail(backlog)
  /\ watched' = IF added THEN watched \cup {f} ELSE watched
  /\ ready' = IF added /\ Pending(Head(backlog)) THEN ready \cup {f} ELSE ready
  /\ UNCHANGED <<peer, tosend, rx, listening, now>>

(***************************************************************************)
(* Linux hands out the lowest free descriptor.                             *)
(***************************************************************************)
AcceptAndAdd(f, added) == (\A g \in FreeFds : f <= g) /\ Accept(f, added)

(***************************************************************************)
(* close releases the descriptor, takes it out of the epoll set and the    *)
(* ready set, and drops what the connection still had in flight.          *)
(***************************************************************************)
CloseSocket(f) ==
  LET c == fdtab[f] IN
  /\ fdtab' = [fdtab EXCEPT ![f] = NoConn]
  /\ conn' = [conn EXCEPT ![c] = "closed"]
  /\ peer' = [peer EXCEPT ![c] = "up"]
  /\ tosend' = [tosend EXCEPT ![c] = <<>>]
  /\ rx' = [rx EXCEPT ![c] = <<>>]
  /\ watched' = watched \ {f}
  /\ ready' = ready \ {f}
  /\ UNCHANGED <<backlog, listening, now>>

CloseListener ==
  LET refused(c) == conn[c] = "queued" IN
  /\ listening' = FALSE
  /\ backlog' = <<>>
  /\ conn' = [c \in Conn |-> IF refused(c) THEN "closed" ELSE conn[c]]
  /\ peer' = [c \in Conn |-> IF refused(c) THEN "up" ELSE peer[c]]
  /\ tosend' = [c \in Conn |-> IF refused(c) THEN <<>> ELSE tosend[c]]
  /\ rx' = [c \in Conn |-> IF refused(c) THEN <<>> ELSE rx[c]]
  /\ ready' = ready \ {m_sock}
  /\ UNCHANGED <<fdtab, watched, now>>
=============================================================================
