---------------------------- MODULE StreamProofs -----------------------------
(***************************************************************************)
(* Whose bytes a session handles, and in what order: proved on top of      *)
(* LoginServerProofs' IInv and the steps of SessionProofs.                 *)
(***************************************************************************)
EXTENDS SessionProofs

-----------------------------------------------------------------------------
(* Bytes *)

(***************************************************************************)
(* q is what the peer of c sent behind its first m bytes.                  *)
(***************************************************************************)
From(q, c, m) == \A i \in 1..Len(q) : q[i].s = c /\ q[i].n = m + i

LEMMA FromConcat ==
  ASSUME NEW p \in Seq(Bytes), NEW q \in Seq(Bytes), NEW c, NEW m \in Nat
  PROVE  From(p \o q, c, m) <=> From(p, c, m) /\ From(q, c, m + Len(p))
<1>1. /\ Len(p) \in Nat /\ Len(q) \in Nat /\ Len(p \o q) = Len(p) + Len(q)
      /\ \A i \in 1..Len(p) : (p \o q)[i] = p[i]
      /\ \A i \in (Len(p) + 1)..(Len(p) + Len(q)) : (p \o q)[i] = q[i - Len(p)]
  BY ConcatProperties, LenProperties
<1>2. \A i \in 1..Len(q) : /\ Len(p) + i \in (Len(p) + 1)..(Len(p) + Len(q))
                           /\ (p \o q)[Len(p) + i] = q[i]
  BY <1>1
<1>3. ASSUME From(p \o q, c, m) PROVE From(p, c, m) /\ From(q, c, m + Len(p))
  <2>1. From(p, c, m)
    BY <1>1, <1>3 DEF From
  <2>2. \A i \in 1..Len(q) : q[i].s = c /\ q[i].n = m + (Len(p) + i)
    <3>1. \A j \in 1..(Len(p) + Len(q)) : (p \o q)[j].s = c /\ (p \o q)[j].n = m + j
      BY <1>1, <1>3 DEF From
    <3> TAKE i \in 1..Len(q)
    <3>2. Len(p) + i \in 1..(Len(p) + Len(q)) /\ (p \o q)[Len(p) + i] = q[i]
      BY <1>1, <1>2
    <3> QED BY <3>1, <3>2
  <2>3. \A i \in 1..Len(q) : m + (Len(p) + i) = (m + Len(p)) + i
    BY <1>1
  <2> QED BY <2>1, <2>2, <2>3 DEF From
<1>4. ASSUME From(p, c, m), From(q, c, m + Len(p)) PROVE From(p \o q, c, m)
  <2> SUFFICES ASSUME NEW i \in 1..(Len(p) + Len(q))
               PROVE  (p \o q)[i].s = c /\ (p \o q)[i].n = m + i
    BY <1>1 DEF From
  <2>1. CASE i <= Len(p)
    BY <1>1, <1>4, <2>1 DEF From
  <2>2. CASE i > Len(p)
    <3>1. i - Len(p) \in 1..Len(q) /\ (p \o q)[i] = q[i - Len(p)]
      BY <1>1, <2>2
    <3>2. q[i - Len(p)].s = c /\ q[i - Len(p)].n = m + Len(p) + (i - Len(p))
      BY <1>4, <3>1 DEF From
    <3> QED BY <1>1, <3>1, <3>2
  <2> QED BY <1>1, <2>1, <2>2
<1> QED BY <1>3, <1>4

(***************************************************************************)
(* A sequence cut in two.                                                  *)
(***************************************************************************)
LEMMA FromCut ==
  ASSUME NEW q \in Seq(Bytes), NEW k \in Nat, k <= Len(q)
  PROVE  /\ SubSeq(q, 1, k) \in Seq(Bytes) /\ Len(SubSeq(q, 1, k)) = k
         /\ SubSeq(q, k + 1, Len(q)) \in Seq(Bytes)
         /\ Len(SubSeq(q, k + 1, Len(q))) = Len(q) - k
         /\ \A i \in 1..k : SubSeq(q, 1, k)[i] = q[i]
         /\ \A i \in 1..(Len(q) - k) : SubSeq(q, k + 1, Len(q))[i] = q[k + i]
         /\ \A c, m : m \in Nat /\ From(q, c, m) =>
              From(SubSeq(q, 1, k), c, m) /\ From(SubSeq(q, k + 1, Len(q)), c, m + k)
<1>1. Len(q) \in Nat
  BY LenProperties
<1>2. SubSeq(q, 1, k) \in Seq(Bytes) /\ SubSeq(q, k + 1, Len(q)) \in Seq(Bytes)
  BY <1>1, CutTyped
<1>3. /\ Len(SubSeq(q, 1, k)) = k /\ \A i \in 1..k : SubSeq(q, 1, k)[i] = q[i]
  <2>1. \A i \in 1..k : q[i] \in Bytes
    BY <1>1, ElementOfSeq
  <2> QED BY <1>1, <2>1, SubSeqProperties
<1>4. /\ Len(SubSeq(q, k + 1, Len(q))) = Len(q) - k
      /\ \A i \in 1..(Len(q) - k) : SubSeq(q, k + 1, Len(q))[i] = q[k + i]
  <2>1. \A i \in (k + 1)..Len(q) : q[i] \in Bytes
    BY <1>1, ElementOfSeq
  <2> DEFINE rest == SubSeq(q, k + 1, Len(q))
  <2>2. /\ Len(rest) = IF k + 1 <= Len(q) THEN Len(q) - (k + 1) + 1 ELSE 0
        /\ \A i \in 1..(Len(q) - (k + 1) + 1) : rest[i] = q[(k + 1) + i - 1]
    BY <1>1, <2>1, SubSeqProperties
  <2> HIDE DEF rest
  <2>3. Len(rest) = Len(q) - k /\ \A i \in 1..(Len(q) - k) : rest[i] = q[k + i]
    BY <1>1, <2>2
  <2> QED BY <2>3 DEF rest
<1>5. ASSUME NEW c, NEW m \in Nat, From(q, c, m)
      PROVE  From(SubSeq(q, 1, k), c, m) /\ From(SubSeq(q, k + 1, Len(q)), c, m + k)
  <2>1. From(SubSeq(q, 1, k), c, m)
    BY <1>1, <1>3, <1>5 DEF From
  <2>2. \A i \in 1..(Len(q) - k) : q[k + i].s = c /\ q[k + i].n = m + (k + i)
    <3>1. \A j \in 1..Len(q) : q[j].s = c /\ q[j].n = m + j
      BY <1>5 DEF From
    <3> TAKE i \in 1..(Len(q) - k)
    <3>2. k + i \in 1..Len(q)
      BY <1>1
    <3> QED BY <3>1, <3>2
  <2>3. \A i \in 1..(Len(q) - k) : m + (k + i) = (m + k) + i
    BY <1>1
  <2> DEFINE rest == SubSeq(q, k + 1, Len(q))
  <2>4. /\ Len(rest) = Len(q) - k
        /\ \A i \in 1..(Len(q) - k) : rest[i] = q[k + i]
    BY <1>4
  <2> HIDE DEF rest
  <2>5. \A i \in 1..Len(rest) : rest[i].s = c /\ rest[i].n = (m + k) + i
    BY <2>2, <2>3, <2>4
  <2>6. From(rest, c, m + k)
    BY <2>5 DEF From
  <2> QED BY <2>1, <2>6 DEF rest
<1>6. \A c, m : m \in Nat /\ From(q, c, m) =>
        From(SubSeq(q, 1, k), c, m) /\ From(SubSeq(q, k + 1, Len(q)), c, m + k)
  BY <1>5
<1> QED BY <1>2, <1>3, <1>4, <1>6

(***************************************************************************)
(* Whose bytes are where: a peer's are on the way in its own connection,   *)
(* and in an object's buffer are those of the session it serves and of     *)
(* sessions that have ended.                                               *)
(***************************************************************************)
Mine(q, c) == \A i \in 1..Len(q) : q[i].s = c

Known(o) ==
  \A i \in 1..Len(buffer[o]) :
    \/ conn[buffer[o][i].s] = "closed"
    \/ \E f \in Fd : m_clients[f] = o /\ fdtab[f] = buffer[o][i].s

OriginInv ==
  /\ \A c \in Conn : Mine(rx[c], c) /\ Mine(tosend[c], c)
  /\ \A o \in Obj : Known(o)

LEMMA MineCut ==
  ASSUME NEW q \in Seq(Bytes), NEW k \in Nat, k <= Len(q), NEW c, Mine(q, c)
  PROVE  Mine(SubSeq(q, 1, k), c) /\ Mine(SubSeq(q, k + 1, Len(q)), c)
<1>1. Len(q) \in Nat
  BY LenProperties
<1>2. /\ Len(SubSeq(q, 1, k)) = k /\ Len(SubSeq(q, k + 1, Len(q))) = Len(q) - k
      /\ \A i \in 1..k : SubSeq(q, 1, k)[i] = q[i]
      /\ \A i \in 1..(Len(q) - k) : SubSeq(q, k + 1, Len(q))[i] = q[k + i]
  BY FromCut
<1>3. Mine(SubSeq(q, 1, k), c)
  BY <1>1, <1>2 DEF Mine
<1>4. \A i \in 1..(Len(q) - k) : k + i \in 1..Len(q)
  BY <1>1
<1>5. \A i \in 1..(Len(q) - k) : q[k + i].s = c
  BY <1>4 DEF Mine
<1>6. Mine(SubSeq(q, k + 1, Len(q)), c)
  BY <1>2, <1>5 DEF Mine
<1> QED BY <1>3, <1>6

LEMMA ConcatElements ==
  ASSUME NEW p \in Seq(Bytes), NEW q \in Seq(Bytes), NEW i \in 1..Len(p \o q)
  PROVE  \/ i \in 1..Len(p) /\ (p \o q)[i] = p[i]
         \/ \E j \in 1..Len(q) : (p \o q)[i] = q[j]
<1>1. /\ Len(p) \in Nat /\ Len(q) \in Nat /\ Len(p \o q) = Len(p) + Len(q)
      /\ \A j \in 1..Len(p) : (p \o q)[j] = p[j]
      /\ \A j \in (Len(p) + 1)..(Len(p) + Len(q)) : (p \o q)[j] = q[j - Len(p)]
  BY ConcatProperties, LenProperties
<1>2. CASE i <= Len(p)
  BY <1>1, <1>2
<1>3. CASE i > Len(p)
  <2>1. i - Len(p) \in 1..Len(q) /\ (p \o q)[i] = q[i - Len(p)]
    BY <1>1, <1>3
  <2> QED BY <2>1
<1> QED BY <1>1, <1>2, <1>3

(***************************************************************************)
(* A buffer that did not change, while connections only end and sessions   *)
(* end with theirs.                                                        *)
(***************************************************************************)
LEMMA KnownStays ==
  ASSUME IInv, NEW o \in Obj, Known(o), buffer'[o] = buffer[o],
         \A c \in Conn : conn[c] = "closed" => conn'[c] = "closed",
         \A f \in Fd : m_clients[f] = o =>
           \/ m_clients'[f] = o /\ fdtab'[f] = fdtab[f]
           \/ conn'[fdtab[f]] = "closed"
  PROVE  Known(o)'
<1> SUFFICES ASSUME NEW i \in 1..Len(buffer[o])
             PROVE  \/ conn'[buffer[o][i].s] = "closed"
                    \/ \E f \in Fd : m_clients'[f] = o /\ fdtab'[f] = buffer[o][i].s
  BY DEF Known
<1>1. buffer[o] \in Seq(Bytes)
  BY DEF IInv, TypeOK
<1>2. buffer[o][i].s \in Conn
  <2>1. buffer[o][i] \in Bytes
    BY <1>1, ElementOfSeq
  <2> QED BY <2>1 DEF Bytes
<1> QED BY <1>2 DEF Known

LEMMA OriginStep == ASSUME IInv, IInv', OriginInv, Step PROVE OriginInv'
<1>1. /\ rx \in [Conn -> Seq(Bytes)] /\ tosend \in [Conn -> Seq(Bytes)]
      /\ buffer \in [Obj -> Seq(Bytes)] /\ m_clients \in [Fd -> Obj \cup {NULL}]
      /\ fdtab \in [Fd -> Conn \cup {NoConn}]
      /\ conn \in [Conn -> {"none", "queued", "open", "closed"}]
  BY DEF IInv, KernelTypeOK, TypeOK
<1>2. /\ \A c \in Conn : Mine(rx[c], c) /\ Mine(tosend[c], c)
      /\ \A o \in Obj : Known(o)
  BY DEF OriginInv
<1>3. CASE Staying
  <2>1. UNCHANGED <<m_clients, fdtab, conn, tosend>>
    BY <1>3 DEF Staying
  <2>2. CASE UNCHANGED <<buffer, handled, rx>>
    <3>1. \A o \in Obj : Known(o)'
      BY <1>2, <2>1, <2>2 DEF Known
    <3> QED BY <1>2, <2>1, <2>2, <3>1 DEF OriginInv
  <2>3. ASSUME NEW f \in Fd, NEW k \in Nat, Takes(f, k) PROVE OriginInv'
    <3> DEFINE c == fdtab[f]
               o == m_clients[f]
               some == SubSeq(rx[c], 1, k)
    <3>1. /\ c \in Conn /\ o \in Obj /\ k <= Len(rx[c])
          /\ rx' = [rx EXCEPT ![c] = SubSeq(@, k + 1, Len(@))]
          /\ buffer' = [buffer EXCEPT ![o] = @ \o some]
      BY <2>3 DEF Takes
    <3>2. Mine(some, c) /\ Mine(SubSeq(rx[c], k + 1, Len(rx[c])), c) /\ some \in Seq(Bytes)
      BY <1>1, <1>2, <3>1, MineCut, FromCut
    <3>3. \A d \in Conn : Mine(rx'[d], d)
      BY <1>1, <1>2, <3>1, <3>2
    <3>4. ASSUME NEW p \in Obj PROVE Known(p)'
      <4>1. CASE p # o
        BY <1>1, <1>2, <2>1, <3>1, <4>1 DEF Known
      <4>2. CASE p = o
        <5>1. buffer'[o] = buffer[o] \o some /\ buffer[o] \in Seq(Bytes)
          BY <1>1, <3>1
        <5> SUFFICES ASSUME NEW i \in 1..Len(buffer[o] \o some)
                     PROVE  \/ conn[(buffer[o] \o some)[i].s] = "closed"
                            \/ \E g \in Fd : /\ m_clients[g] = o
                                             /\ fdtab[g] = (buffer[o] \o some)[i].s
          BY <2>1, <4>2, <5>1 DEF Known
        <5> HIDE DEF some
        <5>2. CASE i \in 1..Len(buffer[o]) /\ (buffer[o] \o some)[i] = buffer[o][i]
          BY <1>2, <3>1, <5>2 DEF Known
        <5>3. CASE \E j \in 1..Len(some) : (buffer[o] \o some)[i] = some[j]
          BY <3>2, <5>3 DEF Mine
        <5> QED BY <3>2, <5>1, <5>2, <5>3, ConcatElements
      <4> QED BY <4>1, <4>2
    <3> QED BY <1>2, <2>1, <3>3, <3>4 DEF OriginInv
  <2>4. ASSUME NEW f \in Fd, NEW k \in Nat, Handles(f, k) PROVE OriginInv'
    <3> DEFINE o == m_clients[f]
               rest == SubSeq(buffer[o], k + 1, Len(buffer[o]))
    <3>1. /\ o \in Obj /\ k <= Len(buffer[o]) /\ rx' = rx
          /\ \/ buffer' = buffer
             \/ buffer' = [buffer EXCEPT ![o] = rest]
      BY <2>4 DEF Handles
    <3>2. ASSUME NEW p \in Obj PROVE Known(p)'
      <4>1. CASE buffer'[p] = buffer[p]
        BY <1>2, <2>1, <4>1 DEF Known
      <4>2. CASE p = o /\ buffer'[o] = rest
        <5>1. /\ Len(rest) = Len(buffer[o]) - k /\ Len(buffer[o]) \in Nat
              /\ \A i \in 1..(Len(buffer[o]) - k) : rest[i] = buffer[o][k + i]
          BY <1>1, <3>1, FromCut, LenProperties
        <5> HIDE DEF rest
        <5>2. \A i \in 1..Len(rest) : k + i \in 1..Len(buffer[o])
          BY <5>1
        <5>3. \A i \in 1..Len(rest) :
                \/ conn[rest[i].s] = "closed"
                \/ \E g \in Fd : m_clients[g] = o /\ fdtab[g] = rest[i].s
          <6> TAKE i \in 1..Len(rest)
          <6>1. rest[i] = buffer[o][k + i] /\ k + i \in 1..Len(buffer[o])
            BY <5>1, <5>2
          <6> QED BY <1>2, <3>1, <6>1 DEF Known
        <5> QED BY <2>1, <4>2, <5>3 DEF Known
      <4> QED BY <1>1, <3>1, <4>1, <4>2
    <3> QED BY <1>2, <2>1, <3>1, <3>2 DEF OriginInv
  <2> QED BY <1>3, <2>2, <2>3, <2>4 DEF Staying
<1>4. ASSUME NEW f \in Fd, Ends(f) PROVE OriginInv'
  <2>1. EndSession(f) /\ m_clients[f] # NULL
    BY <1>4 DEF Ends
  <2>2. fdtab[f] \in Conn
    BY <1>1, <2>1 DEF IInv, ClientTable
  <2>3. /\ conn' = [conn EXCEPT ![fdtab[f]] = "closed"]
        /\ tosend' = [tosend EXCEPT ![fdtab[f]] = <<>>]
        /\ rx' = [rx EXCEPT ![fdtab[f]] = <<>>] /\ buffer' = buffer
        /\ m_clients' = [m_clients EXCEPT ![f] = NULL]
        /\ fdtab' = [fdtab EXCEPT ![f] = NoConn]
    BY <2>1 DEF EndSession, CloseSocket, FreeClient
  <2>4. \A c \in Conn : Mine(rx'[c], c) /\ Mine(tosend'[c], c)
    <3>1. \A c \in Conn : rx'[c] \in {rx[c], <<>>} /\ tosend'[c] \in {tosend[c], <<>>}
      BY <1>1, <2>3
    <3> QED BY <1>2, <3>1 DEF Mine
  <2>5. \A c \in Conn : conn[c] = "closed" => conn'[c] = "closed"
    BY <1>1, <2>3
  <2>6. \A g \in Fd : \/ m_clients'[g] = m_clients[g] /\ fdtab'[g] = fdtab[g]
                      \/ conn'[fdtab[g]] = "closed"
    BY <1>1, <2>2, <2>3
  <2>7. \A o \in Obj : Known(o)'
    BY <1>2, <2>3, <2>5, <2>6, KnownStays
  <2> QED BY <2>4, <2>7 DEF OriginInv
<1>5. CASE Admits
  <2>1. PICK f \in Fd, o \in Obj, added \in BOOLEAN :
          /\ Accept(f, added) /\ AllocateClient(o, f)
          /\ m_clients' = [m_clients EXCEPT ![f] = o]
          /\ backlog # <<>>
    BY <1>5 DEF Admits
  <2>2. m_clients[f] = NULL /\ \A g \in Fd : g # f => /\ m_clients'[g] = m_clients[g]
                                                       /\ fdtab'[g] = fdtab[g]
    BY <2>1, AcceptKeeps
  <2>3. Head(backlog) = backlog[1] /\ 1 \in 1..Len(backlog) /\ Head(backlog) \in Conn
    BY <2>1, TailElements DEF IInv, KernelTypeOK
  <2>4. conn[Head(backlog)] = "queued"
    BY <2>3 DEF IInv, BacklogOK
  <2>5. UNCHANGED <<rx, tosend>>
        /\ conn' = [conn EXCEPT ![Head(backlog)] = "open"]
    BY <2>1 DEF Accept
  <2>6. \A c \in Conn : conn[c] = "closed" => conn'[c] = "closed"
    BY <1>1, <2>4, <2>5
  <2>7. \A p \in Obj : buffer'[p] \in {buffer[p], <<>>}
    BY <1>1, <2>1 DEF AllocateClient
  <2>8. ASSUME NEW p \in Obj PROVE Known(p)'
    <3>1. CASE buffer'[p] = buffer[p]
      <4>1. \A g \in Fd : m_clients[g] = p => m_clients'[g] = p /\ fdtab'[g] = fdtab[g]
        BY <2>2, ServerAssumption
      <4> QED BY <1>2, <2>6, <3>1, <4>1, KnownStays
    <3>2. CASE buffer'[p] = <<>>
      BY <3>2 DEF Known
    <3> QED BY <2>7, <3>1, <3>2
  <2> QED BY <1>2, <2>5, <2>8 DEF OriginInv
<1>6. CASE CloseServer
  <2>1. /\ UNCHANGED <<m_clients, fdtab, buffer>>
        /\ \A c \in Conn : conn[c] = "closed" => conn'[c] = "closed"
        /\ \A c \in Conn : rx'[c] \in {rx[c], <<>>} /\ tosend'[c] \in {tosend[c], <<>>}
    BY <1>6 DEF CloseServer, CloseListener, poolVars
  <2>2. \A o \in Obj : Known(o)'
    BY <1>2, <2>1, KnownStays
  <2>3. \A c \in Conn : Mine(rx'[c], c) /\ Mine(tosend'[c], c)
    BY <1>2, <2>1 DEF Mine
  <2> QED BY <2>2, <2>3 DEF OriginInv
<1>7. CASE Destroy \/ UNCHANGED vars
  <2>1. UNCHANGED <<m_clients, fdtab, buffer, conn, rx, tosend>>
    BY <1>7 DEF Destroy, vars, kernelVars, serverVars
  <2>2. \A o \in Obj : Known(o)'
    BY <1>2, <2>1, KnownStays
  <2> QED BY <1>2, <2>1, <2>2 DEF OriginInv
<1>8. CASE World
  <2>1. /\ UNCHANGED <<m_clients, fdtab, buffer>>
        /\ \A c \in Conn : conn[c] = "closed" => conn'[c] = "closed"
    BY <1>1, <1>8 DEF World, KernelNext, serverVars, Connect, PeerSend, PeerClose, PeerReset, Tick
  <2>2. \A o \in Obj : Known(o)'
    BY <1>2, <2>1, KnownStays
  <2>3. ASSUME NEW c \in Conn, Connect(c) PROVE OriginInv'
    <3>1. PICK script \in Scripts : tosend' = [tosend EXCEPT ![c] = Stream(c, script)]
      BY <2>3 DEF Connect
    <3>2. Len(Stream(c, script)) \in Nat /\ Mine(Stream(c, script), c)
      <4>1. Len(script) \in Nat
        BY LenProperties, ServerAssumption
      <4> QED BY <4>1 DEF Stream, Mine
    <3>3. \A d \in Conn : Mine(rx'[d], d) /\ Mine(tosend'[d], d)
      BY <1>1, <1>2, <2>3, <3>1, <3>2 DEF Connect
    <3> QED BY <2>2, <3>3 DEF OriginInv
  <2>4. ASSUME NEW c \in Conn, PeerSend(c) PROVE OriginInv'
    <3>1. PICK k \in 1..Len(tosend[c]) :
            /\ rx' = [rx EXCEPT ![c] = @ \o SubSeq(tosend[c], 1, k)]
            /\ tosend' = [tosend EXCEPT ![c] = SubSeq(@, k + 1, Len(@))]
      BY <2>4 DEF PeerSend
    <3> DEFINE some == SubSeq(tosend[c], 1, k)
    <3>2. k \in Nat /\ k <= Len(tosend[c]) /\ tosend[c] \in Seq(Bytes) /\ rx[c] \in Seq(Bytes)
      BY <1>1, LenProperties
    <3>3. /\ Mine(some, c) /\ some \in Seq(Bytes)
          /\ Mine(SubSeq(tosend[c], k + 1, Len(tosend[c])), c)
      BY <1>2, <3>2, MineCut, FromCut
    <3> HIDE DEF some
    <3>4. Mine(rx[c] \o some, c)
      <4> SUFFICES ASSUME NEW i \in 1..Len(rx[c] \o some) PROVE (rx[c] \o some)[i].s = c
        BY DEF Mine
      <4>1. \/ i \in 1..Len(rx[c]) /\ (rx[c] \o some)[i] = rx[c][i]
            \/ \E j \in 1..Len(some) : (rx[c] \o some)[i] = some[j]
        BY <3>2, <3>3, ConcatElements
      <4> QED BY <1>2, <3>3, <4>1 DEF Mine
    <3>5. \A d \in Conn : Mine(rx'[d], d) /\ Mine(tosend'[d], d)
      BY <1>1, <1>2, <3>1, <3>3, <3>4 DEF some
    <3> QED BY <2>2, <3>5 DEF OriginInv
  <2>5. ASSUME UNCHANGED <<rx, tosend>> PROVE OriginInv'
    BY <1>2, <2>2, <2>5 DEF OriginInv
  <2> QED BY <1>8, <2>3, <2>4, <2>5 DEF World, KernelNext, PeerClose, PeerReset, Tick
<1> QED BY <1>3, <1>4, <1>5, <1>6, <1>7, <1>8 DEF Step

LEMMA OriginInit == Init => OriginInv
BY DEF Init, KernelInit, ServerInit, OriginInv, Mine, Known

LEMMA NoneAcross == ASSUME IInv, OriginInv PROVE NoCrossTalk
<1> SUFFICES ASSUME NEW f \in Fd, m_clients[f] # NULL,
                    NEW i \in DOMAIN buffer[m_clients[f]]
             PROVE  \/ buffer[m_clients[f]][i].s = fdtab[f]
                    \/ conn[buffer[m_clients[f]][i].s] = "closed"
  BY DEF NoCrossTalk
<1>1. m_clients[f] \in Obj /\ i \in 1..Len(buffer[m_clients[f]])
  BY LenProperties DEF IInv, TypeOK
<1>2. \A g \in Fd : m_clients[g] = m_clients[f] => g = f
  BY DEF IInv, PoolDiscipline
<1> QED BY <1>1, <1>2 DEF OriginInv, Known

(***************************************************************************)
(* A session's buffer never holds bytes of another session that is open.   *)
(***************************************************************************)
THEOREM NoBytesAcross == Spec => []NoCrossTalk
<1>1. IInv /\ OriginInv => NoCrossTalk
  BY NoneAcross
<1>2. IInv /\ OriginInv /\ [Next]_vars => OriginInv'
  BY NextIInv, LinuxSteps, OriginStep
<1> QED BY <1>1, <1>2, OriginInit, Invariance, PTL DEF Spec

(***************************************************************************)
(* h, b, r and t are, one behind the other, all that the peer of c sends.  *)
(***************************************************************************)
Chain(h, b, r, t, c) ==
  /\ From(h, c, 0) /\ From(b, c, Len(h)) /\ From(r, c, Len(h) + Len(b))
  /\ From(t, c, Len(h) + Len(b) + Len(r))

Lawful(f) ==
  m_clients[f] # NULL /\ clean[m_clients[f]] /\ ~client[m_clients[f]].bDisconnect

Flow(f) ==
  LET o == m_clients[f]
      c == fdtab[f]
  IN  Chain(handled[o], buffer[o], rx[c], tosend[c], c)

(***************************************************************************)
(* Nothing of a connection is lost or moved before it is accepted, ...     *)
(***************************************************************************)
Chains ==
  /\ \A c \in Conn : conn[c] = "none" => rx[c] = <<>>
  /\ \A c \in Conn : conn[c] = "queued" => Chain(<<>>, <<>>, rx[c], tosend[c], c)

(***************************************************************************)
(* ... and nothing of a session that began with an empty buffer until it   *)
(* is marked for disconnection.                                            *)
(***************************************************************************)
StreamInv == Chains /\ \A f \in Fd : Lawful(f) => Flow(f)

(***************************************************************************)
(* The first k elements of q move behind p.                                *)
(***************************************************************************)
LEMMA MoveChunk ==
  ASSUME NEW p \in Seq(Bytes), NEW q \in Seq(Bytes), NEW k \in Nat, k <= Len(q),
         NEW c, NEW m \in Nat, From(p, c, m), From(q, c, m + Len(p))
  PROVE  LET p1 == p \o SubSeq(q, 1, k)
             q1 == SubSeq(q, k + 1, Len(q))
         IN  /\ From(p1, c, m) /\ From(q1, c, m + Len(p1))
             /\ Len(p1) + Len(q1) = Len(p) + Len(q)
             /\ Len(p1) \in Nat /\ Len(q1) \in Nat
<1> DEFINE some == SubSeq(q, 1, k)
           p1 == p \o some
           q1 == SubSeq(q, k + 1, Len(q))
<1>1. Len(p) \in Nat /\ Len(q) \in Nat
  BY LenProperties
<1>2. /\ some \in Seq(Bytes) /\ Len(some) = k
      /\ q1 \in Seq(Bytes) /\ Len(q1) = Len(q) - k
  BY <1>1, FromCut
<1>3. From(some, c, m + Len(p)) /\ From(q1, c, (m + Len(p)) + k)
  <2>1. m + Len(p) \in Nat
    BY <1>1
  <2> QED BY <2>1, FromCut
<1> HIDE DEF some, q1
<1>4. Len(p1) = Len(p) + k
  BY <1>2, ConcatProperties
<1>5. From(p1, c, m)
  <2>1. From(p \o some, c, m) <=> From(p, c, m) /\ From(some, c, m + Len(p))
    BY <1>2, FromConcat
  <2> QED BY <1>3, <2>1
<1> HIDE DEF p1
<1>6. (m + Len(p)) + k = m + Len(p1)
  BY <1>1, <1>4
<1>7. From(q1, c, m + Len(p1))
  BY <1>3, <1>6
<1>8. Len(p1) + Len(q1) = Len(p) + Len(q) /\ Len(p1) \in Nat /\ Len(q1) \in Nat
  BY <1>1, <1>2, <1>4
<1> QED BY <1>5, <1>7, <1>8 DEF p1, q1, some


LEMMA ChainTakes ==
  ASSUME NEW h \in Seq(Bytes), NEW b \in Seq(Bytes), NEW r \in Seq(Bytes), NEW t, NEW c,
         NEW k \in Nat, k <= Len(r), Chain(h, b, r, t, c)
  PROVE  Chain(h, b \o SubSeq(r, 1, k), SubSeq(r, k + 1, Len(r)), t, c)
<1> DEFINE b1 == b \o SubSeq(r, 1, k)
           r1 == SubSeq(r, k + 1, Len(r))
<1>1. Len(h) \in Nat /\ Len(b) \in Nat /\ Len(r) \in Nat
  BY LenProperties
<1>2. /\ From(b1, c, Len(h)) /\ From(r1, c, Len(h) + Len(b1))
      /\ Len(b1) + Len(r1) = Len(b) + Len(r) /\ Len(b1) \in Nat /\ Len(r1) \in Nat
  BY <1>1, MoveChunk DEF Chain
<1> HIDE DEF b1, r1
<1>3. Len(h) + Len(b1) + Len(r1) = Len(h) + Len(b) + Len(r)
  BY <1>1, <1>2
<1>4. Chain(h, b1, r1, t, c)
  BY <1>2, <1>3 DEF Chain
<1> QED BY <1>4 DEF b1, r1

LEMMA ChainHandles ==
  ASSUME NEW h \in Seq(Bytes), NEW b \in Seq(Bytes), NEW r \in Seq(Bytes), NEW t, NEW c,
         NEW k \in Nat, k <= Len(b), Chain(h, b, r, t, c)
  PROVE  Chain(h \o SubSeq(b, 1, k), SubSeq(b, k + 1, Len(b)), r, t, c)
<1> DEFINE h1 == h \o SubSeq(b, 1, k)
           b1 == SubSeq(b, k + 1, Len(b))
<1>1. Len(h) \in Nat /\ Len(b) \in Nat /\ Len(r) \in Nat
  BY LenProperties
<1>2. From(h, c, 0) /\ From(b, c, 0 + Len(h))
  <2>1. 0 + Len(h) = Len(h)
    BY <1>1
  <2> QED BY <2>1 DEF Chain
<1>3. /\ From(h1, c, 0) /\ From(b1, c, 0 + Len(h1))
      /\ Len(h1) + Len(b1) = Len(h) + Len(b) /\ Len(h1) \in Nat /\ Len(b1) \in Nat
  BY <1>2, MoveChunk
<1> HIDE DEF h1, b1
<1>4. 0 + Len(h1) = Len(h1)
  BY <1>3
<1>5. Chain(h1, b1, r, t, c)
  BY <1>3, <1>4 DEF Chain
<1> QED BY <1>5 DEF h1, b1

LEMMA ChainSends ==
  ASSUME NEW h \in Seq(Bytes), NEW b \in Seq(Bytes), NEW r \in Seq(Bytes),
         NEW t \in Seq(Bytes), NEW c,
         NEW k \in Nat, k <= Len(t), Chain(h, b, r, t, c)
  PROVE  Chain(h, b, r \o SubSeq(t, 1, k), SubSeq(t, k + 1, Len(t)), c)
<1> DEFINE r1 == r \o SubSeq(t, 1, k)
           t1 == SubSeq(t, k + 1, Len(t))
<1>1. Len(h) \in Nat /\ Len(b) \in Nat /\ Len(r) \in Nat
  BY LenProperties
<1>2. Len(h) + Len(b) \in Nat
  BY <1>1
<1>3. /\ From(r1, c, Len(h) + Len(b)) /\ From(t1, c, (Len(h) + Len(b)) + Len(r1))
  BY <1>2, MoveChunk DEF Chain
<1> HIDE DEF r1, t1
<1>4. Chain(h, b, r1, t1, c)
  BY <1>3 DEF Chain
<1> QED BY <1>4 DEF r1, t1

-----------------------------------------------------------------------------
(* What a step does to the streams, on either platform *)

(***************************************************************************)
(* The step leaves the sessions of F in their place and their streams in   *)
(* order.                                                                  *)
(***************************************************************************)
FlowsOn(F) ==
  /\ Chains'
  /\ \A f \in F : /\ m_clients'[f] = m_clients[f]
                  /\ m_clients[f] # NULL /\ Flow(f) => Flow(f)'

LEMMA FlowStays ==
  ASSUME NEW f \in Fd, Flow(f), m_clients'[f] = m_clients[f] /\ fdtab'[f] = fdtab[f],
         handled'[m_clients[f]] = handled[m_clients[f]],
         buffer'[m_clients[f]] = buffer[m_clients[f]],
         rx'[fdtab[f]] = rx[fdtab[f]] /\ tosend'[fdtab[f]] = tosend[fdtab[f]]
  PROVE  Flow(f)'
BY DEF Flow

LEMMA QuietFlows ==
  ASSUME Chains, UNCHANGED <<m_clients, fdtab, conn, rx, tosend, buffer, handled>>
  PROVE  FlowsOn(Fd)
BY FlowStays DEF FlowsOn, Chains

LEMMA TakesFlows ==
  ASSUME IInv, Chains, NEW f \in Fd, NEW k \in Nat, Takes(f, k), m_clients[f] # NULL,
         UNCHANGED <<m_clients, fdtab, conn, tosend>>
  PROVE  FlowsOn(Fd)
<1> DEFINE c == fdtab[f]
           o == m_clients[f]
<1>1. /\ c \in Conn /\ o \in Obj /\ k <= Len(rx[c])
      /\ rx' = [rx EXCEPT ![c] = SubSeq(@, k + 1, Len(@))]
      /\ buffer' = [buffer EXCEPT ![o] = @ \o SubSeq(rx[c], 1, k)]
      /\ handled' = handled
  BY DEF Takes
<1>2. conn[c] = "open"
  BY Serves
<1>3. \A d \in Conn : d # c => rx'[d] = rx[d]
  BY <1>1, ConnTyped
<1>4. \A p \in Obj : p # o => buffer'[p] = buffer[p]
  BY <1>1, ObjTyped
<1>5. ASSUME Flow(f) PROVE Flow(f)'
  <2>1. Chain(handled[o], buffer[o], rx[c], tosend[c], c)
    BY <1>5 DEF Flow
  <2>2. handled[o] \in Seq(Bytes) /\ buffer[o] \in Seq(Bytes) /\ rx[c] \in Seq(Bytes)
    BY <1>1, ObjTyped, ConnTyped
  <2>3. Chain(handled[o], buffer[o] \o SubSeq(rx[c], 1, k), SubSeq(rx[c], k + 1, Len(rx[c])),
              tosend[c], c)
    BY <1>1, <2>1, <2>2, ChainTakes
  <2>4. /\ buffer'[o] = buffer[o] \o SubSeq(rx[c], 1, k)
        /\ rx'[c] = SubSeq(rx[c], k + 1, Len(rx[c]))
    BY <1>1, ObjTyped, ConnTyped
  <2> QED BY <1>1, <2>3, <2>4 DEF Flow
<1>6. ASSUME NEW g \in Fd, g # f, m_clients[g] # NULL, Flow(g) PROVE Flow(g)'
  <2>1. m_clients[g] # o /\ fdtab[g] # c /\ m_clients[g] \in Obj /\ fdtab[g] \in Conn
    BY <1>6, Apart, Serves
  <2> HIDE DEF c, o
  <2> QED BY <1>1, <1>3, <1>4, <1>6, <2>1, FlowStays
<1>7. Chains'
  BY <1>2, <1>3 DEF Chains
<1> QED BY <1>5, <1>6, <1>7 DEF FlowsOn

(***************************************************************************)
(* A packet is handled and leaves the buffer.                              *)
(***************************************************************************)
LEMMA HandlesFlows ==
  ASSUME IInv, Chains, NEW f \in Fd, NEW k \in Nat, Handles(f, k), m_clients[f] # NULL,
         UNCHANGED <<m_clients, fdtab, conn, tosend>>
  PROVE  /\ FlowsOn(Fd \ {f})
         /\ Flow(f) /\ ~client[m_clients[f]].bDisconnect => Flow(f)'
<1> DEFINE c == fdtab[f]
           o == m_clients[f]
<1>1. /\ o \in Obj /\ k <= Len(buffer[o])
      /\ handled' = [handled EXCEPT ![o] = @ \o SubSeq(buffer[o], 1, k)]
      /\ \/ client[o].bDisconnect /\ UNCHANGED buffer
         \/ buffer' = [buffer EXCEPT ![o] = SubSeq(buffer[o], k + 1, Len(buffer[o]))]
      /\ rx' = rx
  BY DEF Handles
<1>2. c \in Conn
  BY Serves
<1>3. \A p \in Obj : p # o => buffer'[p] = buffer[p] /\ handled'[p] = handled[p]
  BY <1>1, ObjTyped
<1>4. ASSUME Flow(f), ~client[o].bDisconnect PROVE Flow(f)'
  <2>1. Chain(handled[o], buffer[o], rx[c], tosend[c], c)
    BY <1>4 DEF Flow
  <2>2. handled[o] \in Seq(Bytes) /\ buffer[o] \in Seq(Bytes) /\ rx[c] \in Seq(Bytes)
    BY <1>1, <1>2, ObjTyped, ConnTyped
  <2>3. Chain(handled[o] \o SubSeq(buffer[o], 1, k), SubSeq(buffer[o], k + 1, Len(buffer[o])),
              rx[c], tosend[c], c)
    BY <1>1, <2>1, <2>2, ChainHandles
  <2>4. /\ handled'[o] = handled[o] \o SubSeq(buffer[o], 1, k)
        /\ buffer'[o] = SubSeq(buffer[o], k + 1, Len(buffer[o]))
    BY <1>1, <1>4, ObjTyped
  <2> QED BY <1>1, <2>3, <2>4 DEF Flow
<1>5. ASSUME NEW g \in Fd, g # f, m_clients[g] # NULL, Flow(g) PROVE Flow(g)'
  <2>1. m_clients[g] # o /\ m_clients[g] \in Obj
    BY <1>5, Apart, Serves
  <2> HIDE DEF c, o
  <2> QED BY <1>1, <1>3, <1>5, <2>1, FlowStays
<1> QED BY <1>1, <1>4, <1>5 DEF FlowsOn, Chains

LEMMA EndSessionFlows ==
  ASSUME IInv, Chains, NEW f \in Fd, m_clients[f] # NULL, EndSession(f)
  PROVE  /\ FlowsOn(Fd \ {f}) /\ m_clients'[f] = NULL
         /\ UNCHANGED <<clean, client>>
<1> DEFINE c == fdtab[f]
<1>1. c \in Conn
  BY Serves
<1>2. /\ conn' = [conn EXCEPT ![c] = "closed"]
      /\ tosend' = [tosend EXCEPT ![c] = <<>>]
      /\ rx' = [rx EXCEPT ![c] = <<>>]
      /\ m_clients' = [m_clients EXCEPT ![f] = NULL]
      /\ fdtab' = [fdtab EXCEPT ![f] = NoConn]
      /\ UNCHANGED <<buffer, handled, clean, client>>
  BY DEF EndSession, CloseSocket, FreeClient
<1>3. /\ \A d \in Conn : d # c =>
           rx'[d] = rx[d] /\ tosend'[d] = tosend[d] /\ conn'[d] = conn[d]
      /\ conn'[c] = "closed"
      /\ \A g \in Fd : g # f => m_clients'[g] = m_clients[g] /\ fdtab'[g] = fdtab[g]
      /\ m_clients'[f] = NULL
  BY <1>1, <1>2, ConnTyped, ObjTyped
<1>4. ASSUME NEW g \in Fd, g # f, m_clients[g] # NULL, Flow(g) PROVE Flow(g)'
  <2>1. fdtab[g] # c /\ fdtab[g] \in Conn
    BY <1>4, Apart, Serves
  <2> HIDE DEF c
  <2> QED BY <1>2, <1>3, <1>4, <2>1, FlowStays
<1> HIDE DEF c
<1>5. Chains'
  <2>1. \A d \in Conn : conn'[d] \in {"none", "queued"} =>
          rx'[d] = rx[d] /\ tosend'[d] = tosend[d] /\ conn'[d] = conn[d]
    BY <1>3
  <2> QED BY <2>1 DEF Chains
<1> QED BY <1>2, <1>3, <1>4, <1>5 DEF FlowsOn

LEMMA AcceptFlows ==
  ASSUME IInv, Chains, NEW f \in Fd, NEW o \in Obj, NEW added \in BOOLEAN,
         backlog # <<>>, Accept(f, added), AllocateClient(o, f),
         m_clients' = [m_clients EXCEPT ![f] = o]
  PROVE  /\ FlowsOn(Fd \ {f}) /\ m_clients'[f] = o
         /\ clean'[o] => Flow(f)'
         /\ \A g \in Fd : g # f /\ m_clients[g] # NULL =>
              /\ clean'[m_clients[g]] = clean[m_clients[g]]
              /\ client'[m_clients[g]] = client[m_clients[g]]
<1> DEFINE c == Head(backlog)
<1>1. m_clients[f] = NULL /\ \A g \in Fd : g # f => /\ m_clients'[g] = m_clients[g]
                                                     /\ fdtab'[g] = fdtab[g]
  BY AcceptKeeps
<1>2. c \in Conn /\ conn[c] = "queued"
  <2>1. c = backlog[1] /\ 1 \in 1..Len(backlog) /\ c \in Conn
    BY TailElements DEF IInv, KernelTypeOK
  <2> QED BY <2>1 DEF IInv, BacklogOK
<1>3. /\ UNCHANGED <<rx, tosend>>
      /\ conn' = [conn EXCEPT ![c] = "open"] /\ fdtab' = [fdtab EXCEPT ![f] = c]
  BY DEF Accept
<1>4. /\ conn'[c] = "open" /\ fdtab'[f] = c /\ m_clients'[f] = o
      /\ \A d \in Conn : d # c => conn'[d] = conn[d]
  BY <1>2, <1>3, ConnTyped, ObjTyped
<1>5. /\ handled' = [handled EXCEPT ![o] = <<>>]
      /\ clean' = [clean EXCEPT ![o] = buffer'[o] = <<>>]
      /\ client' = [client EXCEPT ![o] = InitClient(@, f)]
      /\ buffer' = buffer \/ buffer' = [buffer EXCEPT ![o] = <<>>]
  BY DEF AllocateClient
<1>6. ASSUME NEW p \in Obj, p # o
      PROVE  /\ handled'[p] = handled[p] /\ clean'[p] = clean[p]
             /\ client'[p] = client[p] /\ buffer'[p] = buffer[p]
  BY <1>5, <1>6 DEF IInv, TypeOK
<1> HIDE DEF c
<1>7. ASSUME clean'[o] PROVE Flow(f)'
  <2>1. handled'[o] = <<>>
    BY <1>5, ObjTyped
  <2>2. clean'[o] = (buffer'[o] = <<>>)
    BY <1>5 DEF IInv, TypeOK
  <2>3. buffer'[o] = <<>>
    BY <1>7, <2>2
  <2>4. Chain(<<>>, <<>>, rx[c], tosend[c], c)
    BY <1>2 DEF Chains
  <2> QED BY <1>3, <1>4, <2>1, <2>3, <2>4 DEF Flow
<1>8. \A g \in Fd : g # f /\ m_clients[g] # NULL => m_clients[g] # o /\ m_clients[g] \in Obj
  <2>1. o \notin Live
    BY AllocateClientFresh
  <2> QED BY <2>1, Serves DEF Live
<1>9. ASSUME NEW g \in Fd, g # f, m_clients[g] # NULL, Flow(g) PROVE Flow(g)'
  BY <1>1, <1>3, <1>6, <1>8, <1>9, FlowStays
<1>10. Chains'
  <2>1. \A d \in Conn : conn'[d] \in {"none", "queued"} => conn'[d] = conn[d]
    BY <1>4
  <2> QED BY <1>3, <2>1 DEF Chains
<1> QED BY <1>1, <1>4, <1>6, <1>7, <1>8, <1>9, <1>10 DEF FlowsOn

LEMMA WorldFlows ==
  ASSUME IInv, Chains, World
  PROVE  FlowsOn(Fd) /\ UNCHANGED <<m_clients, clean, client, events, pc>>
<1>1. UNCHANGED <<m_clients, fdtab, buffer, handled, clean, client, events, pc>>
  BY DEF World, KernelNext, serverVars, Connect, PeerSend, PeerClose, PeerReset, Tick
<1>2. /\ \A d \in Conn : conn[d] = "none" => rx[d] = <<>>
      /\ \A d \in Conn : conn[d] = "queued" => Chain(<<>>, <<>>, rx[d], tosend[d], d)
  BY DEF Chains
<1>3. ASSUME NEW c \in Conn, Connect(c) PROVE FlowsOn(Fd)
  <2>1. PICK script \in Scripts : tosend' = [tosend EXCEPT ![c] = Stream(c, script)]
    BY <1>3 DEF Connect
  <2>2. /\ rx' = rx /\ conn[c] = "none" /\ conn' = [conn EXCEPT ![c] = "queued"]
    BY <1>3 DEF Connect
  <2>3. /\ \A d \in Conn : d # c => conn'[d] = conn[d] /\ tosend'[d] = tosend[d]
        /\ tosend'[c] = Stream(c, script) /\ conn'[c] = "queued"
    BY <2>1, <2>2, ConnTyped
  <2>4. Chain(<<>>, <<>>, rx'[c], tosend'[c], c)
    <3>1. rx'[c] = <<>>
      BY <1>2, <2>2
    <3>2. Len(script) \in Nat
      BY LenProperties, ServerAssumption
    <3>3. From(Stream(c, script), c, 0)
      BY <3>2 DEF Stream, From
    <3> QED BY <2>3, <3>1, <3>3 DEF Chain, From
  <2>5. ASSUME NEW g \in Fd, m_clients[g] # NULL, Flow(g) PROVE Flow(g)'
    <3>1. fdtab[g] # c /\ fdtab[g] \in Conn
      BY <2>2, <2>5, Serves
    <3> QED BY <1>1, <2>2, <2>3, <2>5, <3>1, FlowStays
  <2> QED BY <1>1, <1>2, <2>2, <2>3, <2>4, <2>5 DEF FlowsOn, Chains
<1>4. ASSUME NEW c \in Conn, PeerSend(c) PROVE FlowsOn(Fd)
  <2>1. PICK k \in 1..Len(tosend[c]) :
          /\ rx' = [rx EXCEPT ![c] = @ \o SubSeq(tosend[c], 1, k)]
          /\ tosend' = [tosend EXCEPT ![c] = SubSeq(@, k + 1, Len(@))]
    BY <1>4 DEF PeerSend
  <2>2. k \in Nat /\ k <= Len(tosend[c]) /\ tosend[c] \in Seq(Bytes) /\ rx[c] \in Seq(Bytes)
    BY LenProperties, ConnTyped
  <2>3. conn' = conn /\ conn[c] \in {"queued", "open"}
    BY <1>4 DEF PeerSend, Connected
  <2>4. /\ rx'[c] = rx[c] \o SubSeq(tosend[c], 1, k)
        /\ tosend'[c] = SubSeq(tosend[c], k + 1, Len(tosend[c]))
        /\ \A d \in Conn : d # c => rx'[d] = rx[d] /\ tosend'[d] = tosend[d]
    BY <2>1, ConnTyped
  <2>5. ASSUME NEW h \in Seq(Bytes), NEW b \in Seq(Bytes), Chain(h, b, rx[c], tosend[c], c)
        PROVE  Chain(h, b, rx'[c], tosend'[c], c)
    BY <2>2, <2>4, <2>5, ChainSends
  <2>6. ASSUME NEW g \in Fd, m_clients[g] # NULL, Flow(g) PROVE Flow(g)'
    <3>1. fdtab[g] \in Conn
      BY <2>6, Serves
    <3>2. CASE fdtab[g] = c
      <4>1. handled[m_clients[g]] \in Seq(Bytes) /\ buffer[m_clients[g]] \in Seq(Bytes)
        BY <2>6, ObjTyped, Serves
      <4> QED BY <1>1, <2>5, <2>6, <3>2, <4>1 DEF Flow
    <3>3. CASE fdtab[g] # c
      BY <1>1, <2>4, <2>6, <3>1, <3>3, FlowStays
    <3> QED BY <3>2, <3>3
  <2>7. <<>> \in Seq(Bytes)
    BY EmptySeq
  <2>8. \A d \in Conn : conn'[d] = "queued" => Chain(<<>>, <<>>, rx'[d], tosend'[d], d)
    BY <1>2, <2>3, <2>4, <2>5, <2>7
  <2> QED BY <1>1, <1>2, <2>3, <2>4, <2>6, <2>8 DEF FlowsOn, Chains
<1>5. CASE UNCHANGED <<conn, rx, tosend>>
  BY <1>1, <1>5, QuietFlows
<1> QED
  BY <1>1, <1>3, <1>4, <1>5 DEF World, KernelNext, PeerClose, PeerReset, Tick

LEMMA CloseServerFlows ==
  ASSUME Chains, CloseServer
  PROVE  Chains' /\ \A f \in Fd : m_clients'[f] = NULL
<1>1. \A f \in Fd : m_clients'[f] = NULL
  BY DEF CloseServer, poolVars
<1>2. \A c \in Conn : /\ conn'[c] # "queued"
                      /\ conn'[c] = "none" => conn[c] = "none" /\ rx'[c] = rx[c]
  BY DEF CloseServer, CloseListener
<1> QED BY <1>1, <1>2 DEF Chains

(***************************************************************************)
(* What ByteStream says of a session.                                      *)
(***************************************************************************)
InOrder(f) ==
  LET o == m_clients[f]
      c == fdtab[f]
      stream == handled[o] \o buffer[o] \o rx[c] \o tosend[c]
  IN  \A i \in DOMAIN stream : stream[i].s = c /\ stream[i].n = i

LEMMA FlowInOrder ==
  ASSUME IInv, NEW f \in Fd, m_clients[f] # NULL, Flow(f)
  PROVE  InOrder(f)
<1> DEFINE o == m_clients[f]
           c == fdtab[f]
           h == handled[o]
           b == buffer[o]
           r == rx[c]
           t == tosend[c]
<1>1. Chain(h, b, r, t, c)
  BY DEF Flow
<1>2. o \in Obj /\ c \in Conn
  BY Serves
<1>3. h \in Seq(Bytes) /\ b \in Seq(Bytes) /\ r \in Seq(Bytes) /\ t \in Seq(Bytes)
  BY <1>2, ObjTyped, ConnTyped
<1> HIDE DEF o, c, h, b, r, t
<1>4. Len(h) \in Nat /\ Len(b) \in Nat /\ Len(r) \in Nat
  BY <1>3, LenProperties
<1>5. From(h \o b, c, 0) /\ h \o b \in Seq(Bytes) /\ Len(h \o b) = Len(h) + Len(b)
  <2>1. 0 + Len(h) = Len(h)
    BY <1>4
  <2> QED BY <1>1, <1>3, <2>1, FromConcat, ConcatProperties DEF Chain
<1>6. /\ From(h \o b \o r, c, 0) /\ h \o b \o r \in Seq(Bytes)
      /\ Len(h \o b \o r) = Len(h) + Len(b) + Len(r)
  <2>1. 0 + Len(h \o b) = Len(h) + Len(b)
    BY <1>4, <1>5
  <2>2. From(h \o b \o r, c, 0) <=> From(h \o b, c, 0) /\ From(r, c, 0 + Len(h \o b))
    BY <1>3, <1>5, FromConcat
  <2>3. From(r, c, 0 + Len(h \o b))
    BY <1>1, <2>1 DEF Chain
  <2> QED BY <1>3, <1>5, <2>2, <2>3, ConcatProperties
<1>7. From(h \o b \o r \o t, c, 0) /\ h \o b \o r \o t \in Seq(Bytes)
  <2>1. 0 + Len(h \o b \o r) = Len(h) + Len(b) + Len(r)
    BY <1>4, <1>6
  <2>2. /\ From(h \o b \o r \o t, c, 0) <=>
             From(h \o b \o r, c, 0) /\ From(t, c, 0 + Len(h \o b \o r))
    BY <1>3, <1>6, FromConcat
  <2>3. From(t, c, 0 + Len(h \o b \o r))
    BY <1>1, <2>1 DEF Chain
  <2> QED BY <1>3, <1>6, <2>2, <2>3, ConcatProperties
<1> DEFINE stream == h \o b \o r \o t
<1>8. \A i \in DOMAIN stream : stream[i].s = c /\ stream[i].n = i
  <2> HIDE DEF stream
  <2>1. stream \in Seq(Bytes) /\ From(stream, c, 0)
    BY <1>7 DEF stream
  <2>2. DOMAIN stream = 1..Len(stream) /\ Len(stream) \in Nat
    BY <2>1, LenProperties
  <2> QED BY <2>1, <2>2 DEF From
<1> QED BY <1>8 DEF InOrder, o, c, h, b, r, t

-----------------------------------------------------------------------------
(* On Linux, up to the mark *)

LEMMA StreamWorking ==
  ASSUME IInv, StreamInv, Working
  PROVE  StreamInv'
<1>1. UNCHANGED <<m_clients, clean, fdtab, conn, tosend>>
  BY WorkingSteps
<1>2. ASSUME NEW o \in Obj, ~client'[o].bDisconnect PROVE ~client[o].bDisconnect
  <2>1. client[o] \in [Socket : Fd \cup {m_sock}, bDisconnect : BOOLEAN,
           szDisconnectReason : Reason, ProtocolId : Nat,
           tmStartTime : Nat, bAuthenticated : BOOLEAN]
    BY DEF IInv, TypeOK
  <2>2. \A reason : Disconnect(client[o], reason).bDisconnect
    BY <2>1 DEF Disconnect
  <2> QED BY <1>2, <2>2, WorkingMarks
<1>3. ASSUME NEW f \in Fd, Lawful(f)'
      PROVE  Lawful(f) /\ Flow(f) /\ m_clients[f] \in Obj /\ m_clients[f] # NULL
  <2>1. m_clients[f] # NULL /\ m_clients[f] \in Obj
    BY <1>1, <1>3, Serves DEF Lawful
  <2> QED BY <1>1, <1>2, <1>3, <2>1 DEF Lawful, StreamInv
<1>4. CASE UNCHANGED <<buffer, handled, rx>>
  <2>1. FlowsOn(Fd)
    BY <1>1, <1>4, QuietFlows DEF StreamInv
  <2> QED BY <1>3, <2>1 DEF FlowsOn, StreamInv
<1>5. ASSUME NEW f \in Fd, NEW k \in Nat, Takes(f, k) PROVE StreamInv'
  <2>1. m_clients[f] # NULL
    BY <1>5, ServerAssumption DEF Takes
  <2>2. FlowsOn(Fd)
    BY <1>1, <1>5, <2>1, TakesFlows DEF StreamInv
  <2> QED BY <1>3, <2>2 DEF FlowsOn, StreamInv
<1>6. ASSUME NEW f \in Fd, NEW k \in Nat, Handles(f, k) PROVE StreamInv'
  <2>1. m_clients[f] # NULL
    BY <1>6, ServerAssumption DEF Handles
  <2>2. /\ FlowsOn(Fd \ {f})
        /\ Flow(f) /\ ~client[m_clients[f]].bDisconnect => Flow(f)'
    BY <1>1, <1>6, <2>1, HandlesFlows DEF StreamInv
  <2>3. Lawful(f)' => Flow(f)'
    BY <1>3, <2>2 DEF Lawful
  <2> QED BY <1>3, <2>2, <2>3 DEF FlowsOn, StreamInv
<1> QED BY <1>4, <1>5, <1>6, DataSteps

LEMMA StreamStep == ASSUME IInv, StreamInv, [Next]_vars PROVE StreamInv'
<1>1. Chains
  BY DEF StreamInv
<1>2. CASE CloseServer
  BY <1>1, <1>2, CloseServerFlows DEF StreamInv, Lawful
<1>3. CASE Destroy \/ UNCHANGED vars
  <2>1. UNCHANGED <<conn, rx, tosend, m_clients, fdtab, buffer, handled, clean, client>>
    BY <1>3 DEF Destroy, vars, kernelVars, serverVars
  <2>2. FlowsOn(Fd)
    BY <1>1, <2>1, QuietFlows
  <2> QED BY <2>1, <2>2 DEF FlowsOn, StreamInv, Lawful
<1>4. CASE World
  <2>1. FlowsOn(Fd) /\ UNCHANGED <<m_clients, clean, client>>
    BY <1>1, <1>4, WorldFlows
  <2> QED BY <2>1 DEF FlowsOn, StreamInv, Lawful
<1>5. ASSUME NEW f \in Fd, Ending(f) PROVE StreamInv'
  <2>1. /\ FlowsOn(Fd \ {f}) /\ m_clients'[f] = NULL
        /\ UNCHANGED <<clean, client>>
    BY <1>1, <1>5, EndingSteps, EndSessionFlows
  <2> QED BY <2>1 DEF FlowsOn, StreamInv, Lawful
<1>6. CASE AcceptClient
  <2>1. PICK f \in Fd, o \in Obj, added \in BOOLEAN :
          /\ Accept(f, added) /\ AllocateClient(o, f)
          /\ m_clients' = [m_clients EXCEPT ![f] = o]
          /\ backlog # <<>>
    BY <1>6, AcceptSteps
  <2>2. /\ FlowsOn(Fd \ {f}) /\ m_clients'[f] = o
        /\ clean'[o] => Flow(f)'
        /\ \A g \in Fd : g # f /\ m_clients[g] # NULL =>
             /\ clean'[m_clients[g]] = clean[m_clients[g]]
             /\ client'[m_clients[g]] = client[m_clients[g]]
    BY <1>1, <2>1, AcceptFlows
  <2>3. ASSUME NEW g \in Fd, Lawful(g)' PROVE Flow(g)'
    <3>1. CASE g = f
      BY <2>2, <2>3, <3>1 DEF Lawful
    <3>2. CASE g # f
      BY <2>2, <2>3, <3>2 DEF FlowsOn, StreamInv, Lawful
    <3> QED BY <3>1, <3>2
  <2> QED BY <2>2, <2>3 DEF FlowsOn, StreamInv
<1> QED BY <1>2, <1>3, <1>4, <1>5, <1>6, ServerSteps, StreamWorking

(***************************************************************************)
(* A session that began with an empty buffer handles what its peer sent,   *)
(* each byte once and in order, until it is marked for disconnection.      *)
(***************************************************************************)
THEOREM StreamCorrect == Spec => []ByteStream
<1>1. Init => StreamInv
  BY DEF Init, KernelInit, ServerInit, StreamInv, Chains, Lawful
<1>2. IInv /\ StreamInv => ByteStream
  BY FlowInOrder DEF ByteStream, StreamInv, Lawful, InOrder
<1>3. IInv /\ StreamInv /\ [Next]_vars => StreamInv'
  BY StreamStep
<1> QED BY <1>1, <1>2, <1>3, Invariance, PTL DEF Spec
-----------------------------------------------------------------------------
(* One session among the others *)

LEMMA CutConcat ==
  ASSUME NEW p \in Seq(Bytes), NEW q \in Seq(Bytes), NEW k \in 1..Len(p)
  PROVE  /\ k \in 1..Len(p \o q)
         /\ SubSeq(p \o q, 1, k) = SubSeq(p, 1, k)
         /\ SubSeq(p \o q, k + 1, Len(p \o q)) = SubSeq(p, k + 1, Len(p)) \o q
<1> DEFINE start == SubSeq(p, 1, k)
           rest == SubSeq(p, k + 1, Len(p))
           r == rest \o q
<1>1. Len(p) \in Nat /\ Len(q) \in Nat /\ k \in Nat /\ k <= Len(p)
  BY LenProperties
<1>2. /\ start \in Seq(Bytes) /\ Len(start) = k /\ rest \in Seq(Bytes)
      /\ Len(rest) = Len(p) - k
  BY <1>1, FromCut
<1>3. p = start \o rest
  <2>1. /\ 1 \in 1..(Len(p) + 1) /\ k \in (1 - 1)..Len(p) /\ Len(p) \in k..Len(p)
    BY <1>1
  <2>2. SubSeq(p, 1, k) \o SubSeq(p, k + 1, Len(p)) = SubSeq(p, 1, Len(p))
    BY <2>1, ConcatAdjacentSubSeq
  <2> QED BY <2>2, SubSeqFull
<1> HIDE DEF start, rest
<1>4. /\ p \o q = start \o r /\ r \in Seq(Bytes) /\ Len(r) \in Nat
      /\ Len(p \o q) = k + Len(r) /\ Len(p \o q) = Len(p) + Len(q)
  <2>1. r \in Seq(Bytes)
    BY <1>2, ConcatProperties
  <2>2. p \o q = start \o r
    BY <1>2, <1>3, ConcatAssociative
  <2>3. Len(start \o r) = k + Len(r) /\ Len(r) \in Nat
    BY <1>2, <2>1, ConcatProperties, LenProperties
  <2>4. Len(p \o q) = Len(p) + Len(q)
    BY ConcatProperties
  <2> QED BY <2>1, <2>2, <2>3, <2>4
<1> HIDE DEF r
<1>5. SubSeq(start \o r, 1, k) = start
  <2>1. 1 \in 1..Len(start) /\ k \in 1..Len(start)
    BY <1>1, <1>2
  <2>2. SubSeq(start \o r, 1, k) = SubSeq(start, 1, k)
    BY <1>2, <1>4, <2>1, SubSeqOfConcat1
  <2> QED BY <1>2, <2>2, SubSeqFull
<1>6. SubSeq(start \o r, k + 1, k + Len(r)) = r
  <2>1. CASE Len(r) = 0
    <3>1. r = <<>>
      BY <1>4, <2>1, EmptySeq
    <3>2. k + 1 \in Int /\ k + Len(r) \in Int /\ k + Len(r) < k + 1
      BY <1>1, <1>4, <2>1
    <3> QED BY <3>1, <3>2, SubSeqEmpty
  <2>2. CASE Len(r) > 0
    <3>1. PICK m, n : m = k + 1 /\ n = k + Len(r)
      OBVIOUS
    <3>2. /\ m \in (Len(start) + 1)..(Len(start) + Len(r))
          /\ n \in (Len(start) + 1)..(Len(start) + Len(r))
          /\ m - Len(start) = 1 /\ n - Len(start) = Len(r)
      BY <1>1, <1>2, <1>4, <2>2, <3>1
    <3>3. SubSeq(start \o r, m, n) = SubSeq(r, m - Len(start), n - Len(start))
      BY <1>2, <1>4, <3>2, SubSeqOfConcat2, Zenon
    <3>4. SubSeq(start \o r, k + 1, k + Len(r)) = SubSeq(r, 1, Len(r))
      BY <3>1, <3>2, <3>3, Zenon
    <3> QED BY <1>4, <3>4, SubSeqFull
  <2> QED BY <1>4, <2>1, <2>2
<1>7. k \in 1..Len(p \o q)
  BY <1>1, <1>4
<1> QED BY <1>4, <1>5, <1>6, <1>7 DEF r, start, rest

(***************************************************************************)
(* What the session of f sees of a step that reads none of its bytes and   *)
(* handles no packet of it.                                                *)
(***************************************************************************)
LEMMA RoundStays ==
  ASSUME NEW f \in Fd, Lasts(f),
         buffer'[m_clients[f]] = buffer[m_clients[f]],
         handled'[m_clients[f]] = handled[m_clients[f]],
         rx'[fdtab[f]] \o tosend'[fdtab[f]] = rx[fdtab[f]] \o tosend[fdtab[f]],
         client'[m_clients[f]].bDisconnect \in {client[m_clients[f]].bDisconnect, TRUE}
  PROVE  [Rounds(f)!Next]_(Rounds(f)!roundVars)
BY DEF Lasts, Rounds!Next, Rounds!Mark, Rounds!roundVars

LEMMA RoundReceives ==
  ASSUME IInv, NEW f \in Fd, Lasts(f), NEW k \in Nat, Takes(f, k), tosend' = tosend
  PROVE  Rounds(f)!Next
<1> DEFINE c == fdtab[f]
           o == m_clients[f]
<1>1. c \in Conn /\ o \in Obj /\ k > 0 /\ k <= Len(rx[c]) /\ client' = client
  BY DEF Takes
<1>2. /\ buffer'[o] = buffer[o] \o SubSeq(rx[c], 1, k) /\ handled'[o] = handled[o]
      /\ rx'[c] = SubSeq(rx[c], k + 1, Len(rx[c])) /\ tosend'[c] = tosend[c]
  BY ObjTyped, ConnTyped DEF Takes
<1>3. rx[c] \in Seq(Bytes) /\ tosend[c] \in Seq(Bytes) /\ Len(rx[c]) \in Nat
  BY <1>1, ConnTyped, LenProperties
<1>4. m_clients'[f] = o /\ fdtab'[f] = c
  BY DEF Lasts
<1> HIDE DEF c, o
<1>5. k \in 1..Len(rx[c])
  BY <1>1, <1>3
<1> DEFINE r == rx[c]
           t == tosend[c]
           was == buffer[o]
<1>6. /\ r \in Seq(Bytes) /\ t \in Seq(Bytes) /\ k \in 1..Len(r)
      /\ buffer'[o] = was \o SubSeq(r, 1, k)
      /\ rx'[c] = SubSeq(r, k + 1, Len(r)) /\ tosend'[c] = t
  BY <1>2, <1>3, <1>5
<1> HIDE DEF r, t, was
<1>7. /\ k \in 1..Len(r \o t)
      /\ SubSeq(r \o t, 1, k) = SubSeq(r, 1, k)
      /\ SubSeq(r \o t, k + 1, Len(r \o t)) = SubSeq(r, k + 1, Len(r)) \o t
  BY <1>6, CutConcat, Zenon
<1>8. /\ buffer'[o] = was \o SubSeq(r \o t, 1, k)
      /\ rx'[c] \o tosend'[c] = SubSeq(r \o t, k + 1, Len(r \o t))
  BY <1>6, <1>7, Zenon
<1>9. \E n \in 1..Len(rx[c] \o tosend[c]) :
        /\ buffer'[o] = buffer[o] \o SubSeq(rx[c] \o tosend[c], 1, n)
        /\ rx'[c] \o tosend'[c] = SubSeq(rx[c] \o tosend[c], n + 1, Len(rx[c] \o tosend[c]))
  BY <1>7, <1>8, Zenon DEF r, t, was
<1> QED BY <1>1, <1>2, <1>4, <1>9 DEF Rounds!Next, Rounds!Receive, c, o

LEMMA RoundHandles ==
  ASSUME IInv, NEW f \in Fd, Lasts(f), NEW k \in Nat, Handles(f, k), tosend' = tosend,
         ~client[m_clients[f]].bDisconnect
  PROVE  Rounds(f)!Next
<1> DEFINE o == m_clients[f]
<1>1. /\ o \in Obj /\ k = PacketLength(buffer[o]) /\ Complete(buffer[o])
      /\ CodeField(buffer[o]) \cap m_functions # {} /\ UNCHANGED <<client, rx>>
  BY DEF Handles
<1>2. /\ handled'[o] = handled[o] \o Packet(buffer[o])
      /\ buffer'[o] = RemovePacket(buffer[o])
  BY <1>1, ObjTyped DEF Handles, Packet, RemovePacket
<1>3. /\ m_clients'[f] = o /\ fdtab'[f] = fdtab[f] /\ client' = client
      /\ rx' = rx /\ tosend' = tosend /\ ~client[o].bDisconnect
  BY <1>1 DEF Lasts
<1> DEFINE b == buffer[o]
<1>4. /\ Rounds(f)!Complete(b) /\ Rounds(f)!CodeField(b) = CodeField(b)
      /\ Rounds(f)!Packet(b) = Packet(b) /\ Rounds(f)!RemovePacket(b) = RemovePacket(b)
  <2>1. Complete(b)
    BY <1>1
  <2> HIDE DEF b
  <2> QED
    BY <2>1
    DEF Rounds!Complete, Rounds!PrefixRight, Rounds!HeaderMissing, Rounds!PacketLength,
      Rounds!SizeField, Rounds!CodeField, Rounds!Packet, Rounds!RemovePacket, Complete,
      PrefixRight, HeaderMissing, PacketLength, SizeField, CodeField, Packet, RemovePacket
<1> HIDE DEF b
<1>5. /\ CodeField(b) \cap m_functions # {}
      /\ handled'[o] = handled[o] \o Packet(b) /\ buffer'[o] = RemovePacket(b)
  BY <1>1, <1>2 DEF b
<1> HIDE DEF o
<1>6. Rounds(f)!RemoveHandled
  BY <1>3, <1>4, <1>5 DEF Rounds!RemoveHandled, o, b
<1>7. Rounds(f)!Handle
  BY <1>3, <1>4, <1>5, <1>6 DEF Rounds!Handle, o, b
<1> QED BY <1>7 DEF Rounds!Next

(***************************************************************************)
(* A step of the loop works for one session and leaves the others.         *)
(***************************************************************************)
LEMMA StayingRounds ==
  ASSUME IInv, Staying, NEW f \in Fd, Lasts(f), ~client[m_clients[f]].bDisconnect
  PROVE  [Rounds(f)!Next]_(Rounds(f)!roundVars)
<1>1. /\ tosend' = tosend /\ m_clients[f] \in Obj /\ fdtab[f] \in Conn
      /\ client'[m_clients[f]].bDisconnect \in {client[m_clients[f]].bDisconnect, TRUE}
  BY Serves DEF Staying, Lasts
<1>2. CASE UNCHANGED <<buffer, handled, rx>>
  BY <1>1, <1>2, RoundStays
<1>3. ASSUME NEW g \in Fd, NEW k \in Nat, Takes(g, k)
      PROVE  [Rounds(f)!Next]_(Rounds(f)!roundVars)
  <2>1. CASE g = f
    BY <1>1, <1>3, <2>1, RoundReceives
  <2>2. CASE g # f
    <3>1. m_clients[g] # m_clients[f] /\ fdtab[g] # fdtab[f]
      BY <1>3, <2>2, Apart, ServerAssumption DEF Takes, Lasts
    <3>2. /\ buffer'[m_clients[f]] = buffer[m_clients[f]]
          /\ handled'[m_clients[f]] = handled[m_clients[f]]
          /\ rx'[fdtab[f]] = rx[fdtab[f]]
      BY <1>1, <1>3, <3>1, ObjTyped, ConnTyped DEF Takes
    <3> QED BY <1>1, <3>2, RoundStays
  <2> QED BY <2>1, <2>2
<1>4. ASSUME NEW g \in Fd, NEW k \in Nat, Handles(g, k)
      PROVE  [Rounds(f)!Next]_(Rounds(f)!roundVars)
  <2>1. CASE g = f
    BY <1>1, <1>4, <2>1, RoundHandles
  <2>2. CASE g # f
    <3>1. m_clients[g] # m_clients[f]
      BY <1>4, <2>2, Apart, ServerAssumption DEF Handles, Lasts
    <3>2. /\ buffer'[m_clients[f]] = buffer[m_clients[f]]
          /\ handled'[m_clients[f]] = handled[m_clients[f]]
          /\ rx' = rx
      BY <1>1, <1>4, <3>1, ObjTyped DEF Handles
    <3> QED BY <1>1, <3>2, RoundStays
  <2> QED BY <2>1, <2>2
<1> QED BY <1>2, <1>3, <1>4 DEF Staying

(***************************************************************************)
(* The end of a session and the beginning of one are not seen by others.   *)
(***************************************************************************)
LEMMA OthersKept ==
  ASSUME IInv, NEW f \in Fd, Lasts(f), Admits \/ \E g \in Fd : Ends(g)
  PROVE  /\ buffer'[m_clients[f]] = buffer[m_clients[f]]
         /\ handled'[m_clients[f]] = handled[m_clients[f]]
         /\ client'[m_clients[f]] = client[m_clients[f]]
         /\ rx'[fdtab[f]] = rx[fdtab[f]] /\ tosend'[fdtab[f]] = tosend[fdtab[f]]
<1>1. m_clients[f] # NULL /\ m_clients[f] \in Obj /\ fdtab[f] \in Conn
  BY Serves DEF Lasts
<1>2. CASE Admits
  <2>1. PICK g \in Fd, o \in Obj, added \in BOOLEAN : Accept(g, added) /\ AllocateClient(o, g)
    BY <1>2 DEF Admits
  <2>2. o # m_clients[f]
    BY <1>1, <2>1, AllocateClientFresh DEF Live
  <2>3. /\ handled' = [handled EXCEPT ![o] = <<>>]
        /\ client' = [client EXCEPT ![o] = InitClient(@, g)]
        /\ buffer' = buffer \/ buffer' = [buffer EXCEPT ![o] = <<>>]
    BY <2>1 DEF AllocateClient
  <2>4. UNCHANGED <<rx, tosend>>
    BY <2>1 DEF Accept
  <2> QED BY <1>1, <2>2, <2>3, <2>4 DEF IInv, TypeOK
<1>3. ASSUME NEW g \in Fd, Ends(g)
      PROVE  /\ UNCHANGED <<buffer, handled, client>>
             /\ rx'[fdtab[f]] = rx[fdtab[f]] /\ tosend'[fdtab[f]] = tosend[fdtab[f]]
  <2>1. EndSession(g) /\ m_clients[g] # NULL
    BY <1>3 DEF Ends
  <2>2. m_clients'[g] = NULL
    BY <2>1, ObjTyped DEF EndSession
  <2>3. g # f
    BY <1>1, <2>2 DEF Lasts
  <2>4. fdtab[f] # fdtab[g]
    BY <1>1, <2>1, <2>3, Apart
  <2> QED BY <1>1, <2>1, <2>4, ConnTyped DEF EndSession, FreeClient, CloseSocket
<1> QED BY <1>2, <1>3

LEMMA WorldRounds ==
  ASSUME IInv, World, NEW f \in Fd, Lasts(f)
  PROVE  [Rounds(f)!Next]_(Rounds(f)!roundVars)
<1>1. /\ UNCHANGED <<buffer, handled, client>>
      /\ m_clients[f] # NULL /\ fdtab[f] \in Conn /\ conn[fdtab[f]] = "open"
  BY Serves DEF World, serverVars, Lasts
<1>2. ASSUME NEW c \in Conn, PeerSend(c)
      PROVE  rx'[fdtab[f]] \o tosend'[fdtab[f]] = rx[fdtab[f]] \o tosend[fdtab[f]]
  <2>1. PICK k \in 1..Len(tosend[c]) :
          /\ rx' = [rx EXCEPT ![c] = @ \o SubSeq(tosend[c], 1, k)]
          /\ tosend' = [tosend EXCEPT ![c] = SubSeq(@, k + 1, Len(@))]
    BY <1>2 DEF PeerSend
  <2>2. CASE fdtab[f] # c
    BY <1>1, <2>1, <2>2, ConnTyped
  <2>3. CASE fdtab[f] = c
    <3> DEFINE r == rx[c]
               t == tosend[c]
               sent == SubSeq(t, 1, k)
               left == SubSeq(t, k + 1, Len(t))
    <3>1. /\ r \in Seq(Bytes) /\ t \in Seq(Bytes) /\ Len(t) \in Nat /\ k \in Nat /\ k <= Len(t)
      BY ConnTyped, LenProperties
    <3>2. sent \in Seq(Bytes) /\ left \in Seq(Bytes)
      BY <3>1, FromCut
    <3>3. t = sent \o left
      <4>1. /\ 1 \in 1..(Len(t) + 1) /\ k \in (1 - 1)..Len(t) /\ Len(t) \in k..Len(t)
        BY <3>1
      <4>2. SubSeq(t, 1, k) \o SubSeq(t, k + 1, Len(t)) = SubSeq(t, 1, Len(t))
        BY <3>1, <4>1, ConcatAdjacentSubSeq
      <4> QED BY <3>1, <4>2, SubSeqFull
    <3>4. rx'[c] = r \o sent /\ tosend'[c] = left
      BY <2>1, ConnTyped
    <3> HIDE DEF r, t, sent, left
    <3>5. (r \o sent) \o left = r \o t
      BY <3>1, <3>2, <3>3, ConcatAssociative
    <3> QED BY <2>3, <3>4, <3>5 DEF r, t
  <2> QED BY <2>2, <2>3
<1>3. ASSUME NEW c \in Conn, Connect(c)
      PROVE  rx' = rx /\ tosend'[fdtab[f]] = tosend[fdtab[f]]
  <2>1. fdtab[f] # c
    BY <1>1, <1>3 DEF Connect
  <2> QED BY <1>1, <1>3, <2>1, ConnTyped DEF Connect
<1>4. rx'[fdtab[f]] \o tosend'[fdtab[f]] = rx[fdtab[f]] \o tosend[fdtab[f]]
  BY <1>2, <1>3 DEF World, KernelNext, PeerClose, PeerReset, Tick
<1> QED BY <1>1, <1>4, RoundStays

LEMMA StepRounds ==
  ASSUME IInv, Step, NEW f \in Fd, Lasts(f), ~client[m_clients[f]].bDisconnect
  PROVE  [Rounds(f)!Next]_(Rounds(f)!roundVars)
<1>1. CASE Admits \/ \E g \in Fd : Ends(g)
  BY <1>1, OthersKept, RoundStays
<1>2. CASE CloseServer
  BY <1>2 DEF CloseServer, Lasts
<1>3. CASE Destroy \/ UNCHANGED vars
  <2>1. UNCHANGED <<buffer, handled, client, rx, tosend>>
    BY <1>3 DEF Destroy, vars, kernelVars, serverVars
  <2> QED BY <2>1, RoundStays
<1> QED BY <1>1, <1>2, <1>3, StayingRounds, WorldRounds DEF Step

(***************************************************************************)
(* However many sessions are served at once and however their bytes are    *)
(* cut: the server is to each of them, until it is marked, the packet loop *)
(* of PacketRounds on the bytes of its own peer.                           *)
(***************************************************************************)
THEOREM SessionsInRounds == Spec => SessionRounds
<1>1. IInv /\ [Next]_vars =>
        [\A f \in Fd : Lasts(f) /\ ~client[m_clients[f]].bDisconnect
           => [Rounds(f)!Next]_(Rounds(f)!roundVars)]_vars
  BY LinuxSteps, StepRounds
<1> QED BY <1>1, Invariance, PTL DEF Spec, SessionRounds
=============================================================================
