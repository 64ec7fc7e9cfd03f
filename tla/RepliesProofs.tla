---------------------------- MODULE RepliesProofs ----------------------------
(***************************************************************************)
(* Proofs about Replies for every number of sessions, every room in their  *)
(* sockets, every cipher that can be undone and passwords of any length.   *)
(* Encrypted and FlattenSeq are recursive functions: that there are such   *)
(* functions is proved here by induction.  The library's theorem that the  *)
(* numbers are well-ordered says so in terms of sets, and so can be used.  *)
(***************************************************************************)
EXTENDS Replies, SequenceTheorems, WellFoundedInduction, TLAPS

-----------------------------------------------------------------------------
(* Induction *)

LEMMA Least ==
  ASSUME NEW S \in SUBSET Nat, S # {}
  PROVE  \E m \in S : \A k \in S : m <= k
<1> DEFINE R == OpToRel(<, Nat)
<1>1. IsWellFoundedOn(R, Nat)
  BY NatLessThanWellFounded
<1>2. \E x \in S : \A y \in S : <<y, x>> \notin R
  <2> HIDE DEF R
  <2> QED BY <1>1, WFMin
<1>3. ASSUME NEW x \in S, NEW y \in S PROVE <<y, x>> \in R <=> y < x
  <2>1. x \in Nat /\ y \in Nat
    OBVIOUS
  <2> QED BY <2>1 DEF OpToRel
<1> HIDE DEF R
<1>4. PICK x \in S : \A y \in S : ~(y < x)
  BY <1>2, <1>3
<1>5. ASSUME NEW y \in S PROVE x <= y
  <2>1. x \in Nat /\ y \in Nat /\ ~(y < x)
    BY <1>4
  <2> QED BY <2>1
<1> QED BY <1>5

LEMMA Induction ==
  ASSUME NEW S \in SUBSET Nat, 0 \in S, \A n \in S : n + 1 \in S
  PROVE  S = Nat
<1> SUFFICES ASSUME Nat \ S # {} PROVE FALSE
  OBVIOUS
<1>1. PICK m \in Nat \ S : \A k \in Nat \ S : m <= k
  BY Least
<1>2. m # 0 /\ m - 1 \in Nat
  BY <1>1
<1> QED BY <1>1, <1>2

-----------------------------------------------------------------------------
(* The cipher *)

Before(f, i) == IF i = 1 THEN Chain0 ELSE f[i - 1]

IsEncrypted(f, p, n) ==
  f = [i \in 1..n |-> EncryptBlock(Xor(p[i], Before(f, i)))]

(***************************************************************************)
(* The function Encrypted defines exists.                                  *)
(***************************************************************************)
LEMMA EncryptedExists ==
  ASSUME NEW p
  PROVE  \A n \in Nat : \E f : IsEncrypted(f, p, n)
<1> DEFINE S == {n \in Nat : \E f : IsEncrypted(f, p, n)}
<1>1. 0 \in S
  <2>1. IsEncrypted([i \in 1..0 |-> EncryptBlock(Xor(p[i], Before(<<>>, i)))], p, 0)
    BY DEF IsEncrypted
  <2> QED BY <2>1
<1>2. ASSUME NEW n \in S PROVE n + 1 \in S
  <2>1. PICK f : IsEncrypted(f, p, n)
    BY <1>2
  <2> DEFINE last == EncryptBlock(Xor(p[n + 1], Before(f, n + 1)))
             g == [i \in 1..(n + 1) |-> IF i = n + 1 THEN last ELSE f[i]]
  <2>2. ASSUME NEW i \in 1..(n + 1) PROVE Before(g, i) = Before(f, i)
    BY DEF Before
  <2>3. ASSUME NEW i \in 1..n PROVE f[i] = EncryptBlock(Xor(p[i], Before(f, i)))
    <3> DEFINE h == [j \in 1..n |-> EncryptBlock(Xor(p[j], Before(f, j)))]
    <3>1. f = h
      BY <2>1 DEF IsEncrypted
    <3>2. h[i] = EncryptBlock(Xor(p[i], Before(f, i)))
      OBVIOUS
    <3> HIDE DEF h
    <3> QED BY <3>1, <3>2
  <2>4. ASSUME NEW i \in 1..(n + 1)
        PROVE  g[i] = EncryptBlock(Xor(p[i], Before(g, i)))
    <3>1. CASE i = n + 1
      BY <2>2, <3>1
    <3>2. CASE i # n + 1
      <4>1. i \in 1..n
        BY <3>2
      <4>2. g[i] = f[i]
        BY <3>2
      <4> QED BY <2>2, <2>3, <4>1, <4>2
    <3> QED BY <3>1, <3>2
  <2>5. IsEncrypted(g, p, n + 1)
    <3>1. g = [i \in 1..(n + 1) |-> g[i]]
      OBVIOUS
    <3> HIDE DEF g
    <3> QED BY <2>4, <3>1 DEF IsEncrypted
  <2> QED BY <2>5
<1> HIDE DEF S
<1>3. S \in SUBSET Nat
  BY DEF S
<1>4. S = Nat
  BY <1>1, <1>2, <1>3, Induction
<1> QED BY <1>4 DEF S

LEMMA EncryptedFacts ==
  ASSUME NEW p \in Seq(Block)
  PROVE  /\ DOMAIN Encrypted(p) = 1..Len(p)
         /\ \A i \in 1..Len(p) :
              Encrypted(p)[i] = EncryptBlock(Xor(p[i], Before(Encrypted(p), i)))
<1> DEFINE enc == CHOOSE f : IsEncrypted(f, p, Len(p))
<1>1. Len(p) \in Nat
  OBVIOUS
<1>2. IsEncrypted(enc, p, Len(p))
  BY <1>1, EncryptedExists
<1>3. Encrypted(p) = enc
  BY Zenon DEF Encrypted, IsEncrypted, Before
<1> HIDE DEF enc
<1> DEFINE h == [j \in 1..Len(p) |-> EncryptBlock(Xor(p[j], Before(enc, j)))]
<1>4. enc = h
  BY <1>2 DEF IsEncrypted
<1>5. /\ DOMAIN h = 1..Len(p)
      /\ \A i \in 1..Len(p) : h[i] = EncryptBlock(Xor(p[i], Before(enc, i)))
  OBVIOUS
<1> HIDE DEF h
<1> QED BY <1>3, <1>4, <1>5

(***************************************************************************)
(* Blocks stay blocks.                                                     *)
(***************************************************************************)
LEMMA EncryptedType ==
  ASSUME NEW p \in Seq(Block)
  PROVE  Encrypted(p) \in Seq(Block) /\ Len(Encrypted(p)) = Len(p)
<1> DEFINE e == Encrypted(p)
           S == {n \in Nat : n \in 1..Len(p) => e[n] \in Block}
<1>1. ASSUME NEW n \in Nat, NEW b \in Block, n + 1 \in 1..Len(p), b = Before(e, n + 1)
      PROVE  e[n + 1] \in Block
  <2>1. p[n + 1] \in Block
    BY <1>1
  <2>2. e[n + 1] = EncryptBlock(Xor(p[n + 1], b))
    BY <1>1, EncryptedFacts
  <2> QED BY <2>1, <2>2, RepliesAssumption
<1> HIDE DEF e
<1>2. 0 \in S
  OBVIOUS
<1>3. ASSUME NEW n \in S PROVE n + 1 \in S
  <2> SUFFICES ASSUME n + 1 \in 1..Len(p) PROVE e[n + 1] \in Block
    OBVIOUS
  <2>1. Before(e, n + 1) \in Block
    BY <1>3, RepliesAssumption DEF Before
  <2> QED BY <1>1, <2>1
<1>4. S = Nat
  <2> HIDE DEF S
  <2>1. S \in SUBSET Nat
    BY DEF S
  <2> QED BY <1>2, <1>3, <2>1, Induction
<1>5. \A i \in 1..Len(p) : e[i] \in Block
  <2> TAKE i \in 1..Len(p)
  <2>1. i \in S
    BY <1>4
  <2> QED BY <2>1
<1>6. e = [i \in 1..Len(p) |-> e[i]] /\ Len(p) \in Nat
  <2>1. DOMAIN e = 1..Len(p)
    BY EncryptedFacts DEF e
  <2>2. Encrypted(p) = CHOOSE f : IsEncrypted(f, p, Len(p))
    BY Zenon DEF Encrypted, IsEncrypted, Before
  <2>3. IsEncrypted(e, p, Len(p))
    BY <2>2, EncryptedExists DEF e
  <2> QED BY <2>1, <2>3 DEF IsEncrypted
<1>7. e \in Seq(Block) /\ Len(e) = Len(p)
  BY <1>5, <1>6
<1> QED BY <1>7 DEF e

(***************************************************************************)
(* A new chain decrypts what was encrypted from one.                       *)
(***************************************************************************)
LEMMA DecryptedEncrypted ==
  ASSUME NEW p \in Seq(Block)
  PROVE  Decrypted(Chain0, Encrypted(p)) = p
<1> DEFINE e == Encrypted(p)
<1>1. e \in Seq(Block) /\ Len(e) = Len(p)
  BY EncryptedType
<1>2. ASSUME NEW i \in 1..Len(p)
      PROVE  Xor(DecryptBlock(e[i]), IF i = 1 THEN Chain0 ELSE e[i - 1]) = p[i]
  <2> DEFINE b == Before(e, i)
  <2>1. p[i] \in Block
    OBVIOUS
  <2>2. b \in Block
    BY <1>1, RepliesAssumption DEF Before
  <2>3. e[i] = EncryptBlock(Xor(p[i], b))
    BY EncryptedFacts
  <2>4. b = IF i = 1 THEN Chain0 ELSE e[i - 1]
    BY DEF Before
  <2> HIDE DEF b, e
  <2>5. Xor(p[i], b) \in Block /\ Xor(Xor(p[i], b), b) = p[i]
    BY <2>1, <2>2, RepliesAssumption
  <2>6. DecryptBlock(e[i]) = Xor(p[i], b)
    BY <2>3, <2>5, RepliesAssumption
  <2> QED BY <2>4, <2>5, <2>6
<1> HIDE DEF e
<1>3. Decrypted(Chain0, e) = [i \in 1..Len(p) |-> p[i]]
  BY <1>1, <1>2 DEF Decrypted
<1>4. p = [i \in 1..Len(p) |-> p[i]]
  OBVIOUS
<1> QED BY <1>3, <1>4 DEF e

-----------------------------------------------------------------------------
(* Sequences *)

LEMMA PrefixElements ==
  ASSUME NEW S, NEW s \in Seq(S), NEW t \in Seq(S)
  PROVE  IsPrefix(s, t) <=> Len(s) <= Len(t) /\ \A i \in 1..Len(s) : s[i] = t[i]
<1> DEFINE a == SubSeq(s, 1, Len(s))
           b == SubSeq(t, 1, Len(s))
<1>1. a = s
  BY SubSeqFull
<1>2. SUFFICES ASSUME Len(s) <= Len(t)
               PROVE  a = b <=> \A i \in 1..Len(s) : s[i] = t[i]
  BY DEF IsPrefix
<1>3. b \in Seq(S) /\ Len(b) = Len(s) /\ \A i \in 1..Len(s) : b[i] = t[i]
  BY <1>2
<1> HIDE DEF b
<1> QED BY <1>1, <1>3, SeqEqual

LEMMA PrefixOfConcat ==
  ASSUME NEW S, NEW s \in Seq(S), NEW u \in Seq(S)
  PROVE  s \o u \in Seq(S) /\ IsPrefix(s, s \o u)
<1>1. s \o u \in Seq(S) /\ Len(s \o u) = Len(s) + Len(u) /\ Len(u) \in Nat
      /\ Len(s) \in Nat /\ \A i \in 1..Len(s) : (s \o u)[i] = s[i]
  OBVIOUS
<1>2. Len(s) <= Len(s \o u)
  BY <1>1
<1> QED BY <1>1, <1>2, PrefixElements

LEMMA PrefixExtends ==
  ASSUME NEW S, NEW s \in Seq(S), NEW t \in Seq(S), NEW u \in Seq(S), IsPrefix(s, t)
  PROVE  IsPrefix(s, t \o u)
<1>1. Len(s) <= Len(t) /\ \A i \in 1..Len(s) : s[i] = t[i]
  BY PrefixElements
<1>2. t \o u \in Seq(S) /\ Len(t \o u) = Len(t) + Len(u) /\ Len(u) \in Nat
      /\ Len(t) \in Nat /\ Len(s) \in Nat /\ \A i \in 1..Len(t) : (t \o u)[i] = t[i]
  OBVIOUS
<1>3. Len(s) <= Len(t \o u) /\ \A i \in 1..Len(s) : s[i] = (t \o u)[i]
  BY <1>1, <1>2
<1> QED BY <1>2, <1>3, PrefixElements

LEMMA PrefixFront ==
  ASSUME NEW S, NEW s \in Seq(S), NEW u \in Seq(S), NEW t \in Seq(S), IsPrefix(s \o u, t)
  PROVE  IsPrefix(s, t)
<1>1. s \o u \in Seq(S) /\ Len(s \o u) = Len(s) + Len(u) /\ Len(u) \in Nat
      /\ Len(s) \in Nat /\ \A i \in 1..Len(s) : (s \o u)[i] = s[i]
  OBVIOUS
<1>2. Len(s \o u) <= Len(t) /\ \A i \in 1..Len(s \o u) : (s \o u)[i] = t[i]
  BY <1>1, PrefixElements
<1>3. Len(t) \in Nat
  OBVIOUS
<1>4. Len(s) <= Len(t) /\ \A i \in 1..Len(s) : s[i] = t[i]
  BY <1>1, <1>2, <1>3
<1> QED BY <1>4, PrefixElements

LEMMA SubSeqJoin ==
  ASSUME NEW S, NEW s \in Seq(S), NEW m \in Nat, NEW n \in Nat, m + n <= Len(s)
  PROVE  /\ SubSeq(s, 1, m) \in Seq(S) /\ SubSeq(s, m + 1, m + n) \in Seq(S)
         /\ SubSeq(s, 1, m) \o SubSeq(s, m + 1, m + n) = SubSeq(s, 1, m + n)
<1> DEFINE a == SubSeq(s, 1, m)
           b == SubSeq(s, m + 1, m + n)
           c == SubSeq(s, 1, m + n)
<1>0. Len(s) \in Nat
  OBVIOUS
<1>1. a \in Seq(S) /\ Len(a) = m /\ \A i \in 1..m : a[i] = s[i]
  BY <1>0
<1>2. b \in Seq(S) /\ Len(b) = n /\ \A i \in 1..n : b[i] = s[m + i]
  BY <1>0
<1>3. c \in Seq(S) /\ Len(c) = m + n /\ \A i \in 1..(m + n) : c[i] = s[i]
  BY <1>0
<1> HIDE DEF a, b, c
<1>4. a \o b \in Seq(S) /\ Len(a \o b) = m + n
  BY <1>1, <1>2, ConcatProperties
<1>5. ASSUME NEW i \in 1..(m + n) PROVE (a \o b)[i] = c[i]
  <2>1. (a \o b)[i] = IF i <= m THEN a[i] ELSE b[i - m]
    BY <1>1, <1>2, ConcatProperties
  <2>2. CASE i <= m
    BY <1>1, <1>3, <2>1, <2>2
  <2>3. CASE ~(i <= m)
    <3>1. i - m \in 1..n /\ m + (i - m) = i
      BY <2>3
    <3> QED BY <1>2, <1>3, <2>1, <2>3, <3>1
  <2> QED BY <2>2, <2>3
<1>6. a \o b = c
  BY <1>3, <1>4, <1>5, SeqEqual
<1> QED BY <1>1, <1>2, <1>6 DEF a, b, c

-----------------------------------------------------------------------------
(* FlattenSeq *)

IsFlat(f, q, n) == f = [i \in 1..n |-> IF i = 1 THEN q[i] ELSE f[i - 1] \o q[i]]

LEMMA FlatElement ==
  ASSUME NEW f, NEW q, NEW n, IsFlat(f, q, n), NEW i \in 1..n
  PROVE  f[i] = IF i = 1 THEN q[i] ELSE f[i - 1] \o q[i]
<1> DEFINE h == [j \in 1..n |-> IF j = 1 THEN q[j] ELSE f[j - 1] \o q[j]]
<1>1. f = h
  BY DEF IsFlat
<1>2. h[i] = IF i = 1 THEN q[i] ELSE f[i - 1] \o q[i]
  OBVIOUS
<1> HIDE DEF h
<1> QED BY <1>1, <1>2

LEMMA FlatExists == ASSUME NEW q PROVE \A n \in Nat : \E f : IsFlat(f, q, n)
<1> DEFINE S == {n \in Nat : \E f : IsFlat(f, q, n)}
<1>1. 0 \in S
  <2>1. IsFlat([i \in 1..0 |-> IF i = 1 THEN q[i] ELSE <<>> \o q[i]], q, 0)
    BY DEF IsFlat
  <2> QED BY <2>1
<1>2. ASSUME NEW n \in S PROVE n + 1 \in S
  <2>1. PICK f : IsFlat(f, q, n)
    BY <1>2
  <2> DEFINE last == IF n = 0 THEN q[n + 1] ELSE f[n] \o q[n + 1]
             g == [i \in 1..(n + 1) |-> IF i = n + 1 THEN last ELSE f[i]]
  <2>2. ASSUME NEW i \in 1..(n + 1)
        PROVE  g[i] = IF i = 1 THEN q[i] ELSE g[i - 1] \o q[i]
    <3>1. i # 1 => g[i - 1] = f[i - 1]
      OBVIOUS
    <3>2. CASE i = n + 1
      BY <3>1, <3>2
    <3>3. CASE i # n + 1
      <4>1. i \in 1..n /\ g[i] = f[i]
        BY <3>3
      <4>2. f[i] = IF i = 1 THEN q[i] ELSE f[i - 1] \o q[i]
        BY <2>1, <4>1, FlatElement
      <4> QED BY <3>1, <4>1, <4>2
    <3> QED BY <3>2, <3>3
  <2>3. IsFlat(g, q, n + 1)
    <3>1. g = [i \in 1..(n + 1) |-> g[i]]
      OBVIOUS
    <3> HIDE DEF g
    <3> QED BY <2>2, <3>1 DEF IsFlat
  <2> QED BY <2>3
<1> HIDE DEF S
<1>3. S \in SUBSET Nat
  BY DEF S
<1>4. S = Nat
  BY <1>1, <1>2, <1>3, Induction
<1> QED BY <1>4 DEF S

(***************************************************************************)
(* What the first n sequences give does not depend on those behind them.   *)
(***************************************************************************)
LEMMA FlatAgree ==
  ASSUME NEW f, NEW g, NEW q, NEW r, NEW n \in Nat, NEW m \in Nat, n <= m,
         IsFlat(f, q, n), IsFlat(g, r, m), \A i \in 1..n : q[i] = r[i]
  PROVE  \A i \in 1..n : f[i] = g[i]
<1> DEFINE S == {i \in Nat : i \in 1..n => f[i] = g[i]}
<1>1. 0 \in S
  OBVIOUS
<1>2. ASSUME NEW i \in S PROVE i + 1 \in S
  <2> SUFFICES ASSUME i + 1 \in 1..n PROVE f[i + 1] = g[i + 1]
    OBVIOUS
  <2>1. i + 1 \in 1..m /\ q[i + 1] = r[i + 1]
    OBVIOUS
  <2>2. f[i + 1] = IF i + 1 = 1 THEN q[i + 1] ELSE f[i + 1 - 1] \o q[i + 1]
    BY FlatElement
  <2>3. g[i + 1] = IF i + 1 = 1 THEN r[i + 1] ELSE g[i + 1 - 1] \o r[i + 1]
    BY <2>1, FlatElement
  <2>4. i + 1 # 1 => f[i + 1 - 1] = g[i + 1 - 1]
    <3>1. i + 1 - 1 = i /\ (i + 1 # 1 => i \in 1..n)
      OBVIOUS
    <3> QED BY <1>2, <3>1
  <2> QED BY <2>1, <2>2, <2>3, <2>4
<1> HIDE DEF S
<1>3. S \in SUBSET Nat
  BY DEF S
<1>4. S = Nat
  BY <1>1, <1>2, <1>3, Induction
<1>5. ASSUME NEW i \in 1..n PROVE f[i] = g[i]
  <2>1. i \in S
    BY <1>4
  <2> QED BY <2>1 DEF S
<1> QED BY <1>5

LEMMA FlattenIsFlat ==
  ASSUME NEW q, Len(q) \in Nat \ {0}
  PROVE  \E f : IsFlat(f, q, Len(q)) /\ FlattenSeq(q) = f[Len(q)]
<1> DEFINE f == CHOOSE g : IsFlat(g, q, Len(q))
<1>1. IsFlat(f, q, Len(q))
  BY FlatExists
<1>2. FlattenSeq(q) = f[Len(q)]
  BY Zenon DEF FlattenSeq, IsFlat
<1> QED BY <1>1, <1>2

-----------------------------------------------------------------------------
(* What a peer is told *)

Cell == Int \cup Session

Body(s, k) ==
  IF k = 0 THEN <<PACKETTYPE_PROTOCOL_ID, s>>
           ELSE <<PACKETTYPE_ERROR, ERROR_FLYFF_ACCOUNT>>

\* its first n packets
Told(s, n) == IF n = 0 THEN <<>> ELSE Stream(s, n - 1)

Refusal == Packet(<<PACKETTYPE_ERROR, ERROR_FLYFF_ACCOUNT>>)
Refusals(n) == [i \in 1..n |-> Refusal]

LEMMA TwoPairs ==
  ASSUME NEW S, NEW a \in S, NEW b \in S, NEW c \in S, NEW d \in S
  PROVE  /\ <<a, b>> \in Seq(S) /\ Len(<<a, b>>) = 2
         /\ <<a, b, c, d>> \in Seq(S) /\ Len(<<a, b, c, d>>) = 4
         /\ <<a, b>> \o <<c, d>> = <<a, b, c, d>>
<1>1. /\ <<a, b>> \in Seq(S) /\ Len(<<a, b>>) = 2
      /\ <<c, d>> \in Seq(S) /\ Len(<<c, d>>) = 2
      /\ <<a, b, c, d>> \in Seq(S) /\ Len(<<a, b, c, d>>) = 4
  OBVIOUS
<1> DEFINE l == <<a, b>> \o <<c, d>>
           r == <<a, b, c, d>>
<1>2. l \in Seq(S) /\ Len(l) = 4
  BY <1>1, ConcatProperties
<1>3. ASSUME NEW i \in 1..4 PROVE l[i] = IF i <= 2 THEN <<a, b>>[i] ELSE <<c, d>>[i - 2]
  BY <1>1, ConcatProperties
<1>4. l[1] = a /\ l[2] = b /\ l[3] = c /\ l[4] = d
  BY <1>3
<1>5. r[1] = a /\ r[2] = b /\ r[3] = c /\ r[4] = d
  OBVIOUS
<1> HIDE DEF l
<1>6. ASSUME NEW i \in 1..4 PROVE l[i] = r[i]
  <2>1. i = 1 \/ i = 2 \/ i = 3 \/ i = 4
    OBVIOUS
  <2> QED BY <1>4, <1>5, <2>1
<1>7. l = r
  BY <1>1, <1>2, <1>6, SeqEqual
<1> QED BY <1>1, <1>7 DEF l

LEMMA FramedBody ==
  ASSUME NEW s \in Session, NEW k
  PROVE  /\ Framed(Body(s, k)) = Packet(Body(s, k))
         /\ Packet(Body(s, k)) \in Seq(Cell) /\ Len(Packet(Body(s, k))) = 4
<1>1. ASSUME NEW a \in Cell, NEW b \in Cell
      PROVE  /\ Framed(<<a, b>>) = <<94, 2, a, b>>
             /\ Packet(<<a, b>>) = <<94, 2, a, b>>
             /\ <<94, 2, a, b>> \in Seq(Cell) /\ Len(<<94, 2, a, b>>) = 4
  <2>1. 94 \in Cell /\ 2 \in Cell /\ 0 \in Cell
    BY DEF Cell
  <2>2. <<PACKET_PREFIX, 0>> \o <<a, b>> = <<94, 0, a, b>>
    BY <2>1, TwoPairs DEF PACKET_PREFIX
  <2>3. [<<94, 0, a, b>> EXCEPT ![2] = 2] = <<94, 2, a, b>>
    OBVIOUS
  <2>4. <<PACKET_PREFIX, 2>> \o <<a, b>> = <<94, 2, a, b>>
    BY <2>1, TwoPairs DEF PACKET_PREFIX
  <2>5. <<94, 2, a, b>> \in Seq(Cell) /\ Len(<<94, 2, a, b>>) = 4 /\ Len(<<a, b>>) = 2
        /\ Len(<<94, 0, a, b>>) = 4
    BY <2>1, TwoPairs
  <2>6. Framed(<<a, b>>) = [<<94, 0, a, b>> EXCEPT ![1 + 1] = 4 - 2]
    BY <2>2, <2>5 DEF Framed, Overwrite, HEADER
  <2> QED BY <2>3, <2>4, <2>5, <2>6 DEF Packet
<1>2. /\ PACKETTYPE_PROTOCOL_ID \in Cell /\ s \in Cell
      /\ PACKETTYPE_ERROR \in Cell /\ ERROR_FLYFF_ACCOUNT \in Cell
  BY DEF Cell, PACKETTYPE_PROTOCOL_ID, PACKETTYPE_ERROR, ERROR_FLYFF_ACCOUNT
<1>3. PICK a \in Cell, b \in Cell : Body(s, k) = <<a, b>>
  BY <1>2 DEF Body
<1>4. Framed(<<a, b>>) = Packet(<<a, b>>) /\ Packet(<<a, b>>) \in Seq(Cell)
      /\ Len(Packet(<<a, b>>)) = 4
  BY <1>1
<1> QED BY <1>3, <1>4

LEMMA RefusalType == Refusal \in Seq(Cell)
<1>1. /\ PACKETTYPE_ERROR \in Cell /\ ERROR_FLYFF_ACCOUNT \in Cell
      /\ PACKET_PREFIX \in Cell /\ 2 \in Cell
  BY DEF Cell, PACKETTYPE_ERROR, ERROR_FLYFF_ACCOUNT, PACKET_PREFIX
<1>2. Refusal = <<PACKET_PREFIX, 2>> \o <<PACKETTYPE_ERROR, ERROR_FLYFF_ACCOUNT>>
  BY DEF Refusal, Packet
<1> QED BY <1>1, <1>2

LEMMA RefusalsFlat ==
  /\ FlattenSeq(Refusals(0)) = <<>>
  /\ \A n \in Nat : /\ FlattenSeq(Refusals(n)) \in Seq(Cell)
                     /\ FlattenSeq(Refusals(n + 1)) = FlattenSeq(Refusals(n)) \o Refusal
<1>1. \A n \in Nat : Len(Refusals(n)) = n /\ \A i \in 1..n : Refusals(n)[i] = Refusal
  BY DEF Refusals
<1>2. FlattenSeq(Refusals(0)) = <<>>
  <2>1. Refusals(0) \in Seq(Seq(Cell)) /\ Len(Refusals(0)) = 0
    BY RefusalType DEF Refusals
  <2>2. Refusals(0) = <<>>
    BY <2>1, EmptySeq
  <2> QED BY <2>1, <2>2 DEF FlattenSeq
<1>3. FlattenSeq(Refusals(1)) = Refusal
  <2>1. PICK f : IsFlat(f, Refusals(1), 1) /\ FlattenSeq(Refusals(1)) = f[1]
    BY <1>1, FlattenIsFlat
  <2>2. f[1] = Refusals(1)[1]
    BY <2>1, FlatElement
  <2> QED BY <1>1, <2>1, <2>2
<1>4. ASSUME NEW n \in Nat \ {0}
      PROVE  FlattenSeq(Refusals(n + 1)) = FlattenSeq(Refusals(n)) \o Refusal
  <2>1. PICK f : IsFlat(f, Refusals(n), n) /\ FlattenSeq(Refusals(n)) = f[n]
    BY <1>1, FlattenIsFlat
  <2>2. PICK g : IsFlat(g, Refusals(n + 1), n + 1) /\ FlattenSeq(Refusals(n + 1)) = g[n + 1]
    BY <1>1, FlattenIsFlat
  <2>3. g[n + 1] = g[n] \o Refusals(n + 1)[n + 1]
    <3>1. PICK i \in 1..(n + 1) : i = n + 1
      OBVIOUS
    <3>2. i # 1 /\ i - 1 = n
      BY <3>1
    <3>3. g[i] = g[i - 1] \o Refusals(n + 1)[i]
      <4>1. g[i] = IF i = 1 THEN Refusals(n + 1)[i] ELSE g[i - 1] \o Refusals(n + 1)[i]
        <5> DEFINE r == Refusals(n + 1)
                   m == n + 1
        <5>1. IsFlat(g, r, m) /\ i \in 1..m
          BY <2>2
        <5> HIDE DEF r, m
        <5>2. g[i] = IF i = 1 THEN r[i] ELSE g[i - 1] \o r[i]
          BY <5>1, FlatElement
        <5> QED BY <5>2 DEF r
      <4> QED BY <3>2, <4>1
    <3> QED BY <3>1, <3>2, <3>3
  <2>4. f[n] = g[n]
    BY <1>1, <2>1, <2>2, FlatAgree
  <2>5. Refusals(n + 1)[n + 1] = Refusal
    BY <1>1
  <2> QED BY <2>1, <2>2, <2>3, <2>4, <2>5
<1>5. \A n \in Nat : FlattenSeq(Refusals(n + 1)) = FlattenSeq(Refusals(n)) \o Refusal
  <2>1. FlattenSeq(Refusals(0 + 1)) = FlattenSeq(Refusals(0)) \o Refusal
    BY <1>2, <1>3, RefusalType
  <2> QED BY <1>4, <2>1
<1> DEFINE S == {n \in Nat : FlattenSeq(Refusals(n)) \in Seq(Cell)}
<1>6. 0 \in S /\ \A n \in S : n + 1 \in S
  <2>1. <<>> \in Seq(Cell)
    OBVIOUS
  <2>2. ASSUME NEW n \in Nat, FlattenSeq(Refusals(n)) \in Seq(Cell)
        PROVE  FlattenSeq(Refusals(n + 1)) \in Seq(Cell)
    <3>1. FlattenSeq(Refusals(n)) \o Refusal \in Seq(Cell)
      BY <2>2, RefusalType, ConcatProperties
    <3> QED BY <1>5, <3>1
  <2>3. 0 \in S
    BY <1>2, <2>1, Zenon
  <2>4. ASSUME NEW n \in S PROVE n + 1 \in S
    <3>1. n \in Nat /\ FlattenSeq(Refusals(n)) \in Seq(Cell) /\ n + 1 \in Nat
      OBVIOUS
    <3>2. FlattenSeq(Refusals(n + 1)) \in Seq(Cell)
      BY <2>2, <3>1
    <3> QED BY <3>1, <3>2
  <2> QED BY <2>3, <2>4
<1> HIDE DEF S
<1>7. S \in SUBSET Nat
  BY DEF S
<1>8. S = Nat
  BY <1>6, <1>7, Induction
<1> QED BY <1>2, <1>5, <1>8 DEF S

LEMMA ToldFacts ==
  ASSUME NEW s \in Session, NEW n \in Nat
  PROVE  /\ Told(s, n) \in Seq(Cell)
         /\ Told(s, n + 1) = Told(s, n) \o Packet(Body(s, n))
         /\ IsPrefix(Told(s, n), Told(s, n + 1))
<1> DEFINE F(k) == FlattenSeq(Refusals(k))
           id == Packet(<<PACKETTYPE_PROTOCOL_ID, s>>)
<1>1. id \in Seq(Cell) /\ id = Packet(Body(s, 0))
  BY FramedBody DEF Body
<1>2. \A k \in Nat : Stream(s, k) = id \o F(k)
  BY DEF Stream, Refusals, Refusal
<1>3. F(0) = <<>> /\ \A k \in Nat : F(k) \in Seq(Cell) /\ F(k + 1) = F(k) \o Refusal
  BY RefusalsFlat
<1> HIDE DEF id, F
<1>4. \A k \in Nat : Told(s, k) \in Seq(Cell)
  <2> TAKE k \in Nat
  <2>1. CASE k = 0
    BY <2>1 DEF Told
  <2>2. CASE k # 0
    <3>1. k - 1 \in Nat
      BY <2>2
    <3>2. Told(s, k) = id \o F(k - 1) /\ F(k - 1) \in Seq(Cell)
      BY <1>2, <1>3, <2>2, <3>1 DEF Told
    <3> QED BY <1>1, <3>2, ConcatProperties
  <2> QED BY <2>1, <2>2
<1>5. Told(s, n + 1) = Told(s, n) \o Packet(Body(s, n))
  <2>1. CASE n = 0
    <3>1. Told(s, 0 + 1) = Stream(s, 0) /\ Told(s, 0) = <<>>
      BY DEF Told
    <3>2. id \o <<>> = id /\ <<>> \o id = id
      BY <1>1, ConcatEmptySeq
    <3> QED BY <1>1, <1>2, <1>3, <2>1, <3>1, <3>2
  <2>2. CASE n # 0
    <3>1. n - 1 \in Nat /\ n - 1 + 1 = n /\ n + 1 - 1 = n /\ n + 1 # 0
      BY <2>2
    <3>2. Told(s, n + 1) = Stream(s, n) /\ Told(s, n) = Stream(s, n - 1)
      BY <2>2, <3>1 DEF Told
    <3>3. F(n) = F(n - 1) \o Refusal /\ F(n - 1) \in Seq(Cell)
      BY <1>3, <3>1
    <3>4. id \o (F(n - 1) \o Refusal) = (id \o F(n - 1)) \o Refusal
      BY <1>1, <3>3, RefusalType, ConcatAssociative
    <3>5. Packet(Body(s, n)) = Refusal
      BY <2>2 DEF Body, Refusal
    <3> QED BY <1>2, <3>1, <3>2, <3>3, <3>4, <3>5
  <2> QED BY <2>1, <2>2
<1>6. IsPrefix(Told(s, n), Told(s, n) \o Packet(Body(s, n)))
  BY <1>4, FramedBody, PrefixOfConcat
<1> QED BY <1>4, <1>5, <1>6

-----------------------------------------------------------------------------
(* The invariant *)

Busy(s) == pc # "loop" /\ cur = s
Due(s) == Len(passwords[s])

TypeInv ==
  /\ sock \in [Session -> {"none", "open", "left"}]
  /\ sk_err \in [Session -> {"none", "ECONNRESET", "EPIPE"}]
  /\ out \in [Session -> Seq(Cell)] /\ got \in [Session -> Seq(Cell)]
  /\ inbox \in [Session -> Seq(Seq(Block))]
  /\ passwords \in [Session -> Seq(Seq(Block))]
  /\ sent \in [Session -> Nat]
  /\ whole \in [Session -> [replies : Nat, cut : BOOLEAN]]
  /\ ar2 \in Seq(Cell) /\ pos \in Nat
  /\ pc # "loop" => cur \in Session /\ sock[cur] # "none"

\* nothing is left of a session that has ended, or has not begun
Fresh(s) ==
  /\ sk_err[s] = "none" /\ out[s] = <<>> /\ got[s] = <<>> /\ inbox[s] = <<>>
  /\ passwords[s] = <<>> /\ sent[s] = 0 /\ whole[s] = Nothing

(***************************************************************************)
(* What has come in is, in order, what the peer has sent and OnCertify has *)
(* not decrypted.                                                          *)
(***************************************************************************)
Mailed(s) ==
  /\ Due(s) + Len(inbox[s]) = sent[s] /\ sent[s] <= MaxCertify(s)
  /\ \A n \in 1..Due(s) : passwords[s][n] = Password(s, n)
  /\ \A i \in 1..Len(inbox[s]) : inbox[s][i] = Encrypted(Password(s, Due(s) + i))

MailInv ==
  /\ TypeInv
  /\ \A s \in Session : (sock[s] = "none" => Fresh(s)) /\ Mailed(s)

-----------------------------------------------------------------------------
LEMMA InitMail == Init => MailInv
<1> SUFFICES ASSUME Init PROVE MailInv
  OBVIOUS
<1> USE DEF Init
<1>1. TypeInv
  BY DEF TypeInv, Nothing
<1>2. ASSUME NEW s \in Session PROVE Fresh(s) /\ Mailed(s)
  <2>1. Fresh(s)
    BY DEF Fresh
  <2>2. Mailed(s)
    BY RepliesAssumption DEF Mailed, Due
  <2> QED BY <2>1, <2>2
<1> QED BY <1>1, <1>2 DEF MailInv

LEMMA SubSeqCells ==
  ASSUME NEW t \in Seq(Cell), NEW m \in Nat, NEW n \in Nat, n <= Len(t)
  PROVE  SubSeq(t, m + 1, n) \in Seq(Cell)
  OBVIOUS

LEMMA NextType == ASSUME MailInv, [Server \/ Peers]_vars PROVE TypeInv'
<1> USE DEF MailInv, TypeInv, kernelVars, threadVars
<1>1. CASE Send
  <2>1. cur \in Session /\ pc = "send"
    BY <1>1 DEF Send
  <2>2. PICK n \in 1..Free :
          /\ pos + n <= Len(ar2) /\ Deliver(n)
          /\ IF pos + n = Len(ar2)
             THEN /\ Return
                  /\ whole' = [whole EXCEPT ![cur].replies =
                                 @ + IF whole[cur].cut THEN 0 ELSE 1]
             ELSE pos' = pos + n /\ UNCHANGED <<pc, cur, ar2, blocking, whole>>
    BY <1>1 DEF Send
  <2>3. n \in Nat
    BY <2>1 DEF Free
  <2>4. SubSeq(ar2, pos + 1, pos + n) \in Seq(Cell)
    BY <2>2, <2>3, SubSeqCells
  <2>5. out' \in [Session -> Seq(Cell)]
    <3>1. out[cur] \o SubSeq(ar2, pos + 1, pos + n) \in Seq(Cell)
      BY <2>1, <2>4
    <3> QED BY <2>1, <2>2, <3>1 DEF Deliver
  <2>6. whole' \in [Session -> [replies : Nat, cut : BOOLEAN]]
    <3> DEFINE d == IF whole[cur].cut THEN 0 ELSE 1
    <3>1. CASE UNCHANGED whole
      BY <3>1
    <3>2. CASE whole' = [whole EXCEPT ![cur].replies = @ + d]
      <4>1. whole[cur].replies + d \in Nat
        BY <2>1
      <4> HIDE DEF d
      <4> QED BY <2>1, <3>2, <4>1
    <3> QED BY <2>2, <3>1, <3>2
  <2>7. ar2' \in Seq(Cell) /\ pos' \in Nat /\ (pc' = "loop" \/ UNCHANGED <<pc, cur>>)
    <3>1. CASE pos + n = Len(ar2)
      BY <2>2, <3>1 DEF Return
    <3>2. CASE pos + n # Len(ar2)
      <4>1. pos' = pos + n /\ UNCHANGED <<pc, cur, ar2>>
        BY <2>2, <3>2
      <4> QED BY <2>3, <4>1
    <3> QED BY <3>1, <3>2
  <2> QED BY <1>1, <2>5, <2>6, <2>7 DEF Send
<1>2. CASE SendWouldBlock \/ SendReset \/ SendAborted
  <2>1. cur \in Session
    BY <1>2 DEF SendWouldBlock, SendReset, SendAborted
  <2>2. whole' \in [Session -> [replies : Nat, cut : BOOLEAN]]
    <3>1. whole' = [whole EXCEPT ![cur].cut = TRUE]
      BY <1>2 DEF SendWouldBlock, SendReset, SendAborted, GiveUp
    <3> QED BY <2>1, <3>1
  <2>3. sk_err' \in [Session -> {"none", "ECONNRESET", "EPIPE"}]
    BY <1>2 DEF SendWouldBlock, SendReset, SendAborted
  <2>4. pc' = "loop" /\ ar2' = <<>> /\ pos' = 0
    BY <1>2 DEF SendWouldBlock, SendReset, SendAborted, GiveUp, Return
  <2>5. UNCHANGED <<sock, out, got, inbox, passwords, sent>>
    BY <1>2 DEF SendWouldBlock, SendReset, SendAborted, GiveUp
  <2> QED BY <2>2, <2>3, <2>4, <2>5
<1>3. CASE SendBrokenPipe
  BY <1>3 DEF SendBrokenPipe
<1>4. ASSUME NEW s \in Session, OnClientConnected(s) PROVE TypeInv'
  <2>1. ar2' \in Seq(Cell)
    <3>1. ar2' = Framed(Body(s, 0))
      BY <1>4 DEF OnClientConnected, SendProtocolId, SendPacket, Body
    <3> QED BY <3>1, FramedBody
  <2> QED BY <1>4, <2>1 DEF OnClientConnected, SendProtocolId, SendPacket
<1>5. ASSUME NEW s \in Session, OnCertify(s) PROVE TypeInv'
  <2>1. ar2' \in Seq(Cell)
    <3>1. ar2' = Framed(Body(s, 1))
      BY <1>5 DEF OnCertify, SendError, SendPacket, Body
    <3> QED BY <3>1, FramedBody
  <2>2. Head(inbox[s]) \in Seq(Block) /\ Tail(inbox[s]) \in Seq(Seq(Block))
    BY <1>5 DEF OnCertify
  <2>3. Decrypted(Chain0, Head(inbox[s])) \in Seq(Block)
    <3> DEFINE e == Head(inbox[s])
               d(i) == Xor(DecryptBlock(e[i]), IF i = 1 THEN Chain0 ELSE e[i - 1])
    <3>1. \A i \in 1..Len(e) : d(i) \in Block
      BY <2>2, RepliesAssumption
    <3>2. Decrypted(Chain0, e) = [i \in 1..Len(e) |-> d(i)] /\ Len(e) \in Nat
      BY <2>2 DEF Decrypted
    <3> HIDE DEF e, d
    <3>3. Decrypted(Chain0, e) \in Seq(Block)
      BY <3>1, <3>2
    <3> QED BY <3>3 DEF e
  <2>4. sock[s] # "none"
    BY <1>5 DEF OnCertify, Fresh
  <2> QED BY <1>5, <2>1, <2>2, <2>3, <2>4 DEF OnCertify, SendError, SendPacket
<1>6. ASSUME NEW s \in Session, Disconnected(s) PROVE TypeInv'
  BY <1>6 DEF Disconnected, Nothing
<1>7. ASSUME NEW s \in Session, PeerCertify(s) PROVE TypeInv'
  <2>1. Encrypted(Password(s, sent[s] + 1)) \in Seq(Block)
    <3>1. sent[s] + 1 \in 1..MaxCertify(s)
      BY <1>7, RepliesAssumption DEF PeerCertify
    <3> QED BY <3>1, RepliesAssumption, EncryptedType
  <2> QED BY <1>7, <2>1 DEF PeerCertify
<1>8. ASSUME NEW s \in Session, PeerReads(s) PROVE TypeInv'
  BY <1>8 DEF PeerReads
<1>9. ASSUME NEW s \in Session, PeerCloses(s) \/ Reset(s) PROVE TypeInv'
  <2>1. CASE PeerCloses(s)
    BY <2>1 DEF PeerCloses
  <2>2. CASE Reset(s)
    <3>1. out' \in [Session -> Seq(Cell)]
      BY <2>2 DEF Reset
    <3>2. sk_err' \in [Session -> {"none", "ECONNRESET", "EPIPE"}]
      BY <2>2 DEF Reset
    <3>3. sock' = [sock EXCEPT ![s] = "left"]
          /\ UNCHANGED <<got, inbox, threadVars, sent, passwords, whole>>
      BY <2>2 DEF Reset
    <3> QED BY <3>1, <3>2, <3>3
  <2> QED BY <1>9, <2>1, <2>2
<1>10. CASE UNCHANGED vars
  BY <1>10 DEF vars
<1> QED BY <1>1, <1>2, <1>3, <1>4, <1>5, <1>6, <1>7, <1>8, <1>9, <1>10
        DEF Server, Sending, Handling, Peers

(***************************************************************************)
(* Only four steps concern what is mailed.                                 *)
(***************************************************************************)
LEMMA NextMail == ASSUME MailInv, [Server \/ Peers]_vars PROVE MailInv'
<1>1. TypeInv'
  BY NextType
<1> SUFFICES ASSUME NEW t \in Session
             PROVE  ((sock[t] = "none" => Fresh(t)) /\ Mailed(t))'
  BY <1>1 DEF MailInv
<1> USE DEF MailInv
<1>2. ASSUME UNCHANGED <<inbox[t], passwords[t], sent[t]>> PROVE Mailed(t)'
  BY <1>2 DEF Mailed, Due
<1>3. ASSUME UNCHANGED <<sock[t], sk_err[t], out[t], got[t], inbox[t], passwords[t],
                         sent[t], whole[t]>>
      PROVE  (sock[t] = "none" => Fresh(t))'
  BY <1>3 DEF Fresh
<1>4. CASE Sending
  <2>1. UNCHANGED <<sock, inbox, passwords, sent>>
    BY <1>4 DEF Sending, Send, SendWouldBlock, SendReset, SendAborted, SendBrokenPipe,
                      GiveUp, kernelVars
  <2>2. CASE sock[t] = "none"
    <3>1. t # cur
      BY <1>4, <2>2 DEF Sending, Send, SendWouldBlock, SendReset, SendAborted, SendBrokenPipe,
                        TypeInv
    <3>2. UNCHANGED <<sk_err[t], out[t], got[t], whole[t]>>
      BY <1>4, <3>1 DEF Sending, Send, SendWouldBlock, SendReset, SendAborted, SendBrokenPipe,
                        GiveUp, Deliver, kernelVars, TypeInv
    <3> QED BY <1>2, <1>3, <2>1, <3>2
  <2> QED BY <1>2, <2>1, <2>2
<1>5. ASSUME NEW s \in Session, OnClientConnected(s) \/ PeerReads(s) \/ PeerCloses(s) \/ Reset(s)
      PROVE  (sock[t] = "none" => Fresh(t))' /\ Mailed(t)'
  <2>1. UNCHANGED <<inbox, passwords, sent, whole>>
    BY <1>5 DEF OnClientConnected, PeerReads, PeerCloses, Reset
  <2>2. CASE s = t
    <3>1. sock'[t] # "none"
      BY <1>5, <2>2 DEF OnClientConnected, PeerReads, PeerCloses, Reset, TypeInv
    <3> QED BY <1>2, <2>1, <3>1
  <2>3. CASE s # t
    <3>1. UNCHANGED <<sock[t], sk_err[t], out[t], got[t]>>
      BY <1>5, <2>3 DEF OnClientConnected, PeerReads, PeerCloses, Reset, TypeInv
    <3> QED BY <1>2, <1>3, <2>1, <3>1
  <2> QED BY <2>2, <2>3
<1>6. ASSUME NEW s \in Session, s # t, OnCertify(s) \/ Disconnected(s) \/ PeerCertify(s)
      PROVE  (sock[t] = "none" => Fresh(t))' /\ Mailed(t)'
  <2>1. UNCHANGED <<sock[t], sk_err[t], out[t], got[t], inbox[t], passwords[t],
                    sent[t], whole[t]>>
    BY <1>6 DEF OnCertify, Disconnected, PeerCertify, kernelVars, TypeInv
  <2> QED BY <1>2, <1>3, <2>1
<1>7. CASE OnCertify(t)
  <2> DEFINE e == Head(inbox[t])
             p == Password(t, Due(t) + 1)
  <2>1. inbox[t] \in Seq(Seq(Block)) /\ inbox[t] # <<>>
        /\ passwords[t] \in Seq(Seq(Block)) /\ sent[t] \in Nat
    BY <1>7 DEF OnCertify, TypeInv
  <2>2. Len(inbox[t]) \in Nat /\ Len(inbox[t]) >= 1 /\ Due(t) \in Nat /\ e = inbox[t][1]
    BY <2>1 DEF Due
  <2>3. Due(t) + 1 \in 1..MaxCertify(t) /\ e = Encrypted(p)
    <3>1. Due(t) + 1 <= sent[t] /\ sent[t] <= MaxCertify(t) /\ MaxCertify(t) \in Nat
      BY <2>2, RepliesAssumption DEF Mailed
    <3> QED BY <2>2, <3>1 DEF Mailed
  <2>4. p \in Seq(Block)
    BY <2>3, RepliesAssumption
  <2>5. Decrypted(Chain0, e) = p
    BY <2>3, <2>4, DecryptedEncrypted
  <2>6. /\ passwords'[t] = Append(passwords[t], p)
        /\ inbox'[t] = Tail(inbox[t]) /\ sent'[t] = sent[t] /\ sock'[t] = sock[t]
    BY <1>7, <2>5 DEF OnCertify, TypeInv, kernelVars
  <2> HIDE DEF e, p
  <2>7. /\ Due(t)' = Due(t) + 1 /\ Len(inbox'[t]) = Len(inbox[t]) - 1
        /\ \A n \in 1..Due(t) : passwords'[t][n] = passwords[t][n]
        /\ passwords'[t][Due(t) + 1] = p
        /\ \A i \in 1..(Len(inbox[t]) - 1) : inbox'[t][i] = inbox[t][i + 1]
    BY <2>1, <2>2, <2>4, <2>6 DEF Due
  <2>8. Mailed(t)'
    <3>1. Due(t)' + Len(inbox'[t]) = sent'[t] /\ sent'[t] <= MaxCertify(t)
      BY <2>2, <2>6, <2>7 DEF Mailed
    <3>2. ASSUME NEW n \in 1..(Due(t) + 1) PROVE passwords'[t][n] = Password(t, n)
      <4>1. n = Due(t) + 1 \/ n \in 1..Due(t)
        BY <2>2
      <4> QED BY <2>7, <4>1 DEF Mailed, p
    <3>3. ASSUME NEW i \in 1..(Len(inbox[t]) - 1)
          PROVE  inbox'[t][i] = Encrypted(Password(t, Due(t) + 1 + i))
      <4>1. i + 1 \in 1..Len(inbox[t]) /\ Due(t) + (i + 1) = Due(t) + 1 + i
        BY <2>2
      <4>2. inbox[t][i + 1] = Encrypted(Password(t, Due(t) + (i + 1)))
        BY <4>1 DEF Mailed
      <4> QED BY <2>7, <4>1, <4>2
    <3> QED BY <2>7, <3>1, <3>2, <3>3 DEF Mailed
  <2>9. sock[t] # "none"
    BY <2>1 DEF Fresh
  <2> QED BY <2>6, <2>8, <2>9
<1>8. CASE Disconnected(t)
  <2>1. Fresh(t)'
    BY <1>8 DEF Disconnected, Fresh, TypeInv
  <2> QED BY <2>1, RepliesAssumption DEF Mailed, Fresh, Due
<1>9. CASE PeerCertify(t)
  <2> DEFINE e == Encrypted(Password(t, sent[t] + 1))
  <2>1. inbox[t] \in Seq(Seq(Block)) /\ passwords[t] \in Seq(Seq(Block)) /\ sent[t] \in Nat
    BY DEF TypeInv
  <2>2. Len(inbox[t]) \in Nat /\ Due(t) \in Nat /\ sent[t] < MaxCertify(t)
    BY <1>9, <2>1 DEF Due, PeerCertify
  <2>3. inbox'[t] = Append(inbox[t], e) /\ sent'[t] = sent[t] + 1
        /\ UNCHANGED <<passwords[t], sock[t]>> /\ sock[t] = "open"
    BY <1>9 DEF PeerCertify, TypeInv, kernelVars
  <2>4. Due(t) + (Len(inbox[t]) + 1) = sent[t] + 1
    BY <2>1, <2>2 DEF Mailed
  <2> HIDE DEF e
  <2>5. /\ Due(t)' = Due(t) /\ Len(inbox'[t]) = Len(inbox[t]) + 1
        /\ \A i \in 1..Len(inbox[t]) : inbox'[t][i] = inbox[t][i]
        /\ inbox'[t][Len(inbox[t]) + 1] = e
    BY <2>1, <2>2, <2>3 DEF Due
  <2>6. ASSUME NEW i \in 1..(Len(inbox[t]) + 1)
        PROVE  inbox'[t][i] = Encrypted(Password(t, Due(t) + i))
    <3>1. CASE i = Len(inbox[t]) + 1
      BY <2>4, <2>5, <3>1 DEF e
    <3>2. CASE i # Len(inbox[t]) + 1
      <4>1. i \in 1..Len(inbox[t])
        BY <2>2, <3>2
      <4> QED BY <2>5, <4>1 DEF Mailed
    <3> QED BY <3>1, <3>2
  <2>7. Due(t)' + Len(inbox'[t]) = sent'[t] /\ sent'[t] <= MaxCertify(t)
    <3>1. MaxCertify(t) \in Nat
      BY RepliesAssumption
    <3> QED BY <2>1, <2>2, <2>3, <2>4, <2>5, <3>1
  <2>8. \A n \in 1..Due(t)' : passwords'[t][n] = Password(t, n)
    BY <2>3, <2>5 DEF Mailed
  <2>9. Mailed(t)'
    BY <2>5, <2>6, <2>7, <2>8 DEF Mailed
  <2> QED BY <2>3, <2>9
<1>10. CASE UNCHANGED vars
  BY <1>2, <1>3, <1>10 DEF vars, kernelVars
<1> QED BY <1>4, <1>5, <1>6, <1>7, <1>8, <1>9, <1>10 DEF Server, Handling, Peers

(***************************************************************************)
(* OnCertify reads the password its client encrypted from a new chain,     *)
(* though one cipher serves all sessions and keeps the chain of the last.  *)
(***************************************************************************)
THEOREM PasswordCorrect == Spec => []PasswordAsSent
<1>1. MailInv => PasswordAsSent
  BY DEF MailInv, Mailed, Due, PasswordAsSent
<1> QED BY <1>1, InitMail, NextMail, PTL DEF Spec

-----------------------------------------------------------------------------
(* What is sent *)

Stream0(s) == got[s] \o out[s]
Partly(s) == IF Busy(s) THEN SubSeq(ar2, 1, pos) ELSE <<>>

(***************************************************************************)
(* Until a reply is cut, exactly what is due has been told, but for the    *)
(* end of the packet SendPacket is at; a reset takes away a part of that.  *)
(***************************************************************************)
Telling(s) ==
  /\ whole[s].replies = IF Busy(s) THEN Due(s) ELSE Due(s) + 1
  /\ Busy(s) => ar2 = Packet(Body(s, Due(s))) /\ pos <= Len(ar2)
  /\ IF sk_err[s] = "none"
     THEN Stream0(s) = Told(s, whole[s].replies) \o Partly(s)
     ELSE IsPrefix(Stream0(s), Told(s, Due(s) + 1))

\* afterwards what was told before stays the beginning
Cut(s) == sk_err[s] = "none" => IsPrefix(Told(s, whole[s].replies), Stream0(s))

Flow(s) ==
  sock[s] # "none" => IF whole[s].cut THEN Cut(s) ELSE Telling(s)

FlowInv == MailInv /\ \A s \in Session : Flow(s)

-----------------------------------------------------------------------------
LEMMA CellsAssociative ==
  ASSUME NEW x \in Seq(Cell), NEW y \in Seq(Cell), NEW z \in Seq(Cell)
  PROVE  (x \o y) \o z = x \o (y \o z)
  BY ConcatAssociative

LEMMA SplitCells ==
  \A x \in Seq(Cell) : \A m, n \in Nat :
     m + n <= Len(x) =>
       /\ SubSeq(x, 1, m) \in Seq(Cell) /\ SubSeq(x, m + 1, m + n) \in Seq(Cell)
       /\ SubSeq(x, 1, m) \o SubSeq(x, m + 1, m + n) = SubSeq(x, 1, m + n)
  BY SubSeqJoin, Zenon

LEMMA SplitCellsAt ==
  ASSUME NEW x \in Seq(Cell), NEW m \in Nat, m <= Len(x)
  PROVE  /\ SubSeq(x, 1, m) \in Seq(Cell) /\ SubSeq(x, m + 1, Len(x)) \in Seq(Cell)
         /\ SubSeq(x, 1, m) \o SubSeq(x, m + 1, Len(x)) = x
<1>1. PICK n \in Nat : m + n = Len(x)
  <2>1. Len(x) - m \in Nat /\ m + (Len(x) - m) = Len(x)
    OBVIOUS
  <2> QED BY <2>1
<1>2. SubSeq(x, 1, Len(x)) = x
  BY SubSeqFull
<1>3. m + n <= Len(x)
  BY <1>1
<1> QED BY <1>1, <1>2, <1>3, SplitCells, Zenon

LEMMA StreamCells ==
  ASSUME TypeInv, NEW s \in Session
  PROVE  /\ got[s] \in Seq(Cell) /\ out[s] \in Seq(Cell) /\ Stream0(s) \in Seq(Cell)
         /\ whole[s].replies \in Nat /\ Due(s) \in Nat
         /\ Told(s, whole[s].replies) \in Seq(Cell) /\ Told(s, Due(s) + 1) \in Seq(Cell)
<1>1. got[s] \in Seq(Cell) /\ out[s] \in Seq(Cell) /\ whole[s].replies \in Nat
      /\ passwords[s] \in Seq(Seq(Block))
  BY DEF TypeInv
<1>2. Due(s) \in Nat /\ Due(s) + 1 \in Nat
  BY <1>1 DEF Due
<1> QED BY <1>1, <1>2, ToldFacts, ConcatProperties DEF Stream0

LEMMA FlowRequires == ASSUME FlowInv, NEW s \in Session, sock[s] # "none" PROVE
  IF whole[s].cut THEN Cut(s) ELSE Telling(s)
  BY DEF FlowInv, Flow

(***************************************************************************)
(* A step that is not about session t.                                     *)
(***************************************************************************)
LEMMA FlowKept ==
  ASSUME FlowInv, NEW t \in Session, Busy(t)' <=> Busy(t),
         Busy(t) => UNCHANGED <<ar2, pos>>,
         UNCHANGED <<sk_err[t], out[t], got[t], passwords[t], whole[t]>>,
         sock[t] # "none" \/ UNCHANGED sock[t]
  PROVE  Flow(t)'
<1>1. UNCHANGED Due(t) /\ UNCHANGED Stream0(t)
  BY DEF Due, Stream0
<1>2. UNCHANGED Partly(t)
  BY DEF Partly
<1>3. Telling(t) => Telling(t)'
  BY <1>1, <1>2 DEF Telling
<1>4. Cut(t) => Cut(t)'
  BY <1>1 DEF Cut
<1> QED BY <1>3, <1>4 DEF FlowInv, Flow

(***************************************************************************)
(* A send gives the kernel the next cells of the packet.                   *)
(***************************************************************************)
LEMMA SendFlow == ASSUME FlowInv, Send, NEW s \in Session, s = cur PROVE Flow(s)'
<1> DEFINE r == whole[s].replies
<1>1. sock[s] # "none" /\ pc = "send" /\ TypeInv /\ sk_err[s] = "none" /\ Busy(s)
  BY DEF Send, FlowInv, MailInv, TypeInv, Busy
<1>2. PICK n \in 1..Free :
        /\ pos + n <= Len(ar2) /\ Deliver(n)
        /\ IF pos + n = Len(ar2)
           THEN /\ Return
                /\ whole' = [whole EXCEPT ![cur].replies =
                               @ + IF whole[cur].cut THEN 0 ELSE 1]
           ELSE pos' = pos + n /\ UNCHANGED <<pc, cur, ar2, blocking, whole>>
  BY DEF Send
<1>3. got[s] \in Seq(Cell) /\ out[s] \in Seq(Cell) /\ Stream0(s) \in Seq(Cell)
      /\ r \in Nat /\ Due(s) \in Nat /\ Told(s, r) \in Seq(Cell)
      /\ pos \in Nat /\ ar2 \in Seq(Cell) /\ n \in Nat
  <2>1. pos \in Nat /\ ar2 \in Seq(Cell)
    BY <1>1 DEF TypeInv
  <2>2. Free \in Int
    BY <1>1, RepliesAssumption DEF TypeInv, Free
  <2> QED BY <1>1, <2>1, <2>2, StreamCells
<1> DEFINE more == SubSeq(ar2, pos + 1, pos + n)
<1>4. more \in Seq(Cell) /\ SubSeq(ar2, 1, pos) \in Seq(Cell)
      /\ SubSeq(ar2, 1, pos) \o more = SubSeq(ar2, 1, pos + n)
  <2>1. pos + n <= Len(ar2)
    BY <1>2
  <2> QED BY <1>3, <2>1, SplitCells, Zenon
<1> HIDE DEF more
<1>5. Stream0(s)' = Stream0(s) \o more
  <2>1. got' = got /\ out'[s] = out[s] \o more
    BY <1>1, <1>2 DEF Send, Deliver, TypeInv, more
  <2>2. got[s] \o (out[s] \o more) = (got[s] \o out[s]) \o more
    <3>1. more \in Seq(Cell)
      BY <1>4
    <3>2. got[s] \in Seq(Cell) /\ out[s] \in Seq(Cell)
      BY <1>3
    <3> QED BY <3>1, <3>2, CellsAssociative
  <2> QED BY <2>1, <2>2 DEF Stream0
<1>6. sk_err'[s] = "none" /\ Due(s)' = Due(s) /\ sock' = sock
  BY <1>1 DEF Send, Due
<1>7. CASE whole[s].cut
  <2>1. whole'[s].cut /\ whole'[s].replies = r
    <3>1. CASE UNCHANGED whole
      BY <1>7, <3>1
    <3>2. CASE whole' = [whole EXCEPT ![cur].replies = @ + IF whole[cur].cut THEN 0 ELSE 1]
      <4>1. whole' = [whole EXCEPT ![s].replies = @ + 0]
        BY <1>7, <3>2
      <4> QED BY <1>1, <1>3, <1>7, <4>1 DEF TypeInv
    <3> QED BY <1>2, <3>1, <3>2
  <2>2. IsPrefix(Told(s, r), Stream0(s))
    BY <1>1, <1>7, FlowRequires DEF Cut
  <2>3. IsPrefix(Told(s, r), Stream0(s) \o more)
    BY <1>3, <1>4, <2>2, PrefixExtends
  <2>4. Cut(s)'
    BY <1>5, <2>1, <2>3 DEF Cut
  <2> QED BY <2>1, <2>4 DEF Flow
<1>8. CASE ~whole[s].cut
  <2>1. /\ r = Due(s) /\ ar2 = Packet(Body(s, Due(s)))
        /\ Stream0(s) = Told(s, r) \o SubSeq(ar2, 1, pos)
    BY <1>1, <1>8, FlowRequires DEF Telling, Partly
  <2>2. Stream0(s)' = Told(s, r) \o SubSeq(ar2, 1, pos + n)
    <3>1. (Told(s, r) \o SubSeq(ar2, 1, pos)) \o more
            = Told(s, r) \o (SubSeq(ar2, 1, pos) \o more)
      <4> DEFINE part == SubSeq(ar2, 1, pos)
      <4>1. part \in Seq(Cell) /\ more \in Seq(Cell)
        BY <1>4
      <4>2. Told(s, r) \in Seq(Cell)
        BY <1>3
      <4> HIDE DEF part
      <4>3. (Told(s, r) \o part) \o more = Told(s, r) \o (part \o more)
        BY <4>1, <4>2, CellsAssociative
      <4> QED BY <4>3 DEF part
    <3> QED BY <1>4, <1>5, <2>1, <3>1
  <2> HIDE DEF r
  <2>3. CASE pos + n = Len(ar2)
    <3>1. whole' = [whole EXCEPT ![s].replies = @ + 1] /\ pc' = "loop"
      BY <1>2, <1>8, <2>3 DEF Return
    <3>2. whole'[s].replies = r + 1 /\ ~whole'[s].cut
      BY <1>1, <1>8, <3>1 DEF TypeInv, r
    <3>3. ~Busy(s)'
      BY <3>1 DEF Busy
    <3>4. SubSeq(ar2, 1, pos + n) = Packet(Body(s, r))
      BY <1>3, <2>1, <2>3, SubSeqFull
    <3>5. Stream0(s)' = Told(s, r + 1)
      BY <1>3, <2>2, <3>4, ToldFacts
    <3>6. Told(s, r + 1) \o <<>> = Told(s, r + 1)
      <4>1. Told(s, r + 1) \in Seq(Cell)
        <5> DEFINE k == r + 1
        <5>1. k \in Nat
          BY <1>3
        <5> HIDE DEF k
        <5>2. Told(s, k) \in Seq(Cell)
          BY <5>1, ToldFacts
        <5> QED BY <5>2 DEF k
      <4> QED BY <4>1, ConcatEmptySeq
    <3>7. Telling(s)'
      <4>1. Partly(s)' = <<>>
        BY <3>3 DEF Partly
      <4> QED BY <1>6, <2>1, <3>2, <3>3, <3>5, <3>6, <4>1 DEF Telling
    <3> QED BY <3>2, <3>7 DEF Flow
  <2>4. CASE pos + n # Len(ar2)
    <3>1. pos' = pos + n /\ UNCHANGED <<pc, cur, ar2, whole>>
      BY <1>2, <2>4
    <3>2. Busy(s)' /\ Partly(s)' = SubSeq(ar2, 1, pos + n)
      BY <1>1, <3>1 DEF Busy, Partly
    <3>3. Telling(s)'
      BY <1>2, <1>6, <2>1, <2>2, <3>1, <3>2 DEF Telling, r
    <3> QED BY <1>8, <3>1, <3>3 DEF Flow
  <2> QED BY <2>3, <2>4
<1> QED BY <1>7, <1>8

LEMMA GiveUpFlow ==
  ASSUME FlowInv, SendWouldBlock \/ SendReset \/ SendAborted, NEW s \in Session, s = cur
  PROVE  Flow(s)'
<1>1. sock[s] # "none" /\ TypeInv
  BY DEF SendWouldBlock, SendReset, SendAborted, FlowInv, MailInv, TypeInv
<1>2. whole' = [whole EXCEPT ![s].cut = TRUE] /\ UNCHANGED <<out, got>>
  BY DEF SendWouldBlock, SendReset, SendAborted, GiveUp
<1>3. whole'[s].cut /\ whole'[s].replies = whole[s].replies
  BY <1>1, <1>2 DEF TypeInv
<1>4. CASE SendReset \/ SendAborted
  <2>1. sk_err'[s] # "none"
    BY <1>1, <1>4 DEF SendReset, SendAborted, TypeInv
  <2> QED BY <1>3, <2>1 DEF Flow, Cut
<1>5. CASE SendWouldBlock
  <2>1. sk_err[s] = "none" /\ Busy(s) /\ Stream0(s)' = Stream0(s)
    BY <1>2, <1>5 DEF SendWouldBlock, Busy, Stream0
  <2>2. IsPrefix(Told(s, whole[s].replies), Stream0(s))
    <3>1. CASE whole[s].cut
      BY <1>1, <2>1, <3>1, FlowRequires DEF Cut
    <3>2. CASE ~whole[s].cut
      <4>1. /\ Stream0(s) = Told(s, whole[s].replies) \o SubSeq(ar2, 1, pos)
            /\ pos <= Len(ar2)
        BY <1>1, <2>1, <3>2, FlowRequires DEF Telling, Partly
      <4>2. SubSeq(ar2, 1, pos) \in Seq(Cell)
        BY <1>1, <4>1 DEF TypeInv
      <4>3. Told(s, whole[s].replies) \in Seq(Cell)
        BY <1>1, StreamCells
      <4> QED BY <4>1, <4>2, <4>3, PrefixOfConcat
    <3> QED BY <3>1, <3>2
  <2> QED BY <1>3, <2>1, <2>2 DEF Flow, Cut
<1> QED BY <1>4, <1>5

LEMMA ConnectedFlow ==
  ASSUME FlowInv, NEW s \in Session, OnClientConnected(s) PROVE Flow(s)'
<1>1. Fresh(s) /\ TypeInv
  BY DEF FlowInv, MailInv, OnClientConnected
<1>2. /\ pc' = "send" /\ cur' = s /\ ar2' = Framed(Body(s, 0)) /\ pos' = 0
      /\ UNCHANGED <<sk_err, out, got, passwords, whole>>
  BY DEF OnClientConnected, SendProtocolId, SendPacket, Body
<1>3. Due(s)' = 0 /\ Busy(s)' /\ whole'[s] = Nothing /\ sk_err'[s] = "none"
  BY <1>1, <1>2 DEF Due, Busy, Fresh
<1>4. ar2' = Packet(Body(s, 0)) /\ Len(ar2') = 4 /\ ar2' \in Seq(Cell)
  BY <1>2, FramedBody
<1>5. Stream0(s)' = <<>>
  BY <1>1, <1>2 DEF Fresh, Stream0
<1>6. Partly(s)' = <<>> /\ Told(s, 0) = <<>>
  <2>1. SubSeq(ar2', 1, 0) = <<>>
    BY <1>4
  <2> QED BY <1>2, <1>3, <2>1 DEF Partly, Told
<1>7. Telling(s)'
  BY <1>2, <1>3, <1>4, <1>5, <1>6 DEF Telling, Nothing
<1> QED BY <1>3, <1>7 DEF Flow, Nothing

LEMMA CertifyFlow ==
  ASSUME FlowInv, NEW s \in Session, OnCertify(s) PROVE Flow(s)'
<1>1. TypeInv /\ pc = "loop" /\ ~Busy(s) /\ sock[s] # "none"
  BY DEF FlowInv, MailInv, OnCertify, Busy, Fresh
<1>2. /\ pc' = "send" /\ cur' = s /\ ar2' = Framed(Body(s, 1)) /\ pos' = 0
      /\ UNCHANGED <<sock, sk_err, out, got, whole>>
      /\ \E p : passwords' = [passwords EXCEPT ![s] = Append(@, p)]
  <2>1. \E p : passwords' = [passwords EXCEPT ![s] = Append(@, p)]
    <3>1. passwords' = [passwords EXCEPT ![s] = Append(@, Decrypted(Chain0, Head(inbox[s])))]
      BY DEF OnCertify
    <3> QED BY <3>1
  <2>2. UNCHANGED <<sock, sk_err, out, got, whole>>
    BY DEF OnCertify, kernelVars
  <2>3. SendError(s, ERROR_FLYFF_ACCOUNT)
    BY DEF OnCertify
  <2>4. Body(s, 1) = <<PACKETTYPE_ERROR, ERROR_FLYFF_ACCOUNT>>
    BY DEF Body
  <2>5. pc' = "send" /\ cur' = s /\ ar2' = Framed(Body(s, 1)) /\ pos' = 0
    BY <2>3, <2>4 DEF SendError, SendPacket
  <2> QED BY <2>1, <2>2, <2>5
<1>3. Due(s)' = Due(s) + 1 /\ Busy(s)' /\ Due(s) \in Nat
  <2>1. passwords[s] \in Seq(Seq(Block))
    BY <1>1 DEF TypeInv
  <2>2. PICK p : passwords'[s] = Append(passwords[s], p)
    BY <1>1, <1>2 DEF TypeInv
  <2>3. Len(Append(passwords[s], p)) = Len(passwords[s]) + 1
    BY <2>1
  <2> QED BY <1>2, <2>1, <2>2, <2>3 DEF Due, Busy
<1>4. ar2' = Packet(Body(s, Due(s) + 1)) /\ Len(ar2') = 4 /\ ar2' \in Seq(Cell)
  <2>1. Body(s, Due(s) + 1) = Body(s, 1)
    BY <1>3 DEF Body
  <2> QED BY <1>2, <2>1, FramedBody
<1>5. Stream0(s)' = Stream0(s)
  BY <1>2 DEF Stream0
<1>6. CASE whole[s].cut
  <2>1. Cut(s)'
    BY <1>1, <1>2, <1>5, <1>6, FlowRequires DEF Cut
  <2> QED BY <1>2, <1>6, <2>1 DEF Flow
<1>7. CASE ~whole[s].cut
  <2>1. Telling(s)
    BY <1>1, <1>7, FlowRequires
  <2>2. Partly(s)' = <<>> /\ Partly(s) = <<>>
    <3>1. SubSeq(ar2', 1, 0) = <<>>
      BY <1>4
    <3> QED BY <1>1, <1>2, <1>3, <3>1 DEF Partly
  <2>3. sk_err[s] # "none" => IsPrefix(Stream0(s), Told(s, Due(s) + 1 + 1))
    <3>1. PICK k \in Nat : k = Due(s) + 1
      BY <1>3
    <3>2. /\ Told(s, k) \in Seq(Cell) /\ Told(s, k + 1) = Told(s, k) \o Packet(Body(s, k))
          /\ Packet(Body(s, k)) \in Seq(Cell) /\ Stream0(s) \in Seq(Cell)
      BY <1>1, ToldFacts, FramedBody, StreamCells
    <3>3. sk_err[s] # "none" => IsPrefix(Stream0(s), Told(s, k))
      BY <2>1, <3>1 DEF Telling
    <3>4. sk_err[s] # "none" => IsPrefix(Stream0(s), Told(s, k + 1))
      BY <3>2, <3>3, PrefixExtends
    <3> QED BY <3>1, <3>4
  <2>4. Telling(s)'
    BY <1>1, <1>2, <1>3, <1>4, <1>5, <2>1, <2>2, <2>3 DEF Telling
  <2> QED BY <1>2, <1>7, <2>4 DEF Flow
<1> QED BY <1>6, <1>7

LEMMA ReadsFlow ==
  ASSUME FlowInv, NEW s \in Session, PeerReads(s) PROVE Flow(s)'
<1>1. TypeInv /\ sock[s] # "none" /\ sk_err[s] = "none"
  BY DEF FlowInv, MailInv, PeerReads
<1>2. PICK n \in 1..Len(out[s]) :
        /\ got' = [got EXCEPT ![s] = @ \o SubSeq(out[s], 1, n)]
        /\ out' = [out EXCEPT ![s] = SubSeq(@, n + 1, Len(@))]
  BY DEF PeerReads
<1>3. got[s] \in Seq(Cell) /\ out[s] \in Seq(Cell) /\ Len(out[s]) \in Nat /\ n \in Nat
      /\ n <= Len(out[s])
  BY <1>1 DEF TypeInv
<1>4. Stream0(s)' = Stream0(s)
  <2> DEFINE a == SubSeq(out[s], 1, n)
             b == SubSeq(out[s], n + 1, Len(out[s]))
  <2>1. got'[s] = got[s] \o a /\ out'[s] = b
    BY <1>1, <1>2 DEF TypeInv
  <2>4. a \in Seq(Cell) /\ b \in Seq(Cell) /\ a \o b = out[s]
    BY <1>3, SplitCellsAt
  <2> HIDE DEF a, b
  <2>5. (got[s] \o a) \o b = got[s] \o (a \o b)
    BY <1>3, <2>4, CellsAssociative
  <2> QED BY <2>1, <2>4, <2>5 DEF Stream0
<1>5. UNCHANGED <<sock, sk_err, pc, cur, ar2, pos, passwords, whole>>
  BY DEF PeerReads, threadVars
<1>6. UNCHANGED <<Busy(s), Due(s), Partly(s)>>
  BY <1>5 DEF Busy, Due, Partly
<1>7. Telling(s) => Telling(s)'
  BY <1>4, <1>5, <1>6 DEF Telling
<1>8. Cut(s) => Cut(s)'
  BY <1>4, <1>5 DEF Cut
<1> QED BY <1>1, <1>5, <1>7, <1>8, FlowRequires DEF Flow

(***************************************************************************)
(* Nothing is told that is not due.                                        *)
(***************************************************************************)
LEMMA ToldInFull ==
  ASSUME TypeInv, NEW s \in Session, Telling(s), sk_err[s] = "none"
  PROVE  IsPrefix(Stream0(s), Told(s, Due(s) + 1))
<1>1. got[s] \in Seq(Cell) /\ out[s] \in Seq(Cell) /\ Stream0(s) \in Seq(Cell)
      /\ Due(s) \in Nat /\ Told(s, Due(s) + 1) \in Seq(Cell)
  BY StreamCells
<1>2. Told(s, Due(s)) \in Seq(Cell) /\ Packet(Body(s, Due(s))) \in Seq(Cell)
      /\ Told(s, Due(s) + 1) = Told(s, Due(s)) \o Packet(Body(s, Due(s)))
  BY <1>1, ToldFacts, FramedBody
<1>3. CASE Busy(s)
  <2> DEFINE a == SubSeq(ar2, 1, pos)
             b == SubSeq(ar2, pos + 1, Len(ar2))
  <2>1. /\ Stream0(s) = Told(s, Due(s)) \o a
        /\ ar2 = Packet(Body(s, Due(s))) /\ pos <= Len(ar2)
    BY <1>3 DEF Telling, Partly
  <2>2. ar2 \in Seq(Cell) /\ pos \in Nat /\ Len(ar2) \in Nat
    BY DEF TypeInv
  <2>3. a \in Seq(Cell) /\ b \in Seq(Cell) /\ a \o b = ar2
    BY <2>1, <2>2, SplitCellsAt
  <2> HIDE DEF a, b
  <2>6. Told(s, Due(s)) \o ar2 = Stream0(s) \o b
    <3>1. (Told(s, Due(s)) \o a) \o b = Told(s, Due(s)) \o (a \o b)
      BY <1>2, <2>3, CellsAssociative
    <3> QED BY <2>1, <2>3, <3>1
  <2>7. IsPrefix(Stream0(s), Stream0(s) \o b)
    BY <1>1, <2>3, PrefixOfConcat
  <2> QED BY <1>2, <2>1, <2>6, <2>7
<1>4. CASE ~Busy(s)
  <2>1. Stream0(s) = Told(s, Due(s) + 1) \o <<>>
    BY <1>4 DEF Telling, Partly
  <2>2. Stream0(s) = Told(s, Due(s) + 1)
    BY <1>1, <2>1, ConcatEmptySeq
  <2>3. IsPrefix(Stream0(s), Stream0(s) \o <<>>) /\ Stream0(s) \o <<>> = Stream0(s)
    <3>1. <<>> \in Seq(Cell)
      OBVIOUS
    <3> QED BY <1>1, <3>1, PrefixOfConcat, ConcatEmptySeq
  <2> QED BY <2>2, <2>3
<1> QED BY <1>3, <1>4

(***************************************************************************)
(* A reset takes what was not read: what was is still a beginning of what  *)
(* is due.                                                                 *)
(***************************************************************************)
LEMMA ResetFlow ==
  ASSUME FlowInv, NEW s \in Session, Reset(s) PROVE Flow(s)'
<1>1. TypeInv /\ sock[s] # "none" /\ sk_err[s] = "none"
  BY DEF FlowInv, MailInv, Reset
<1>2. /\ UNCHANGED <<got, pc, cur, ar2, pos, passwords, whole>>
      /\ out'[s] = <<>> /\ sk_err'[s] # "none"
  BY <1>1 DEF Reset, threadVars, TypeInv
<1>3. CASE whole[s].cut
  BY <1>2, <1>3 DEF Flow, Cut
<1>4. CASE ~whole[s].cut
  <2>1. Telling(s)
    BY <1>1, <1>4, FlowRequires
  <2>2. got[s] \in Seq(Cell) /\ out[s] \in Seq(Cell) /\ Told(s, Due(s) + 1) \in Seq(Cell)
    BY <1>1, StreamCells
  <2>4. IsPrefix(Stream0(s), Told(s, Due(s) + 1))
    BY <1>1, <2>1, ToldInFull
  <2>5. IsPrefix(got[s], Told(s, Due(s) + 1))
    BY <2>2, <2>4, PrefixFront DEF Stream0
  <2>6. Stream0(s)' = got[s] /\ UNCHANGED <<Busy(s), Due(s)>>
    <3>1. got[s] \o <<>> = got[s]
      BY <2>2, ConcatEmptySeq
    <3> QED BY <1>2, <3>1 DEF Stream0, Busy, Due
  <2>7. Telling(s)'
    BY <1>2, <2>1, <2>5, <2>6 DEF Telling
  <2> QED BY <1>2, <1>4, <2>7 DEF Flow
<1> QED BY <1>3, <1>4

LEMMA NextFlow == ASSUME FlowInv, [Server \/ Peers]_vars PROVE FlowInv'
<1>0. MailInv'
  BY NextMail DEF FlowInv
<1> SUFFICES ASSUME NEW t \in Session PROVE Flow(t)'
  BY <1>0 DEF FlowInv
<1>1. TypeInv
  BY DEF FlowInv, MailInv
<1>2. CASE Sending
  <2>1. cur \in Session /\ pc = "send" /\ sock' = sock /\ passwords' = passwords
    BY <1>1, <1>2 DEF Sending, Send, SendWouldBlock, SendReset, SendAborted, SendBrokenPipe,
                      GiveUp, TypeInv, kernelVars
  <2>2. CASE SendBrokenPipe
    <3>1. Busy(t)' <=> Busy(t)
      BY <2>2 DEF SendBrokenPipe, Busy
    <3> QED BY <2>2, <3>1, FlowKept DEF SendBrokenPipe, kernelVars
  <2>3. CASE ~SendBrokenPipe /\ t = cur
    BY <1>2, <2>3, SendFlow, GiveUpFlow DEF Sending
  <2>4. CASE ~SendBrokenPipe /\ t # cur
    <3>1. ~Busy(t) /\ ~Busy(t)'
      BY <1>2, <2>4 DEF Busy, Sending, Send, SendWouldBlock, SendReset, SendAborted,
                            GiveUp, Return
    <3>2. UNCHANGED <<sk_err[t], out[t], got[t], whole[t]>>
      BY <1>1, <1>2, <2>4 DEF Sending, Send, SendWouldBlock, SendReset, SendAborted,
                              GiveUp, Deliver, TypeInv
    <3> QED BY <2>1, <3>1, <3>2, FlowKept
  <2> QED BY <2>2, <2>3, <2>4
<1>3. ASSUME NEW s \in Session, OnClientConnected(s) \/ OnCertify(s) PROVE Flow(t)'
  <2>1. CASE s = t
    BY <1>3, <2>1, ConnectedFlow, CertifyFlow
  <2>2. CASE s # t
    <3>1. ~Busy(t) /\ ~Busy(t)'
      BY <1>3, <2>2 DEF Busy, OnClientConnected, OnCertify, SendProtocolId, SendError, SendPacket
    <3>2. UNCHANGED <<sk_err[t], out[t], got[t], passwords[t], whole[t], sock[t]>>
      BY <1>1, <1>3, <2>2 DEF OnClientConnected, OnCertify, kernelVars, TypeInv
    <3> QED BY <3>1, <3>2, FlowKept
  <2> QED BY <2>1, <2>2
<1>4. ASSUME NEW s \in Session, Disconnected(s) PROVE Flow(t)'
  <2>1. CASE s = t
    BY <1>1, <1>4, <2>1 DEF Flow, Disconnected, TypeInv
  <2>2. CASE s # t
    <3>1. UNCHANGED <<sk_err[t], out[t], got[t], passwords[t], whole[t], sock[t],
                      ar2, pos>> /\ (Busy(t)' <=> Busy(t))
      BY <1>1, <1>4, <2>2 DEF Disconnected, threadVars, TypeInv, Busy
    <3> QED BY <3>1, FlowKept
  <2> QED BY <2>1, <2>2
<1>5. ASSUME NEW s \in Session, PeerReads(s) \/ Reset(s) PROVE Flow(t)'
  <2>1. CASE s = t
    BY <1>5, <2>1, ReadsFlow, ResetFlow
  <2>2. CASE s # t
    <3>1. UNCHANGED <<sk_err[t], out[t], got[t], passwords[t], whole[t], sock[t],
                      ar2, pos>> /\ (Busy(t)' <=> Busy(t))
      BY <1>1, <1>5, <2>2 DEF PeerReads, Reset, threadVars, TypeInv, Busy
    <3> QED BY <3>1, FlowKept
  <2> QED BY <2>1, <2>2
<1>6. ASSUME NEW s \in Session, PeerCertify(s) \/ PeerCloses(s) PROVE Flow(t)'
  <2>1. UNCHANGED <<sk_err, out, got, passwords, whole, ar2, pos>> /\ (Busy(t)' <=> Busy(t))
    BY <1>6 DEF PeerCertify, PeerCloses, kernelVars, threadVars, Busy
  <2>2. sock[t] # "none" \/ UNCHANGED sock[t]
    BY <1>1, <1>6 DEF PeerCertify, PeerCloses, kernelVars, TypeInv
  <2> QED BY <2>1, <2>2, FlowKept
<1>7. CASE UNCHANGED vars
  BY <1>7, FlowKept DEF vars, kernelVars, threadVars, Busy
<1> QED BY <1>2, <1>3, <1>4, <1>5, <1>6, <1>7 DEF Server, Handling, Peers

LEMMA FlowInOrder == FlowInv => RepliesInOrder
<1> SUFFICES ASSUME FlowInv, NEW s \in Session
             PROVE  /\ sk_err[s] = "none" /\ whole[s].replies > 0 =>
                         IsPrefix(Stream(s, whole[s].replies - 1), Stream0(s))
                    /\ ~whole[s].cut => IsPrefix(Stream0(s), Stream(s, Due(s)))
                    /\ ~whole[s].cut /\ sock[s] # "none" /\ ~Busy(s) =>
                         whole[s].replies = 1 + Due(s)
  BY DEF RepliesInOrder, Stream0, Due, Busy
<1> DEFINE r == whole[s].replies
<1>1. TypeInv
  BY DEF FlowInv, MailInv
<1>2. /\ Stream0(s) \in Seq(Cell) /\ r \in Nat /\ Due(s) \in Nat
      /\ Told(s, r) \in Seq(Cell) /\ Told(s, Due(s) + 1) \in Seq(Cell)
  BY <1>1, StreamCells
<1>3. Told(s, Due(s) + 1) = Stream(s, Due(s)) /\ (r > 0 => Told(s, r) = Stream(s, r - 1))
  <2>1. Due(s) + 1 # 0 /\ Due(s) + 1 - 1 = Due(s)
    BY <1>2
  <2> QED BY <1>2, <2>1 DEF Told
<1>4. CASE sock[s] = "none"
  <2>1. Fresh(s)
    BY <1>4 DEF FlowInv, MailInv
  <2>2. Stream0(s) = <<>> /\ r = 0
    BY <2>1 DEF Fresh, Stream0, Nothing
  <2>3. IsPrefix(<<>>, Told(s, Due(s) + 1))
    <3> DEFINE t == Told(s, Due(s) + 1)
    <3>1. <<>> \in Seq(Cell) /\ <<>> \o t = t
      BY <1>2, ConcatEmptySeq
    <3> HIDE DEF t
    <3>2. IsPrefix(<<>>, <<>> \o t)
      BY <1>2, <3>1, PrefixOfConcat DEF t
    <3> QED BY <3>1, <3>2 DEF t
  <2> QED BY <1>3, <1>4, <2>2, <2>3
<1>5. CASE sock[s] # "none" /\ whole[s].cut
  <2>1. Cut(s)
    BY <1>5, FlowRequires
  <2> QED BY <1>3, <1>5, <2>1 DEF Cut
<1>6. CASE sock[s] # "none" /\ ~whole[s].cut
  <2>1. Telling(s)
    BY <1>6, FlowRequires
  <2>2. r = IF Busy(s) THEN Due(s) ELSE Due(s) + 1
    BY <2>1 DEF Telling
  <2>3. CASE sk_err[s] # "none"
    BY <1>2, <1>3, <2>1, <2>2, <2>3 DEF Telling
  <2>4. CASE sk_err[s] = "none"
    <3>1. Stream0(s) = Told(s, r) \o Partly(s) /\ Partly(s) \in Seq(Cell)
      BY <1>1, <2>1, <2>4 DEF Telling, Partly, TypeInv
    <3>2. IsPrefix(Told(s, r), Stream0(s))
      BY <1>2, <3>1, PrefixOfConcat
    <3>3. IsPrefix(Stream0(s), Told(s, Due(s) + 1))
      BY <1>1, <2>1, <2>4, ToldInFull
    <3> QED BY <1>2, <1>3, <2>2, <3>2, <3>3
  <2> QED BY <2>3, <2>4
<1> QED BY <1>4, <1>5, <1>6

(***************************************************************************)
(* A peer reads his protocol id and one refusal for every certify packet,  *)
(* in order, each a whole packet, however sends were divided and whatever  *)
(* other sessions did; as far as the first reply that was cut.             *)
(***************************************************************************)
THEOREM RepliesCorrect == Spec => []RepliesInOrder
<1>1. Init => FlowInv
  <2>1. Init => \A s \in Session : Flow(s)
    BY DEF Init, Flow
  <2> QED BY <2>1, InitMail DEF FlowInv
<1>2. FlowInv /\ [Server \/ Peers]_vars => FlowInv'
  BY NextFlow
<1> QED BY <1>1, <1>2, FlowInOrder, PTL DEF Spec
=============================================================================
