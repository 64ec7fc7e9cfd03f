-------------------------- MODULE PacketLoopProofs ---------------------------
(***************************************************************************)
(* Proofs about CAr, for every size of its array, every set of inputs and  *)
(* every order in which memcpy may copy, and about PacketLoop, whose calls *)
(* on such an archive implement the rounds of PacketRounds, for every      *)
(* stream and every way the stream is cut.  The bounds limit how far an    *)
(* archive may grow and not the argument.                                  *)
(***************************************************************************)
EXTENDS PacketLoop, SequenceTheorems, TLAPS

-----------------------------------------------------------------------------
(* The archive by itself: CAr's specification *)

IInv == InBounds /\ HeapIsKnown

(***************************************************************************)
(* A capacity CheckBuf chooses holds what is asked for and is no smaller   *)
(* than the one before.                                                    *)
(***************************************************************************)
LEMMA CapacityFits ==
  ASSUME IInv, NEW need \in Nat, NEW room \in Capacities(need)
  PROVE  room \in Nat /\ room >= need /\ room >= m_nBufSize
BY DEF IInv, InBounds, Capacities

LEMMA GrownTyped ==
  ASSUME IInv, NEW room \in Nat
  PROVE  Grown(room) \in [0..(room - 1) -> Cell]
BY ArchiveAssumption DEF IInv, InBounds, Grown

LEMMA StoredTyped ==
  ASSUME NEW room \in Nat, NEW cells \in [0..(room - 1) -> Cell],
         NEW at \in Nat, NEW data \in Seq(Cell)
  PROVE  Stored(cells, at, data) \in [0..(room - 1) -> Cell]
<1>1. Len(data) \in Nat
  BY LenProperties
<1>2. \A i \in at..(at + Len(data) - 1) : data[i - at + 1] \in Cell
  BY <1>1, ElementOfSeq
<1> QED BY <1>1, <1>2 DEF Stored

(***************************************************************************)
(* memcpy within a block takes every byte from the source region, in       *)
(* whatever order it copies.                                               *)
(***************************************************************************)
LEMMA CopiedTyped ==
  ASSUME NEW room \in Nat, NEW cells \in [0..(room - 1) -> Cell],
         NEW target \in Nat, NEW source \in Nat, NEW n \in Nat,
         NEW way \in {"memmove", "ascending", "descending"},
         source + n <= room
  PROVE  Copied(cells, target, source, n, way) \in [0..(room - 1) -> Cell]
<1> DEFINE distance == IF target > source THEN target - source ELSE source - target
           origin(j) ==
             IF way = "ascending" /\ source < target /\ target < source + n
             THEN j % distance
             ELSE IF way = "descending" /\ target < source /\ source < target + n
             THEN j + distance * ((n - 1 - j) \div distance)
             ELSE j
<1>1. \A a, b \in Nat : b > 0 => a % b \in Nat /\ a % b <= a
  OBVIOUS
<1>2. \A a, b \in Nat : b > 0 => b * (a \div b) \in Nat /\ b * (a \div b) <= a
  OBVIOUS
<1>3. \A j \in 0..(n - 1) : origin(j) \in 0..(n - 1)
  <2> SUFFICES ASSUME NEW j \in 0..(n - 1) PROVE origin(j) \in 0..(n - 1)
    OBVIOUS
  <2>1. CASE way = "ascending" /\ source < target /\ target < source + n
    <3>1. origin(j) = j % distance /\ distance \in Nat /\ distance > 0
      BY <2>1
    <3> HIDE DEF distance, origin
    <3> QED BY <3>1, <1>1
  <2>2. CASE way = "descending" /\ target < source /\ source < target + n
    <3>1. /\ origin(j) = j + distance * ((n - 1 - j) \div distance)
          /\ distance \in Nat /\ distance > 0
      BY <2>2
    <3>2. n - 1 - j \in Nat
      OBVIOUS
    <3> HIDE DEF distance, origin
    <3>3. distance * ((n - 1 - j) \div distance) \in Nat
          /\ distance * ((n - 1 - j) \div distance) <= n - 1 - j
      BY <3>1, <3>2, <1>2
    <3> QED BY <3>1, <3>3
  <2>3. CASE origin(j) = j
    BY <2>3
  <2> QED BY <2>1, <2>2, <2>3
<1> HIDE DEF origin
<1>4. \A i \in 0..(room - 1) :
        i \in target..(target + n - 1) => cells[source + origin(i - target)] \in Cell
  <2> SUFFICES ASSUME NEW i \in target..(target + n - 1)
               PROVE  cells[source + origin(i - target)] \in Cell
    OBVIOUS
  <2>1. origin(i - target) \in 0..(n - 1)
    BY <1>3
  <2>2. source + origin(i - target) \in 0..(room - 1)
    BY <2>1
  <2> QED BY <2>2
<1>5. Copied(cells, target, source, n, way) =
        [i \in DOMAIN cells |->
           IF i \in target..(target + n - 1) THEN cells[source + origin(i - target)]
           ELSE cells[i]]
  BY DEF Copied, origin
<1> QED BY <1>4, <1>5

-----------------------------------------------------------------------------
(* The invariant *)

LEMMA InitIInv == Init => IInv
BY ArchiveAssumption, EmptySeq DEF Init, IInv, InBounds, HeapIsKnown

(***************************************************************************)
(* CheckBuf leaves a block whose kind its capacity tells.                  *)
(***************************************************************************)
LEMMA CheckBufKeeps ==
  ASSUME IInv, m_bIsStoring, NEW need \in Nat, NEW room \in Capacities(need),
         CheckBuf(room)
  PROVE  /\ room \in Nat /\ room >= need /\ room >= m_nBufSize
         /\ m_nBufSize' = room /\ m_lpBufEnd' = room
         /\ block' \in {"inline", "heap", "caller"}
         /\ m_bIsStoring' \in BOOLEAN
         /\ HeapIsKnown'
<1>1. room \in Nat /\ room >= need /\ room >= m_nBufSize
  BY CapacityFits
<1>2. m_nBufSize' = room /\ m_lpBufEnd' = room
  BY DEF CheckBuf, IInv, InBounds
<1>3. block' \in {"inline", "heap", "caller"}
  BY DEF CheckBuf, IInv, InBounds
<1>4. m_bIsStoring' \in BOOLEAN
  BY DEF CheckBuf, IInv, InBounds
<1>5. HeapIsKnown'
  BY <1>1, <1>2, ArchiveAssumption DEF CheckBuf, IInv, InBounds, HeapIsKnown
<1> QED BY <1>1, <1>2, <1>3, <1>4, <1>5

LEMMA ResetStep ==
  ASSUME IInv, NEW data \in Input, ResetStoring \/ ResetLoading(data)
  PROVE  IInv'
<1>1. CASE ResetStoring
  BY <1>1, ArchiveAssumption
  DEF ResetStoring, IInv, InBounds, HeapIsKnown
<1>2. CASE ResetLoading(data)
  <2>1. data \in Seq(Cell) /\ Len(data) \in Nat
    BY ArchiveAssumption, LenProperties
  <2>2. \A i \in 0..(Len(data) - 1) : data[i + 1] \in Cell
    BY <2>1, ElementOfSeq
  <2>3. mem' \in [0..(Len(data) - 1) -> Cell]
    BY <1>2, <2>2 DEF ResetLoading
  <2>4. HeapIsKnown'
    BY <1>2 DEF ResetLoading, HeapIsKnown
  <2>5. m_bIsStoring' \in BOOLEAN
    BY <1>2 DEF ResetLoading
  <2>6. /\ m_nBufSize' = Len(data) /\ m_lpBufEnd' = Len(data)
        /\ m_lpBufCur' = 0 /\ m_lpBufMax' = Len(data)
        /\ block' = "caller" /\ got' \in Seq(Cell)
    BY <1>2 DEF ResetLoading, IInv, InBounds
  <2>7. InBounds'
    BY <2>1, <2>3, <2>5, <2>6 DEF InBounds
  <2> QED BY <2>4, <2>7 DEF IInv
<1> QED BY <1>1, <1>2

LEMMA ReadStep == ASSUME IInv, NEW n \in Nat, Read(n) PROVE IInv'
<1>1. \A i \in 1..n : mem[m_lpBufCur + i - 1] \in Cell
  BY DEF Read, IInv, InBounds
<1>2. got' \in [1..n -> Cell]
  BY <1>1 DEF Read
<1>3. got' \in Seq(Cell)
  BY <1>2, SeqDef
<1>4. m_lpBufCur' \in 0..m_lpBufEnd
  BY DEF Read, IInv, InBounds
<1> QED BY <1>3, <1>4 DEF Read, shape, IInv, InBounds, HeapIsKnown

LEMMA WriteStep == ASSUME IInv, NEW data \in Seq(Cell), Write(data) PROVE IInv'
<1>1. Len(data) \in Nat
  BY LenProperties
<1> DEFINE end == m_lpBufCur + Len(data)
<1>2. end \in Nat /\ m_lpBufCur \in Nat /\ m_lpBufMax \in Nat
  BY <1>1 DEF IInv, InBounds
<1>3. PICK room \in Capacities(end) :
        CheckBuf(room) /\ mem' = Stored(Grown(room), m_lpBufCur, data)
  BY DEF Write
<1>4. /\ m_bIsStoring /\ m_lpBufCur' = end /\ got' = got
      /\ m_lpBufMax' = Larger(m_lpBufMax, end)
  BY DEF Write
<1> HIDE DEF end
<1>5. /\ room \in Nat /\ room >= end /\ room >= m_nBufSize
      /\ m_nBufSize' = room /\ m_lpBufEnd' = room
      /\ block' \in {"inline", "heap", "caller"}
      /\ m_bIsStoring' \in BOOLEAN
      /\ HeapIsKnown'
  BY <1>2, <1>3, <1>4, CheckBufKeeps
<1>6. mem' \in [0..(room - 1) -> Cell]
  BY <1>2, <1>3, <1>5, GrownTyped, StoredTyped
<1>7. m_lpBufCur' \in 0..room /\ m_lpBufMax' \in 0..room
  BY <1>2, <1>4, <1>5 DEF Larger, IInv, InBounds
<1> QED BY <1>4, <1>5, <1>6, <1>7 DEF IInv, InBounds

LEMMA ReserveStep == ASSUME IInv, NEW n \in Nat, Reserve(n) PROVE IInv'
<1> DEFINE end == m_lpBufCur + n
<1>1. end \in Nat /\ m_lpBufMax \in Nat
  BY DEF IInv, InBounds
<1>2. PICK room \in Capacities(end) : CheckBuf(room) /\ mem' = Grown(room)
  BY DEF Reserve
<1>3. /\ m_bIsStoring /\ m_lpBufCur' = end /\ got' = got
      /\ m_lpBufMax' = Larger(m_lpBufMax, end)
  BY DEF Reserve
<1> HIDE DEF end
<1>4. /\ room \in Nat /\ room >= end /\ room >= m_nBufSize
      /\ m_nBufSize' = room /\ m_lpBufEnd' = room
      /\ block' \in {"inline", "heap", "caller"}
      /\ m_bIsStoring' \in BOOLEAN
      /\ HeapIsKnown'
  BY <1>1, <1>2, <1>3, CheckBufKeeps
<1>5. mem' \in [0..(room - 1) -> Cell]
  BY <1>2, <1>4, GrownTyped
<1>6. m_lpBufCur' \in 0..room /\ m_lpBufMax' \in 0..room
  BY <1>1, <1>3, <1>4 DEF Larger, IInv, InBounds
<1> QED BY <1>3, <1>4, <1>5, <1>6 DEF IInv, InBounds

LEMMA RemoveInStep ==
  ASSUME IInv, NEW n \in Nat, NEW ways, RemoveIn(n, ways),
         ways \subseteq {"memmove", "ascending", "descending"}
  PROVE  IInv'
<1>1. ways \subseteq {"memmove", "ascending", "descending"}
  OBVIOUS
<1>2. PICK way \in ways : mem' = Copied(mem, 0, n, m_lpBufMax - n, way)
  BY DEF RemoveIn
<1>3. /\ m_nBufSize \in Nat /\ mem \in [0..(m_nBufSize - 1) -> Cell]
      /\ m_lpBufMax - n \in Nat /\ n + (m_lpBufMax - n) <= m_nBufSize
  BY <1>1 DEF RemoveIn, IInv, InBounds
<1>4. mem' \in [0..(m_nBufSize - 1) -> Cell]
  BY <1>1, <1>2, <1>3, CopiedTyped
<1>5. m_lpBufCur' \in 0..m_lpBufEnd /\ m_lpBufMax' \in 0..m_lpBufEnd
  BY <1>1 DEF RemoveIn, Larger, IInv, InBounds
<1> QED BY <1>4, <1>5 DEF RemoveIn, shape, IInv, InBounds, HeapIsKnown

LEMMA RemoveStep == ASSUME IInv, NEW n \in Nat, Remove(n) PROVE IInv'
BY ArchiveAssumption, RemoveInStep DEF Remove

LEMMA InsertStep ==
  ASSUME IInv, NEW k \in Nat, NEW data \in Seq(Cell), Insert(k, data) PROVE IInv'
<1>1. Len(data) \in Nat
      /\ Copies \subseteq {"memmove", "ascending", "descending"}
  BY ArchiveAssumption, LenProperties
<1> DEFINE n == Len(data)
           need == m_lpBufCur + m_lpBufMax + n
<1>2. need \in Nat /\ m_lpBufCur \in Nat /\ m_lpBufMax \in Nat
  BY <1>1 DEF IInv, InBounds
<1>3. PICK room \in Capacities(need), way \in Copies :
        /\ CheckBuf(room)
        /\ mem' = Stored(Copied(Grown(room), k + n, k, m_lpBufMax - k, way), k, data)
  BY DEF Insert
<1>4. /\ m_bIsStoring /\ k <= m_lpBufMax /\ got' = got
      /\ m_lpBufCur' = m_lpBufCur + n /\ m_lpBufMax' = m_lpBufMax + n
  BY DEF Insert
<1>5. /\ room \in Nat /\ room >= need /\ room >= m_nBufSize
      /\ m_nBufSize' = room /\ m_lpBufEnd' = room
      /\ block' \in {"inline", "heap", "caller"}
      /\ m_bIsStoring' \in BOOLEAN
      /\ HeapIsKnown'
  BY <1>2, <1>3, <1>4, CheckBufKeeps
<1>6. /\ k + n \in Nat /\ m_lpBufMax - k \in Nat /\ k + (m_lpBufMax - k) <= room
  BY <1>1, <1>2, <1>4, <1>5
<1>7. Copied(Grown(room), k + n, k, m_lpBufMax - k, way) \in [0..(room - 1) -> Cell]
  BY <1>1, <1>3, <1>5, <1>6, GrownTyped, CopiedTyped
<1>8. mem' \in [0..(room - 1) -> Cell]
  BY <1>1, <1>3, <1>5, <1>7, StoredTyped
<1>9. m_lpBufCur' \in 0..room /\ m_lpBufMax' \in 0..room
  BY <1>1, <1>2, <1>4, <1>5
<1> QED BY <1>4, <1>5, <1>8, <1>9 DEF IInv, InBounds

LEMMA SetOffsetStep == ASSUME IInv, NEW n \in Nat, SetOffset(n) PROVE IInv'
<1> QED BY DEF SetOffset, shape, IInv, InBounds, HeapIsKnown

LEMMA NextIInv == IInv /\ [Next]_vars => IInv'
<1> SUFFICES ASSUME IInv, [Next]_vars PROVE IInv'
  OBVIOUS
<1>1. CASE ResetStoring
  BY <1>1, ArchiveAssumption
  DEF ResetStoring, IInv, InBounds, HeapIsKnown
<1>2. CASE Flush \/ UNCHANGED vars
  BY <1>2 DEF Flush, vars, shape, IInv, InBounds, HeapIsKnown
<1>3. CASE \E n \in Size : Read(n) \/ Reserve(n) \/ Remove(n) \/ SetOffset(n)
  BY <1>3, ArchiveAssumption, ReadStep, ReserveStep, RemoveStep, SetOffsetStep
<1>4. CASE \E data \in Input :
             ResetLoading(data) \/ Write(data) \/ \E k \in Size : Insert(k, data)
  BY <1>4, ArchiveAssumption, ResetStep, WriteStep, InsertStep
<1> QED BY <1>1, <1>2, <1>3, <1>4 DEF Next

(***************************************************************************)
(* No operation leaves its block, whatever the size of the array and       *)
(* however memcpy treats overlapping regions.                              *)
(***************************************************************************)
THEOREM StaysInBounds == Spec => []InBounds
<1>1. IInv => InBounds
  BY DEF IInv
<1> QED BY <1>1, InitIInv, NextIInv, PTL DEF Spec

(***************************************************************************)
(* While the archive stores, a capacity above BUFFER_SIZE means a block on *)
(* the heap: CheckBuf reallocates, and the destructor frees, such blocks   *)
(* only.                                                                   *)
(***************************************************************************)
THEOREM FreesOwnBlocks == Spec => []HeapIsKnown
<1>1. IInv => HeapIsKnown
  BY DEF IInv
<1> QED BY <1>1, InitIInv, NextIInv, PTL DEF Spec

-----------------------------------------------------------------------------
(* The packet loop on it *)

Handling == {"length", "string", "password", "handled"}
InRound == {"fields", "body", "lookup"} \cup Handling

(***************************************************************************)
(* What a round knows of the text, at each of its calls.                   *)
(***************************************************************************)
RoundInv ==
  /\ m_bIsStoring
  /\ pc = "write" => m_lpBufCur = m_lpBufMax
  /\ pc \in InRound => PrefixRight(text)
  /\ pc = "fields" => m_lpBufCur = 1
  /\ pc = "body" => m_lpBufCur = HEADER_SIZE
  /\ pc \in InRound \ {"fields"} => size = SizeField(text)
  /\ pc \in {"lookup"} \cup Handling => Complete(text)
  /\ pc = "lookup" => got[1].b \in CodeField(text)
  /\ pc \in Handling => CodeField(text) \cap m_functions # {}

LoopInv ==
  /\ IInv
  /\ pc \in {"return", "write", "loop"} \cup InRound
  /\ tosend \in Seq(Cell) /\ len \in Nat /\ size \in Nat
  /\ caller = "OnClientData" => RoundInv

-----------------------------------------------------------------------------
(* The text *)

LEMMA TextTyped ==
  ASSUME IInv
  PROVE  /\ text \in Seq(Cell) /\ Len(text) = m_lpBufMax /\ m_lpBufMax \in Nat
         /\ \A i \in 1..m_lpBufMax : text[i] = mem[i - 1]
<1>1. m_lpBufMax \in Nat /\ \A i \in 1..m_lpBufMax : mem[i - 1] \in Cell
  BY DEF IInv, InBounds
<1>2. text \in [1..m_lpBufMax -> Cell]
  BY <1>1 DEF text
<1>3. text \in Seq(Cell) /\ Len(text) = m_lpBufMax
  BY <1>1, <1>2, SeqDef
<1> QED BY <1>1, <1>3 DEF text

(***************************************************************************)
(* What is written at the end of the text is appended to it.               *)
(***************************************************************************)
LEMMA WriteAppends ==
  ASSUME IInv, NEW data \in Seq(Cell), Write(data), m_lpBufCur = m_lpBufMax
  PROVE  text' = text \o data
<1>1. Len(data) \in Nat /\ m_lpBufMax \in Nat
  BY LenProperties, TextTyped
<1> DEFINE end == m_lpBufMax + Len(data)
<1>2. m_lpBufMax' = end
  BY <1>1 DEF Write, Larger
<1>3. PICK k \in Capacities(end) :
        CheckBuf(k) /\ mem' = Stored(Grown(k), m_lpBufMax, data)
  BY DEF Write
<1>4. k \in Nat /\ k >= end /\ k >= m_nBufSize
  BY <1>1, <1>3, CapacityFits
<1>5. \A i \in 0..(end - 1) :
        mem'[i] = IF i >= m_lpBufMax THEN data[i - m_lpBufMax + 1] ELSE mem[i]
  <2>1. \A i \in 0..(end - 1) : i \in 0..(k - 1) /\ i <= m_lpBufMax + Len(data) - 1
    BY <1>1, <1>4
  <2>2. \A i \in 0..(end - 1) : i < m_lpBufMax => i < m_nBufSize
    BY <1>1 DEF IInv, InBounds
  <2>3. \A i \in 0..(end - 1) : i < m_lpBufMax => Grown(k)[i] = mem[i]
    BY <1>1, <2>1, <2>2 DEF Grown
  <2>4. DOMAIN Grown(k) = 0..(k - 1)
    BY DEF Grown
  <2> HIDE DEF end
  <2>5. \A i \in 0..(end - 1) :
          mem'[i] = IF i >= m_lpBufMax THEN data[i - m_lpBufMax + 1] ELSE Grown(k)[i]
    BY <1>1, <1>3, <2>1, <2>4 DEF Stored
  <2> QED BY <1>1, <2>3, <2>5 DEF end
<1>6. /\ text \in Seq(Cell) /\ Len(text) = m_lpBufMax
      /\ \A i \in 1..m_lpBufMax : text[i] = mem[i - 1]
  BY TextTyped
<1> DEFINE sum == text \o data
<1>7. /\ sum \in Seq(Cell) /\ Len(sum) = end
      /\ \A i \in 1..end : sum[i] = IF i <= m_lpBufMax THEN text[i]
                                    ELSE data[i - m_lpBufMax]
  BY <1>6, ConcatProperties
<1>8. end \in Nat /\ text' = [i \in 1..end |-> mem'[i - 1]]
  BY <1>1, <1>2 DEF text
<1>9. \A i \in 1..end : mem'[i - 1] = sum[i]
  <2>1. \A i \in 1..end : i - 1 \in 0..(end - 1) /\ i - 1 - m_lpBufMax + 1 = i - m_lpBufMax
    BY <1>1
  <2>2. \A i \in 1..end : mem'[i - 1] = IF i - 1 >= m_lpBufMax THEN data[i - m_lpBufMax]
                                        ELSE mem[i - 1]
    BY <1>5, <2>1
  <2>3. \A i \in 1..end : i - 1 >= m_lpBufMax <=> ~(i <= m_lpBufMax)
    BY <1>1
  <2>4. \A i \in 1..end : i <= m_lpBufMax => text[i] = mem[i - 1]
    BY <1>1, <1>6
  <2> HIDE DEF end, sum
  <2> QED BY <1>7, <2>2, <2>3, <2>4
<1> HIDE DEF end, sum
<1>10. \A i \in 1..end : sum[i] \in Cell
  BY <1>7, ElementOfSeq
<1>11. text' \in [1..end -> Cell]
  BY <1>8, <1>9, <1>10
<1>12. text' \in Seq(Cell) /\ Len(text') = end
  BY <1>8, <1>11, SeqDef
<1>13. text' = sum
  BY <1>7, <1>8, <1>9, <1>12, SeqEqual
<1> QED BY <1>13 DEF sum

LEMMA SmallQuotient ==
  ASSUME NEW a \in Nat, NEW d \in Nat, a < d
  PROVE  a \div d = 0 /\ a % d = a
OBVIOUS

(***************************************************************************)
(* However memcpy treats an overlap, the last cells of a copy downwards    *)
(* and the first of a copy upwards, as many as the regions are apart, are  *)
(* those of the source.                                                    *)
(***************************************************************************)
LEMMA CopyEdge ==
  ASSUME NEW cells, NEW target, NEW source, NEW n, NEW way, NEW p,
         target \in Nat, source \in Nat, n \in Nat,
         p \in target..(target + n - 1), p \in DOMAIN cells,
         source < target => p - target < target - source,
         target < source => n - 1 - (p - target) < source - target
  PROVE  Copied(cells, target, source, n, way)[p] = cells[source + (p - target)]
<1> DEFINE j == p - target
<1>0. /\ j \in 0..(n - 1)
      /\ source < target => j < target - source
      /\ target < source => n - 1 - j < source - target
  OBVIOUS
<1> DEFINE distance == IF target > source THEN target - source ELSE source - target
           origin(m) ==
             IF way = "ascending" /\ source < target /\ target < source + n
             THEN m % distance
             ELSE IF way = "descending" /\ target < source /\ source < target + n
             THEN m + distance * ((n - 1 - m) \div distance)
             ELSE m
<1> HIDE DEF j
<1>1. ASSUME source < target PROVE origin(j) = j
  <2>1. distance = target - source /\ distance \in Nat /\ j \in Nat /\ j < distance
    BY <1>0, <1>1
  <2> HIDE DEF distance
  <2>2. j % distance = j
    BY <2>1, SmallQuotient
  <2> QED BY <1>1, <2>2
<1>2. ASSUME target < source PROVE origin(j) = j
  <2> DEFINE a == n - 1 - j
  <2>1. distance = source - target /\ distance \in Nat /\ a \in Nat /\ a < distance
    BY <1>0, <1>2
  <2>2. ~(source < target)
    BY <1>2
  <2> HIDE DEF distance, a
  <2>3. a \div distance = 0
    BY <2>1, SmallQuotient
  <2>4. distance * (a \div distance) = 0
    BY <2>1, <2>3
  <2>5. j + distance * (a \div distance) = j
    BY <1>0, <2>4
  <2> QED BY <2>2, <2>5 DEF a
<1>3. origin(j) = j
  <2>1. CASE source = target
    BY <2>1
  <2> QED BY <1>1, <1>2, <2>1
<1>4. Copied(cells, target, source, n, way) =
        [i \in DOMAIN cells |->
           IF i \in target..(target + n - 1) THEN cells[source + origin(i - target)]
           ELSE cells[i]]
  BY DEF Copied
<1> HIDE DEF origin
<1>5. Copied(cells, target, source, n, way)[p] = cells[source + origin(p - target)]
  BY <1>4
<1> QED BY <1>3, <1>5 DEF j

(***************************************************************************)
(* Remove takes the first n bytes from the text.  The others are right if  *)
(* memcpy copies upwards or nothing overlaps, and the last n are in any    *)
(* case.                                                                   *)
(***************************************************************************)
LEMMA RemoveCuts ==
  ASSUME IInv, NEW n \in Nat, NEW ways, RemoveIn(n, ways)
  PROVE  LET rest == SubSeq(text, n + 1, Len(text)) IN
         /\ Len(text') = Len(rest)
         /\ ways = {"ascending"} \/ 2 * n >= Len(text) => text' = rest
         /\ \A i \in 1..Len(rest) : i + n > Len(rest) => text'[i] = rest[i]
<1>1. /\ m_lpBufMax \in Nat /\ n <= m_lpBufMax /\ m_lpBufMax' = m_lpBufMax - n
      /\ m_nBufSize \in Nat /\ DOMAIN mem = 0..(m_nBufSize - 1) /\ m_lpBufMax <= m_nBufSize
  BY TextTyped DEF RemoveIn, IInv, InBounds
<1>2. PICK way \in ways : mem' = Copied(mem, 0, n, m_lpBufMax - n, way)
  BY DEF RemoveIn
<1> DEFINE rest == SubSeq(text, n + 1, Len(text))
           k == m_lpBufMax - n
<1>3. /\ text \in Seq(Cell) /\ Len(text) = m_lpBufMax
      /\ \A i \in 1..m_lpBufMax : text[i] = mem[i - 1] /\ text[i] \in Cell
  BY TextTyped, ElementOfSeq
<1>4. \A i \in (n + 1)..m_lpBufMax : text[i] \in Cell
  BY <1>1, <1>3
<1>5. /\ rest \in Seq(Cell) /\ Len(rest) = k
      /\ \A i \in 1..k : rest[i] = text[n + i]
  <2>1. /\ rest \in Seq(Cell)
        /\ Len(rest) = IF n + 1 <= m_lpBufMax THEN m_lpBufMax - (n + 1) + 1 ELSE 0
        /\ \A i \in 1..(m_lpBufMax - (n + 1) + 1) : rest[i] = text[n + 1 + i - 1]
    BY <1>1, <1>3, <1>4, SubSeqProperties
  <2> QED BY <1>1, <2>1
<1>6. k \in Nat /\ text' = [i \in 1..k |-> mem'[i - 1]]
  BY <1>1 DEF text
<1>7. \A i \in 1..k : rest[i] = mem[n + (i - 1)] /\ rest[i] \in Cell
  <2>1. \A i \in 1..k : n + i \in 1..m_lpBufMax /\ n + (i - 1) = (n + i) - 1
    BY <1>1
  <2>2. \A i \in 1..k : rest[i] = mem[n + (i - 1)]
    BY <1>3, <1>5, <2>1
  <2> QED BY <1>5, <2>2, ElementOfSeq
<1>8. ASSUME NEW i \in 1..k, way = "ascending" \/ n = 0 \/ k - i < n
      PROVE  mem'[i - 1] = rest[i]
  <2> DEFINE j == i - 1
  <2>1. j \in 0..(k - 1) /\ j \in DOMAIN mem /\ n > 0 /\ way # "ascending" => k - 1 - j < n
    BY <1>1, <1>8
  <2>2. Copied(mem, 0, n, k, way)[j] = mem[n + j]
    <3>1. CASE way = "ascending"
      <4>1. ~(n < 0) /\ j - 0 = j /\ j \in 0..(0 + k - 1) /\ j \in DOMAIN mem
        BY <1>1, <1>8
      <4> QED BY <3>1, <4>1 DEF Copied
    <3>2. CASE way # "ascending"
      <4> DEFINE z == 0
      <4>1. /\ z \in Nat /\ n \in Nat /\ k \in Nat
            /\ j \in z..(z + k - 1) /\ j \in DOMAIN mem /\ j - z = j
            /\ n < z => j - z < z - n
            /\ z < n => k - 1 - (j - z) < n - z
        BY <1>1, <1>8, <3>2
      <4> HIDE DEF z, j, k
      <4>2. Copied(mem, z, n, k, way)[j] = mem[n + (j - z)]
        BY <4>1, CopyEdge
      <4> QED BY <4>1, <4>2 DEF z
    <3> QED BY <3>1, <3>2
  <2> QED BY <1>2, <1>7, <2>2
<1> HIDE DEF rest, k
<1>9. ASSUME \A i \in 1..k : mem'[i - 1] = rest[i] PROVE text' = rest
  <2>1. text' \in [1..k -> Cell]
    BY <1>6, <1>7, <1>9
  <2>2. text' \in Seq(Cell) /\ Len(text') = k
    BY <1>6, <2>1, SeqDef
  <2> QED BY <1>5, <1>6, <1>9, <2>2, SeqEqual
<1>10. ASSUME ways = {"ascending"} \/ 2 * n >= Len(text) PROVE text' = rest
  <2>1. way = "ascending" \/ n = 0 \/ \A i \in 1..k : k - i < n
    BY <1>1, <1>2, <1>3, <1>10 DEF k
  <2> QED BY <1>8, <1>9, <2>1
<1>11. Len(text') = k /\ \A i \in 1..k : text'[i] = mem'[i - 1]
  BY <1>6
<1>12. ASSUME NEW i \in 1..k, i + n > k PROVE text'[i] = rest[i]
  <2>1. k - i < n
    BY <1>6, <1>12
  <2> QED BY <1>8, <1>11, <2>1
<1> QED BY <1>5, <1>10, <1>11, <1>12 DEF rest

-----------------------------------------------------------------------------
LEMMA LoopInitInv == LoopInit => LoopInv
<1> SUFFICES ASSUME LoopInit PROVE LoopInv
  OBVIOUS
<1>1. IInv /\ m_bIsStoring
  BY InitIInv DEF LoopInit, Init
<1>2. tosend \in Seq(Cell)
  BY LoopAssumption, EmptySeq DEF LoopInit
<1> QED BY <1>1, <1>2 DEF LoopInit, LoopInv, RoundInv, InRound, Handling

-----------------------------------------------------------------------------
(* Steps *)

(***************************************************************************)
(* Calls that move the position or read leave the text alone.              *)
(***************************************************************************)
LEMMA TextStays ==
  ASSUME UNCHANGED vars \/ \E n \in Nat : Read(n) \/ SetOffset(n)
  PROVE  text' = text
BY DEF Read, SetOffset, vars, text

LEMMA Typed ==
  ASSUME LoopInv, UNCHANGED vars \/ \E n \in Nat : Read(n) \/ SetOffset(n)
  PROVE  IInv'
BY ReadStep, SetOffsetStep
DEF LoopInv, vars, shape, IInv, InBounds, HeapIsKnown

LEMMA QuietStep ==
  ASSUME LoopInv, caller = "OnClientData",
         Mark \/ LoopEnds \/ RefusePrefix \/ BodyMissing \/ RefuseCode
           \/ StopMarked
  PROVE  LoopInv'
<1>1. /\ UNCHANGED <<vars, caller, locals, tosend>>
      /\ pc' \in {"return", "loop"}
  BY DEF Mark, LoopEnds, RefusePrefix, BodyMissing, RefuseCode, StopMarked,
         Goes, session
<1>2. IInv'
  BY <1>1, Typed
<1> QED BY <1>1, <1>2 DEF LoopInv, RoundInv, locals, vars, shape, InRound, Handling

LEMMA ArriveStep ==
  ASSUME LoopInv, caller = "OnClientData", Arrive
  PROVE  LoopInv'
<1>1. m_lpBufMax \in Nat /\ SetOffset(m_lpBufMax)
  BY TextTyped DEF LoopInv, Arrive
<1>2. IInv'
  BY <1>1, Typed
<1> QED BY <1>1, <1>2
DEF LoopInv, RoundInv, Arrive, SetOffset, Goes, locals, session, shape, InRound, Handling

LEMMA WriteDataStep ==
  ASSUME LoopInv, caller = "OnClientData", WriteData
  PROVE  /\ LoopInv'
         /\ \E k \in 1..Len(tosend) :
              /\ text' = text \o SubSeq(tosend, 1, k)
              /\ tosend' = SubSeq(tosend, k + 1, Len(tosend))
<1>1. PICK k \in 1..Len(tosend) :
        /\ Write(SubSeq(tosend, 1, k))
        /\ tosend' = SubSeq(tosend, k + 1, Len(tosend))
  BY DEF WriteData
<1>2. tosend \in Seq(Cell) /\ Len(tosend) \in Nat
  BY LenProperties DEF LoopInv
<1>3. SubSeq(tosend, 1, k) \in Seq(Cell) /\ tosend' \in Seq(Cell)
  BY <1>1, <1>2, SubSeqProperties, ElementOfSeq
<1>4. IInv' /\ text' = text \o SubSeq(tosend, 1, k)
  BY <1>1, <1>3, WriteStep, WriteAppends
  DEF LoopInv, RoundInv, WriteData, Goes
<1>5. LoopInv'
  BY <1>1, <1>3, <1>4
  DEF LoopInv, RoundInv, WriteData, Write, CheckBuf, Goes, locals, InRound, Handling
<1> QED BY <1>1, <1>4, <1>5

(***************************************************************************)
(* The loop's reads of the header lie within the block, and deliver bytes  *)
(* of the text where the text has them.                                    *)
(***************************************************************************)
LEMMA HeaderStep ==
  ASSUME LoopInv, caller = "OnClientData", PassPrefix \/ ReadFields \/ ReadCode
  PROVE  LoopInv' /\ text' = text
<1> USE FramingAssumption, LoopAssumption
<1>1. /\ text \in Seq(Cell) /\ Len(text) = m_lpBufMax /\ m_lpBufMax \in Nat
      /\ \A i \in 1..m_lpBufMax : text[i] = mem[i - 1]
  BY TextTyped DEF LoopInv
<1>2. UNCHANGED vars \/ \E n \in Nat : Read(n) \/ SetOffset(n)
  BY DEF PassPrefix, ReadFields, ReadCode
<1>3. IInv' /\ text' = text
  BY <1>2, Typed, TextStays
<1>4. m_lpBufMax' = m_lpBufMax /\ m_bIsStoring' = m_bIsStoring
  BY DEF PassPrefix, ReadFields, ReadCode, Read, SetOffset, shape
<1>5. CASE PassPrefix
  <2>1. pc' = "fields" /\ PrefixRight(text) /\ m_lpBufCur' = 1
    BY <1>5 DEF PassPrefix, SetOffset, Goes
  <2> QED BY <1>3, <1>4, <1>5, <2>1
    DEF LoopInv, RoundInv, PassPrefix, Goes, locals, session, InRound, Handling
<1>6. CASE ReadFields
  <2>1. PrefixRight(text) /\ pc' = "body" /\ m_lpBufCur = 1
    BY <1>6 DEF ReadFields, Goes, LoopInv, RoundInv, InRound
  <2>2. m_lpBufCur' = HEADER_SIZE /\ got'[1] = mem[1]
    BY <1>6, <2>1 DEF ReadFields, Read
  <2>3. m_lpBufMax >= 2
    BY <1>1, <2>1 DEF PrefixRight, HeaderMissing
  <2>4. got'[1] = text[2] /\ text[2] \in Cell
    BY <1>1, <2>2, <2>3, ElementOfSeq
  <2>5. size' = SizeField(text) /\ size' \in Nat
    BY <1>6, <2>4 DEF ReadFields, SizeField
  <2> QED BY <1>3, <1>4, <1>6, <2>1, <2>2, <2>5
    DEF LoopInv, RoundInv, ReadFields, Goes, session, InRound, Handling
<1>7. CASE ReadCode
  <2>1. /\ PrefixRight(text) /\ pc' = "lookup" /\ m_lpBufCur = HEADER_SIZE
        /\ size = SizeField(text) /\ size \in Nat
        /\ m_lpBufMax - HEADER_SIZE >= size
    BY <1>7 DEF ReadCode, Goes, LoopInv, RoundInv, InRound
  <2>2. Complete(text)
    BY <1>1, <2>1 DEF Complete, PacketLength
  <2>3. got'[1] = mem[HEADER_SIZE] /\ got' \in Seq(Cell) /\ Len(got') = 1
    <3>1. got' = [i \in 1..1 |-> mem[HEADER_SIZE + i - 1]]
      BY <1>7, <2>1 DEF ReadCode, Read
    <3>2. got' \in Seq(Cell)
      BY <1>3 DEF IInv, InBounds
    <3> QED BY <3>1, <3>2, LenProperties
  <2>4. got'[1].b \in CodeField(text)
    <3>1. got'[1] \in Cell
      BY <2>3, ElementOfSeq
    <3>2. CASE Len(text) > HEADER_SIZE
      <4>1. text[HEADER_SIZE + 1] = mem[HEADER_SIZE]
        BY <1>1, <3>2
      <4> QED BY <2>3, <3>2, <4>1 DEF CodeField
    <3>3. CASE ~(Len(text) > HEADER_SIZE)
      BY <3>1, <3>3 DEF CodeField
    <3> QED BY <3>2, <3>3
  <2> QED BY <1>3, <1>4, <1>7, <2>1, <2>2, <2>4
    DEF LoopInv, RoundInv, ReadCode, Goes, locals, session, InRound, Handling
<1> QED BY <1>3, <1>5, <1>6, <1>7

(***************************************************************************)
(* A handler only reads: the packet stays where it is.                     *)
(***************************************************************************)
LEMMA HandlerStep ==
  ASSUME LoopInv, caller = "OnClientData",
         Invoke \/ ReadLength \/ ReadCharacters \/ ReadPassword
  PROVE  LoopInv' /\ text' = text
<1> USE FramingAssumption, LoopAssumption
<1>1. UNCHANGED vars \/ \E n \in Nat : Read(n) \/ SetOffset(n)
  BY DEF Invoke, ReadLength, ReadCharacters, ReadPassword, Attempt, LengthTaken,
         LoopInv
<1>2. IInv' /\ text' = text /\ m_bIsStoring' = m_bIsStoring
  BY <1>1, Typed, TextStays DEF Read, SetOffset, vars, shape
<1>3. len' \in Nat
  <2>1. CASE ReadLength
    <3>1. Within(1) => mem[m_lpBufCur] \in Cell
      BY DEF Within, LoopInv, IInv, InBounds
    <3> QED BY <2>1, <3>1 DEF ReadLength
  <2> QED BY <2>1 DEF Invoke, ReadCharacters, ReadPassword, LoopInv
<1>4. pc' \in Handling /\ UNCHANGED <<caller, size, tosend>>
  BY DEF Invoke, ReadLength, ReadCharacters, ReadPassword, Goes, session, Handling
<1>5. /\ PrefixRight(text) /\ Complete(text) /\ size = SizeField(text)
      /\ CodeField(text) \cap m_functions # {}
  BY DEF Invoke, ReadLength, ReadCharacters, ReadPassword, Goes, LoopInv,
         RoundInv, InRound, Handling
<1> QED BY <1>2, <1>3, <1>4, <1>5 DEF LoopInv, RoundInv, InRound, Handling

LEMMA RemoveHandledStep ==
  ASSUME LoopInv, caller = "OnClientData", RemoveHandled
  PROVE  /\ LoopInv'
         /\ LET n == PacketLength(text)
                rest == RemovePacket(text)
            IN
            /\ upwards \/ 2 * n >= Len(text) => text' = rest
            /\ Len(text') = Len(rest)
            /\ \A i \in 1..Len(rest) : i + n > Len(rest) => text'[i] = rest[i]
         /\ Complete(text) /\ CodeField(text) \cap m_functions # {}
<1> USE FramingAssumption
<1> DEFINE n == HEADER_SIZE + size
           ways == IF upwards THEN {"ascending"} ELSE Copies
<1>1. n \in Nat /\ RemoveIn(n, ways) /\ ways \subseteq {"memmove", "ascending", "descending"}
  BY ArchiveAssumption DEF RemoveHandled, LoopInv
<1>2. /\ Complete(text) /\ CodeField(text) \cap m_functions # {}
      /\ n = PacketLength(text)
  BY DEF RemoveHandled, Goes, LoopInv, RoundInv, InRound, Handling, PacketLength
<1>3. IInv' /\ m_bIsStoring' = m_bIsStoring
  BY <1>1, RemoveInStep DEF LoopInv, RemoveIn, shape
<1>4. LET rest == RemovePacket(text) IN
      /\ upwards \/ 2 * n >= Len(text) => text' = rest
      /\ Len(text') = Len(rest)
      /\ \A i \in 1..Len(rest) : i + n > Len(rest) => text'[i] = rest[i]
  <2> HIDE DEF n
  <2>1. upwards => ways = {"ascending"}
    OBVIOUS
  <2> HIDE DEF ways
  <2> QED BY <1>1, <1>2, <2>1, RemoveCuts DEF LoopInv, RemovePacket
<1>5. LoopInv'
  BY <1>3 DEF LoopInv, RoundInv, RemoveHandled, Goes, locals, InRound, Handling
<1> QED BY <1>2, <1>4, <1>5

LEMMA LoopNextInv == LoopInv /\ [LoopNext]_loopVars => LoopInv'
<1> SUFFICES ASSUME LoopInv, [LoopNext]_loopVars PROVE LoopInv'
  OBVIOUS
<1>1. CASE Anyone
  BY <1>1, NextIInv DEF Anyone, LoopInv, locals, session
<1>2. CASE UNCHANGED loopVars
  <2>1. UNCHANGED <<vars, caller, pc, locals, session>>
    BY <1>2 DEF loopVars
  <2>2. IInv' /\ text' = text
    BY <2>1, Typed, TextStays
  <2> QED BY <2>1, <2>2
    DEF LoopInv, RoundInv, vars, shape, locals, session, InRound, Handling
<1>3. CASE Mark \/ OnClientData
  <2>1. caller = "OnClientData"
    BY <1>3 DEF Mark, OnClientData, Arrive, WriteData, LoopEnds, RefusePrefix,
      PassPrefix, ReadFields, BodyMissing, ReadCode, RefuseCode, Invoke,
      ReadLength, ReadCharacters, ReadPassword, StopMarked, RemoveHandled, Goes
  <2> QED BY <1>3, <2>1, QuietStep, ArriveStep, WriteDataStep, HeaderStep,
             HandlerStep, RemoveHandledStep DEF OnClientData
<1> QED BY <1>1, <1>2, <1>3 DEF LoopNext

(***************************************************************************)
(* The archive of the packet loop stays in its block, whoever uses it.     *)
(***************************************************************************)
THEOREM LoopStaysInBounds == LoopSpec => [](InBounds /\ HeapIsKnown)
<1>1. LoopInv => InBounds /\ HeapIsKnown
  BY DEF LoopInv, IInv
<1> QED BY <1>1, LoopInitInv, LoopNextInv, PTL DEF LoopSpec

-----------------------------------------------------------------------------
(* Refinement *)

LEMMA InitRefines == LoopInit => R!Init
<1> SUFFICES ASSUME LoopInit PROVE R!Init
  OBVIOUS
<1>1. m_lpBufMax = 0 /\ handled = <<>> /\ bDisconnect = FALSE /\ upwards \in BOOLEAN
  BY DEF LoopInit, Init
<1>2. text = <<>>
  BY <1>1, LoopInitInv, TextTyped, EmptySeq DEF LoopInv
<1>3. tosend \in Seq([b : Byte, n : Nat])
  <2> DEFINE S == [b : Byte, n : Nat]
  <2>1. Cell \subseteq S /\ tosend \in Seq(Cell)
    BY LoopAssumption, LoopInitInv DEF LoopInv
  <2> HIDE DEF S
  <2>2. Len(tosend) \in Nat /\ tosend \in [1..Len(tosend) -> Cell]
    BY <2>1, LenProperties
  <2>3. tosend \in [1..Len(tosend) -> S]
    BY <2>1, <2>2
  <2>4. tosend \in Seq(S)
    BY <2>2, <2>3, SeqDef
  <2> QED BY <2>4 DEF S
<1> QED BY <1>1, <1>2, <1>3 DEF R!Init

(***************************************************************************)
(* Every call is a round's step or none.                                   *)
(***************************************************************************)
LEMMA NextRefines ==
  ASSUME LoopInv, [LoopNext]_loopVars
  PROVE  [R!Next]_(R!roundVars)
<1> USE DEF R!roundVars
<1>1. CASE Anyone
  BY <1>1 DEF Anyone, session
<1>2. CASE UNCHANGED loopVars
  BY <1>2, TextStays DEF loopVars, session
<1>3. ASSUME caller = "OnClientData", Mark \/ OnClientData
      PROVE  [R!Next]_(R!roundVars)
  <2>1. caller' = caller /\ upwards' = upwards
    BY <1>3 DEF Mark, OnClientData, Arrive, WriteData, LoopEnds, RefusePrefix,
      PassPrefix, ReadFields, BodyMissing, ReadCode, RefuseCode, Invoke,
      ReadLength, ReadCharacters, ReadPassword, StopMarked, RemoveHandled
  <2>2. CASE Mark \/ RefusePrefix \/ RefuseCode
    <3>1. /\ bDisconnect' = TRUE /\ UNCHANGED <<vars, tosend, handled>>
      BY <2>2 DEF Mark, RefusePrefix, RefuseCode
    <3>2. text' = text
      BY <3>1, TextStays
    <3> QED BY <1>3, <2>1, <3>1, <3>2 DEF R!Next, R!Mark
  <2>3. CASE LoopEnds \/ BodyMissing \/ StopMarked
    <3>1. UNCHANGED vars /\ UNCHANGED session
      BY <2>3 DEF LoopEnds, BodyMissing, StopMarked
    <3> QED BY <2>1, <3>1, TextStays DEF session
  <2>4. CASE Arrive
    <3>1. text' = text
      BY <2>4 DEF Arrive, SetOffset, text
    <3> QED BY <2>1, <2>4, <3>1 DEF Arrive, session
  <2>5. CASE PassPrefix \/ ReadFields \/ ReadCode
    <3>1. UNCHANGED session
      BY <2>5 DEF PassPrefix, ReadFields, ReadCode
    <3> QED BY <1>3, <2>1, <2>5, <3>1, HeaderStep DEF session
  <2>6. CASE Invoke \/ ReadLength \/ ReadCharacters \/ ReadPassword
    <3>1. UNCHANGED session
      BY <2>6 DEF Invoke, ReadLength, ReadCharacters, ReadPassword
    <3> QED BY <1>3, <2>1, <2>6, <3>1, HandlerStep DEF session
  <2>7. CASE WriteData
    <3>1. UNCHANGED <<handled, bDisconnect>>
      BY <2>7 DEF WriteData
    <3> QED BY <1>3, <2>1, <2>7, <3>1, WriteDataStep DEF R!Next, R!Receive
  <2>8. CASE RemoveHandled
    <3>1. /\ ~bDisconnect /\ UNCHANGED <<upwards, tosend, bDisconnect>>
          /\ handled' = handled \o Packet(text)
      BY <2>8 DEF RemoveHandled
    <3>2. /\ LET n == PacketLength(text)
                 rest == RemovePacket(text)
             IN
             /\ upwards \/ 2 * n >= Len(text) => text' = rest
             /\ Len(text') = Len(rest)
             /\ \A i \in 1..Len(rest) : i + n > Len(rest) => text'[i] = rest[i]
          /\ Complete(text) /\ CodeField(text) \cap m_functions # {}
      BY <1>3, <2>8, RemoveHandledStep
    <3> QED BY <1>3, <2>1, <3>1, <3>2
      DEF R!Next, R!Handle, R!RemoveHandled, R!Complete, R!PrefixRight, R!HeaderMissing,
          R!CodeField, R!PacketLength, R!SizeField, R!Packet, R!RemovePacket,
          Complete, PrefixRight, HeaderMissing, CodeField,
          PacketLength, SizeField, Packet, RemovePacket
  <2> QED BY <1>3, <2>2, <2>3, <2>4, <2>5, <2>6, <2>7, <2>8 DEF OnClientData
<1>4. Mark \/ OnClientData => caller = "OnClientData"
  BY DEF Mark, OnClientData, Arrive, WriteData, LoopEnds, RefusePrefix,
    PassPrefix, ReadFields, BodyMissing, ReadCode, RefuseCode, Invoke,
    ReadLength, ReadCharacters, ReadPassword, StopMarked, RemoveHandled, Goes
<1> QED BY <1>1, <1>2, <1>3, <1>4 DEF LoopNext

(***************************************************************************)
(* The calls on the archive add up to the rounds LoginServer takes for the *)
(* packet loop, for every array, stream and cut: growing and moving the    *)
(* block, and reading behind a packet, never change where the next one is  *)
(* found.  Where memcpy does not copy upwards, that is said of the bytes   *)
(* an overlapping Remove leaves right.                                     *)
(***************************************************************************)
THEOREM LoopImplementsRounds == LoopSpec => ImplementsRounds
<1>1. LoopInv /\ [LoopNext]_loopVars => [R!Next]_(R!roundVars)
  BY NextRefines
<1> QED BY <1>1, LoopInitInv, LoopNextInv, InitRefines, PTL
        DEF LoopSpec, ImplementsRounds, R!Spec
-----------------------------------------------------------------------------
(* Anyone's archive *)

LEMMA CellsInText ==
  ASSUME NEW k \in Nat, NEW cells \in [0..(k - 1) -> Cell], NEW n \in 0..k
  PROVE  \A i \in 1..n : cells[i - 1] \in Cell
<1>1. \A i \in 1..n : i - 1 \in 0..(k - 1)
  OBVIOUS
<1> QED BY <1>1

LEMMA TextTypedNext ==
  ASSUME IInv'
  PROVE  /\ text' \in Seq(Cell) /\ Len(text') = m_lpBufMax' /\ m_lpBufMax' \in Nat
         /\ \A i \in 1..m_lpBufMax' : text'[i] = mem'[i - 1]
<1>1. m_nBufSize' \in Nat /\ mem' \in [0..(m_nBufSize' - 1) -> Cell]
  BY DEF IInv, InBounds
<1>2. m_lpBufMax' \in 0..m_nBufSize' /\ m_lpBufMax' \in Nat
  BY DEF IInv, InBounds
<1>3. \A i \in 1..m_lpBufMax' : mem'[i - 1] \in Cell
  BY <1>1, <1>2, CellsInText
<1> DEFINE n == m_lpBufMax'
           t == [i \in 1..n |-> mem'[i - 1]]
<1>4. text' = t
  BY DEF text
<1>5. t \in [1..n -> Cell] /\ n \in Nat /\ \A i \in 1..n : t[i] = mem'[i - 1]
  BY <1>2, <1>3
<1> HIDE DEF t, n
<1>6. t \in Seq(Cell) /\ Len(t) = n
  BY <1>5, SeqDef
<1> QED BY <1>4, <1>5, <1>6 DEF n

(***************************************************************************)
(* The abstract variables of anyone's archive are its own.                 *)
(***************************************************************************)
LEMMA ReadRefines ==
  ASSUME IInv, caller = "anyone", caller' = caller, NEW n \in Nat, Read(n)
  PROVE  A!Read(n)
<1>1. /\ m_lpBufCur \in Nat /\ m_lpBufCur + n <= m_lpBufEnd
      /\ got' = [i \in 1..n |-> mem[m_lpBufCur + i - 1]]
      /\ m_lpBufCur' = m_lpBufCur + n
  BY DEF Read, IInv, InBounds
<1>2. text' = text
  BY TextStays
<1>3. \A i \in 1..n : mem[m_lpBufCur + i - 1] \in Cell
  BY <1>1 DEF IInv, InBounds
<1>4. got' \in [1..n -> Cell]
  BY <1>1, <1>3
<1>5. Len(got') = n
  BY <1>4, SeqDef
<1>6. \A i \in 1..n : m_lpBufCur + i <= Len(text) => got'[i] = text[m_lpBufCur + i]
  <2> SUFFICES ASSUME NEW i \in 1..n, m_lpBufCur + i <= Len(text)
               PROVE  got'[i] = text[m_lpBufCur + i]
    OBVIOUS
  <2>1. m_lpBufCur + i \in 1..m_lpBufMax
    BY <1>1, TextTyped
  <2> DEFINE j == m_lpBufCur + i
  <2> HIDE DEF j
  <2>2. j \in 1..m_lpBufMax => text[j] = mem[j - 1]
    BY DEF text
  <2> QED BY <1>1, <2>1, <2>2 DEF j
<1> QED BY <1>1, <1>2, <1>5, <1>6 DEF A!Read

(***************************************************************************)
(* A block that has grown holds what the smaller one held.                 *)
(***************************************************************************)
LEMMA GrownKeeps ==
  ASSUME IInv, NEW need \in Nat, NEW k \in Capacities(need)
  PROVE  /\ k \in Nat /\ k >= need /\ k >= m_nBufSize /\ m_lpBufMax <= m_nBufSize
         /\ DOMAIN Grown(k) = 0..(k - 1)
         /\ \A i \in 1..m_lpBufMax : Grown(k)[i - 1] = text[i]
<1>1. k \in Nat /\ k >= need /\ k >= m_nBufSize
  BY CapacityFits
<1>2. m_lpBufMax \in Nat /\ m_nBufSize \in Nat /\ m_lpBufMax <= m_nBufSize
  BY DEF IInv, InBounds
<1>3. \A i \in 1..m_lpBufMax : i - 1 \in 0..(k - 1) /\ i - 1 < m_nBufSize
  BY <1>1, <1>2
<1>4. \A i \in 1..m_lpBufMax : Grown(k)[i - 1] = mem[i - 1]
  BY <1>3 DEF Grown
<1>5. DOMAIN Grown(k) = 0..(k - 1)
  BY DEF Grown
<1> QED BY <1>1, <1>2, <1>4, <1>5, TextTyped

LEMMA ReserveRefines ==
  ASSUME IInv, IInv', caller = "anyone", caller' = caller, NEW n \in Nat, Reserve(n)
  PROVE  A!Reserve(n)
<1> DEFINE end == m_lpBufCur + n
<1>1. /\ m_lpBufCur \in Nat /\ m_lpBufMax \in Nat /\ end \in Nat
      /\ m_lpBufCur' = end /\ got' = got
      /\ m_lpBufMax' = IF end > m_lpBufMax THEN end ELSE m_lpBufMax
  BY DEF Reserve, Larger, IInv, InBounds
<1>2. PICK k \in Capacities(end) : mem' = Grown(k)
  BY DEF Reserve
<1>3. \A i \in 1..m_lpBufMax : mem'[i - 1] = text[i]
  BY <1>1, <1>2, GrownKeeps
<1>4. \A i \in 1..m_lpBufMax : text'[i] = text[i]
  <2>1. \A i \in 1..m_lpBufMax : i \in 1..m_lpBufMax'
    BY <1>1
  <2> QED BY <1>3, <2>1, TextTypedNext
<1>5. Len(text) = m_lpBufMax /\ Len(text') = m_lpBufMax'
  BY TextTyped, TextTypedNext
<1> QED BY <1>1, <1>4, <1>5 DEF A!Reserve, A!Extend

LEMMA WriteRefines ==
  ASSUME IInv, IInv', caller = "anyone", caller' = caller,
         NEW data \in Seq(Cell), Write(data)
  PROVE  A!Write(data)
<1> DEFINE n == Len(data)
           end == m_lpBufCur + n
<1>1. n \in Nat
  BY LenProperties
<1>2. /\ m_lpBufCur \in Nat /\ m_lpBufMax \in Nat /\ end \in Nat
      /\ m_lpBufCur' = end /\ got' = got
      /\ m_lpBufMax' = IF end > m_lpBufMax THEN end ELSE m_lpBufMax
  BY <1>1 DEF Write, Larger, IInv, InBounds
<1>3. PICK k \in Capacities(end) : mem' = Stored(Grown(k), m_lpBufCur, data)
  BY DEF Write
<1>4. /\ k \in Nat /\ k >= end /\ k >= m_lpBufMax
      /\ DOMAIN Grown(k) = 0..(k - 1)
      /\ \A i \in 1..m_lpBufMax : Grown(k)[i - 1] = text[i]
  <2>1. m_nBufSize \in Nat
    BY DEF IInv, InBounds
  <2> QED BY <1>2, <2>1, GrownKeeps
<1>5. \A j \in 0..(k - 1) :
        mem'[j] = IF j \in m_lpBufCur..(m_lpBufCur + Len(data) - 1) THEN data[j - m_lpBufCur + 1]
                  ELSE Grown(k)[j]
  <2> DEFINE cells == Grown(k)
  <2>1. DOMAIN cells = 0..(k - 1)
    BY <1>4
  <2>2. mem' = Stored(cells, m_lpBufCur, data)
    BY <1>3
  <2> HIDE DEF cells
  <2>3. \A j \in 0..(k - 1) :
          mem'[j] = IF j \in m_lpBufCur..(m_lpBufCur + Len(data) - 1)
                    THEN data[j - m_lpBufCur + 1] ELSE cells[j]
    BY <2>1, <2>2 DEF Stored
  <2> QED BY <2>3 DEF cells
<1>6. Len(text) = m_lpBufMax /\ Len(text') = m_lpBufMax'
  BY TextTyped, TextTypedNext
<1> HIDE DEF n, end
<1>7. \A i \in 1..m_lpBufMax : i \notin (m_lpBufCur + 1)..(m_lpBufCur + n) => text'[i] = text[i]
  <2> SUFFICES ASSUME NEW i \in 1..m_lpBufMax, i \notin (m_lpBufCur + 1)..(m_lpBufCur + n)
               PROVE  text'[i] = text[i]
    OBVIOUS
  <2>1. i - 1 \in 0..(k - 1) /\ i \in 1..m_lpBufMax'
    BY <1>2, <1>4
  <2>2. i - 1 \notin m_lpBufCur..(m_lpBufCur + Len(data) - 1)
    BY <1>1, <1>2 DEF n
  <2>3. mem'[i - 1] = text[i]
    BY <1>4, <1>5, <2>1, <2>2
  <2> QED BY <2>1, <2>3, TextTypedNext
<1>8. \A i \in (m_lpBufCur + 1)..(m_lpBufCur + n) : text'[i] = data[i - m_lpBufCur]
  <2> SUFFICES ASSUME NEW i \in (m_lpBufCur + 1)..(m_lpBufCur + n)
               PROVE  text'[i] = data[i - m_lpBufCur]
    OBVIOUS
  <2>1. /\ i - 1 \in 0..(k - 1) /\ i \in 1..m_lpBufMax'
        /\ i - 1 \in m_lpBufCur..(m_lpBufCur + Len(data) - 1)
        /\ i - 1 - m_lpBufCur + 1 = i - m_lpBufCur
    BY <1>1, <1>2, <1>4 DEF n, end
  <2>2. mem'[i - 1] = data[i - m_lpBufCur]
    BY <1>5, <2>1
  <2> QED BY <2>1, <2>2, TextTypedNext
<1> QED BY <1>2, <1>6, <1>7, <1>8 DEF A!Write, A!Extend, A!Covered, n, end

LEMMA RemoveRefines ==
  ASSUME IInv, IInv', caller = "anyone", caller' = caller, NEW n \in Nat, Remove(n)
  PROVE  A!Remove(n)
<1>1. /\ m_lpBufCur \in Nat /\ m_lpBufMax \in Nat /\ n <= m_lpBufMax
      /\ m_lpBufMax' = m_lpBufMax - n /\ got' = got
      /\ m_lpBufCur' = IF m_lpBufCur > n THEN m_lpBufCur - n ELSE 0
  BY DEF Remove, RemoveIn, Larger, IInv, InBounds
<1>2. /\ m_nBufSize \in Nat /\ DOMAIN mem = 0..(m_nBufSize - 1)
      /\ m_lpBufMax <= m_nBufSize
  BY DEF IInv, InBounds
<1>3. PICK way \in Copies : mem' = Copied(mem, 0, n, m_lpBufMax - n, way)
  BY DEF Remove, RemoveIn
<1>4. Len(text) = m_lpBufMax /\ Len(text') = m_lpBufMax - n
  BY <1>1, TextTyped, TextTypedNext
<1>5. ASSUME NEW i \in 1..(m_lpBufMax - n),
             n = 0 \/ 2 * n >= m_lpBufMax \/ i + 2 * n > m_lpBufMax
      PROVE  text'[i] = text[i + n]
  <2> DEFINE j == i - 1
             c == m_lpBufMax - n
  <2>1. /\ j \in 0..(c - 1) /\ c \in Nat /\ j < m_nBufSize
        /\ n > 0 => c - 1 - j < n
        /\ j + n + 1 = i + n /\ i + n \in 1..m_lpBufMax
    BY <1>1, <1>2, <1>5
  <2> HIDE DEF j, c
  <2>2. Copied(mem, 0, n, c, way)[0 + j] = mem[n + j]
    <3> DEFINE z == 0
    <3>1. /\ n < z => j < z - n
          /\ z < n => c - 1 - j < n - z
          /\ z + j \in DOMAIN mem /\ z \in Nat
      BY <1>2, <2>1
    <3> DEFINE p == z + j
    <3>2. /\ p \in z..(z + c - 1) /\ p - z = j /\ p \in DOMAIN mem
          /\ n < z => p - z < z - n
          /\ z < n => c - 1 - (p - z) < n - z
      BY <2>1, <3>1
    <3> HIDE DEF p, z
    <3>3. Copied(mem, z, n, c, way)[p] = mem[n + (p - z)]
      BY <2>1, <3>1, <3>2, CopyEdge
    <3> QED BY <3>2, <3>3 DEF p, z
  <2>3. mem'[j] = mem[n + j]
    <3>1. 0 + j = j
      BY <2>1
    <3> QED BY <1>3, <2>2, <3>1 DEF c
  <2>4. text'[i] = mem'[j]
    BY <1>1, <1>5, TextTypedNext DEF j
  <2>5. \A m \in 1..m_lpBufMax : text[m] = mem[m - 1]
    BY TextTyped
  <2>6. text[i + n] = mem[(i + n) - 1] /\ (i + n) - 1 = n + j
    BY <1>1, <1>5, <2>1, <2>5
  <2> QED BY <2>3, <2>4, <2>6
<1> QED BY <1>1, <1>4, <1>5 DEF A!Remove

LEMMA InsertRefines ==
  ASSUME IInv, IInv', caller = "anyone", caller' = caller,
         NEW k \in Nat, NEW data \in Seq(Cell), Insert(k, data)
  PROVE  A!Insert(k, data)
<1> DEFINE n == Len(data)
           need == m_lpBufCur + m_lpBufMax + n
<1>1. n \in Nat
  BY LenProperties
<1>2. /\ m_lpBufCur \in Nat /\ m_lpBufMax \in Nat /\ k <= m_lpBufMax
      /\ m_lpBufMax' = m_lpBufMax + n /\ m_lpBufCur' = m_lpBufCur + n /\ got' = got
  BY <1>1 DEF Insert, IInv, InBounds
<1>3. PICK cap \in Capacities(need), way \in Copies :
        mem' = Stored(Copied(Grown(cap), k + n, k, m_lpBufMax - k, way), k, data)
  BY DEF Insert
<1>4. need \in Nat
  BY <1>1, <1>2
<1> DEFINE G == Grown(cap)
           C == Copied(G, k + n, k, m_lpBufMax - k, way)
<1>5. /\ cap \in Nat /\ cap >= m_lpBufMax + n
      /\ DOMAIN G = 0..(cap - 1)
      /\ \A i \in 1..m_lpBufMax : G[i - 1] = text[i]
  <2>1. /\ cap \in Nat /\ cap >= need /\ DOMAIN G = 0..(cap - 1)
        /\ \A i \in 1..m_lpBufMax : G[i - 1] = text[i]
    BY <1>4, GrownKeeps
  <2>2. need >= m_lpBufMax + n
    BY <1>1, <1>2
  <2> HIDE DEF need, n, G
  <2>3. cap >= m_lpBufMax + n
    BY <1>1, <1>2, <1>4, <2>1, <2>2 DEF n
  <2> QED BY <2>1, <2>3
<1> HIDE DEF G, need
<1>6. mem' = Stored(C, k, data)
  BY <1>3 DEF G
<1>7. DOMAIN C = 0..(cap - 1)
  BY <1>5 DEF Copied
<1>8. \A j \in 0..(k - 1) : C[j] = G[j]
  <2> SUFFICES ASSUME NEW j \in 0..(k - 1) PROVE C[j] = G[j]
    OBVIOUS
  <2>1. j \in 0..(cap - 1) /\ j \notin (k + n)..(k + n + (m_lpBufMax - k) - 1)
    BY <1>1, <1>2, <1>5
  <2> QED BY <1>5, <2>1 DEF Copied
<1> HIDE DEF C
<1>9. \A j \in 0..(cap - 1) :
        mem'[j] = IF j \in k..(k + n - 1) THEN data[j - k + 1] ELSE C[j]
  BY <1>6, <1>7 DEF Stored
<1>10. \A j \in 0..(m_lpBufMax + n - 1) :
         text'[j + 1] = mem'[j] /\ j \in 0..(cap - 1)
  <2> SUFFICES ASSUME NEW j \in 0..(m_lpBufMax + n - 1)
               PROVE  text'[j + 1] = mem'[j] /\ j \in 0..(cap - 1)
    OBVIOUS
  <2>1. j \in 0..(cap - 1) /\ j + 1 \in 1..m_lpBufMax' /\ (j + 1) - 1 = j
    BY <1>1, <1>2, <1>5
  <2> QED BY <2>1, TextTypedNext
<1> HIDE DEF n
<1>11. \A i \in 1..k : text'[i] = text[i]
  <2> SUFFICES ASSUME NEW i \in 1..k PROVE text'[i] = text[i]
    OBVIOUS
  <2> DEFINE j == i - 1
  <2>1. /\ j \in 0..(k - 1) /\ j \in 0..(m_lpBufMax + n - 1) /\ j \notin k..(k + n - 1)
        /\ i \in 1..m_lpBufMax /\ j + 1 = i
    BY <1>1, <1>2
  <2>2. G[j] = text[i]
    BY <1>5, <2>1
  <2> HIDE DEF j
  <2> QED BY <1>8, <1>9, <1>10, <2>1, <2>2
<1>12. \A i \in 1..n : text'[k + i] = data[i]
  <2> SUFFICES ASSUME NEW i \in 1..n PROVE text'[k + i] = data[i]
    OBVIOUS
  <2> DEFINE j == k + i - 1
  <2>1. /\ j \in 0..(m_lpBufMax + n - 1) /\ j \in k..(k + n - 1)
        /\ j + 1 = k + i /\ j - k + 1 = i
    BY <1>1, <1>2
  <2> HIDE DEF j
  <2> QED BY <1>9, <1>10, <2>1
<1>13. ASSUME NEW i \in (k + 1)..m_lpBufMax,
              n = 0 \/ n >= m_lpBufMax - k \/ i <= k + n
       PROVE  text'[i + n] = text[i]
  <2> DEFINE j == i - 1 - k
             c == m_lpBufMax - k
             t == k + n
  <2>1. /\ j \in 0..(c - 1) /\ c \in Nat /\ t \in Nat /\ t + j \in 0..(cap - 1)
        /\ k < t => j < t - k
        /\ t < k => c - 1 - j < k - t
    BY <1>1, <1>2, <1>5, <1>13
  <2>2. /\ t + j \in 0..(m_lpBufMax + n - 1) /\ t + j \notin k..(k + n - 1)
        /\ (t + j) + 1 = i + n /\ k + j = i - 1 /\ i \in 1..m_lpBufMax
    BY <1>1, <1>2, <1>13
  <2>3. C = Copied(G, t, k, c, way)
    BY DEF C
  <2> HIDE DEF j, c, t
  <2>4. C[t + j] = G[k + j]
    <3> DEFINE p == t + j
    <3>1. /\ p \in t..(t + c - 1) /\ p - t = j /\ p \in DOMAIN G
          /\ k < t => p - t < t - k
          /\ t < k => c - 1 - (p - t) < k - t
      BY <1>5, <2>1
    <3> HIDE DEF p
    <3> DEFINE s == k
    <3>2. /\ c \in Nat /\ t \in Nat /\ s \in Nat
          /\ p \in t..(t + c - 1) /\ p \in DOMAIN G
          /\ s < t => p - t < t - s
          /\ t < s => c - 1 - (p - t) < s - t
      BY <2>1, <3>1
    <3> HIDE DEF s
    <3>3. Copied(G, t, s, c, way)[p] = G[s + (p - t)]
      BY <3>2, CopyEdge
    <3> QED BY <2>3, <3>1, <3>3 DEF p, s
  <2>5. G[k + j] = text[i]
    BY <1>5, <2>2
  <2>6. text'[(t + j) + 1] = C[t + j]
    <3> DEFINE p == t + j
    <3>1. p \in 0..(m_lpBufMax + n - 1) /\ p \notin k..(k + n - 1)
      BY <2>2
    <3> HIDE DEF p
    <3>2. text'[p + 1] = C[p]
      BY <1>9, <1>10, <3>1
    <3> QED BY <3>2 DEF p
  <2> QED BY <2>2, <2>4, <2>5, <2>6
<1>14. Len(text) = m_lpBufMax /\ Len(text') = m_lpBufMax + n
  BY <1>2, TextTyped, TextTypedNext
<1> QED BY <1>2, <1>11, <1>12, <1>13, <1>14 DEF A!Insert, n

-----------------------------------------------------------------------------
LEMMA AnyoneRefines ==
  ASSUME IInv, Anyone
  PROVE  A!Next
<1>1. caller = "anyone" /\ caller' = caller /\ Next
  BY DEF Anyone
<1>2. IInv'
  BY <1>1, NextIInv
<1>3. CASE ResetStoring
  <2>1. text' \in Seq(Cell) /\ m_lpBufCur' = 0 /\ got' = got
    BY <1>2, <1>3, TextTypedNext DEF ResetStoring
  <2> QED BY <1>1, <2>1 DEF A!Next, A!Start
<1>4. CASE Flush
  <2>1. m_lpBufMax' = 0 /\ m_lpBufCur' = 0 /\ got' = got
    BY <1>4 DEF Flush
  <2>2. text' = <<>>
    BY <1>2, <2>1, TextTypedNext, EmptySeq
  <2> QED BY <1>1, <2>1, <2>2 DEF A!Next, A!Flush
<1>5. ASSUME NEW n \in Size, Read(n) \/ Reserve(n) \/ Remove(n) \/ SetOffset(n)
      PROVE  A!Next
  <2>1. n \in Nat
    BY ArchiveAssumption
  <2>2. CASE SetOffset(n)
    <3>1. text' = text /\ m_lpBufCur' = n /\ got' = got
      BY <2>1, <2>2, TextStays DEF SetOffset
    <3>2. A!SetOffset(n)
      BY <1>1, <3>1 DEF A!SetOffset
    <3> QED BY <3>2 DEF A!Next
  <2>3. A!Read(n) \/ A!Reserve(n) \/ A!Remove(n) \/ SetOffset(n)
    BY <1>1, <1>2, <1>5, <2>1, ReadRefines, ReserveRefines, RemoveRefines
  <2> QED BY <2>2, <2>3 DEF A!Next
<1>6. ASSUME NEW data \in Input, ResetLoading(data) \/ Write(data) PROVE A!Next
  <2>1. data \in Seq(Cell)
    BY ArchiveAssumption
  <2>2. CASE ResetLoading(data)
    <3>1. text' \in Seq(Cell) /\ m_lpBufCur' = 0 /\ got' = got
      BY <1>2, <2>2, TextTypedNext DEF ResetLoading
    <3> QED BY <1>1, <3>1 DEF A!Next, A!Start
  <2>3. CASE Write(data)
    BY <1>1, <1>2, <2>1, <2>3, WriteRefines DEF A!Next
  <2> QED BY <1>6, <2>2, <2>3
<1>7. ASSUME NEW data \in Input, NEW k \in Size, Insert(k, data) PROVE A!Next
  <2>1. data \in Seq(Cell) /\ k \in Nat
    BY ArchiveAssumption
  <2> QED BY <1>1, <1>2, <1>7, <2>1, InsertRefines DEF A!Next
<1> QED BY <1>1, <1>3, <1>4, <1>5, <1>6, <1>7 DEF Next

LEMMA ArchiveStep ==
  ASSUME LoopInv, [LoopNext]_loopVars
  PROVE  [A!Next]_(A!archiveVars)
<1>1. CASE Anyone
  BY <1>1, AnyoneRefines DEF LoopInv
<1>2. CASE Mark \/ OnClientData
  <2>1. caller = "OnClientData" /\ caller' = caller
    BY <1>2 DEF Mark, OnClientData, Arrive, WriteData, LoopEnds, RefusePrefix,
      PassPrefix, ReadFields, BodyMissing, ReadCode, RefuseCode, Invoke,
      ReadLength, ReadCharacters, ReadPassword, StopMarked, RemoveHandled, Goes
  <2> QED BY <2>1 DEF A!archiveVars
<1>3. CASE UNCHANGED loopVars
  <2>1. text' = text /\ caller' = caller /\ UNCHANGED <<m_lpBufCur, got>>
    BY <1>3, TextStays DEF loopVars, vars
  <2> QED BY <2>1 DEF A!archiveVars
<1> QED BY <1>1, <1>2, <1>3 DEF LoopNext

(***************************************************************************)
(* Whatever anyone calls, in whatever order memcpy copies: the archive is  *)
(* a text with a position, for every size of its array.                    *)
(***************************************************************************)
THEOREM AnyoneImplementsArchive == LoopSpec => ImplementsArchive
<1>1. LoopInit => A!Init
  <2> SUFFICES ASSUME LoopInit PROVE A!Init
    OBVIOUS
  <2>1. m_lpBufMax = 0 /\ m_lpBufCur = 0 /\ got = <<>>
    BY DEF LoopInit, Init
  <2>2. text = <<>> /\ <<>> \in Seq(Cell)
    BY <2>1, LoopInitInv, TextTyped, EmptySeq DEF LoopInv
  <2> QED BY <2>1, <2>2 DEF A!Init
<1>2. LoopInv /\ [LoopNext]_loopVars => [A!Next]_(A!archiveVars)
  BY ArchiveStep
<1> QED BY <1>1, <1>2, LoopInitInv, LoopNextInv, PTL
        DEF LoopSpec, ImplementsArchive, A!Spec

-----------------------------------------------------------------------------
(* What OnCertify reads *)

Field(packet, i, n) == SubSeq(packet, HEADER_SIZE + 1 + i, HEADER_SIZE + i + n)

(***************************************************************************)
(* At each call of OnCertify: where the position is, and what was read, in *)
(* a packet with strings of v and a bytes.                                 *)
(***************************************************************************)
Progress(packet, v, a) ==
  /\ pc = "length" /\ fields = <<>> => m_lpBufCur = HEADER_SIZE + 1
  /\ pc = "string" /\ fields = <<>> => m_lpBufCur = HEADER_SIZE + 2 /\ len = v
  /\ pc = "length" /\ fields # <<>> =>
       m_lpBufCur = HEADER_SIZE + 2 + v /\ fields = <<Field(packet, 2, v)>>
  /\ pc = "string" /\ fields # <<>> =>
       /\ m_lpBufCur = HEADER_SIZE + 3 + v /\ len = a
       /\ fields = <<Field(packet, 2, v)>>
  /\ pc = "password" =>
       /\ m_lpBufCur = HEADER_SIZE + 3 + v + a
       /\ fields = <<Field(packet, 2, v), Field(packet, 3 + v, a)>>
  /\ pc = "handled" /\ fields # <<>> =>
       fields = <<Field(packet, 2, v), Field(packet, 3 + v, a),
                  Field(packet, 3 + v + a, MAX_PASSWORD)>>

FieldsInv ==
  /\ caller # "OnClientData" => pc = "return"
  /\ pc = "lookup" => m_lpBufCur = HEADER_SIZE + 1
  /\ \A v, a \in 0..(MAX_STRING - 1) :
       Contains(Packet(text), v, a) => Progress(Packet(text), v, a)

(***************************************************************************)
(* The packet a handler reads is what lies at the beginning of the block.  *)
(***************************************************************************)
LEMMA PacketCells ==
  ASSUME LoopInv, caller = "OnClientData", pc \in Handling
  PROVE  /\ Packet(text) \in Seq(Cell) /\ Len(Packet(text)) = HEADER_SIZE + size
         /\ HEADER_SIZE + size \in Nat /\ HEADER_SIZE + size <= m_lpBufMax
         /\ \A i \in 1..(HEADER_SIZE + size) : Packet(text)[i] = mem[i - 1]
<1> DEFINE n == HEADER_SIZE + size
<1>1. /\ n \in Nat /\ n = PacketLength(text) /\ n <= Len(text)
  BY FramingAssumption
  DEF LoopInv, RoundInv, InRound, Handling, PacketLength, Complete
<1>2. /\ text \in Seq(Cell) /\ Len(text) = m_lpBufMax
      /\ \A i \in 1..m_lpBufMax : text[i] = mem[i - 1]
  BY TextTyped DEF LoopInv
<1> HIDE DEF n
<1>3. \A i \in 1..n : text[i] \in Cell /\ text[i] = mem[i - 1]
  BY <1>1, <1>2, TextTyped, ElementOfSeq DEF LoopInv
<1>4. /\ SubSeq(text, 1, n) \in Seq(Cell)
      /\ Len(SubSeq(text, 1, n)) = IF 1 <= n THEN n - 1 + 1 ELSE 0
      /\ \A i \in 1..(n - 1 + 1) : SubSeq(text, 1, n)[i] = text[1 + i - 1]
  BY <1>1, <1>3, SubSeqProperties
<1>5. Packet(text) = SubSeq(text, 1, n)
  BY <1>1 DEF Packet
<1>6. Len(Packet(text)) = n /\ \A i \in 1..n : Packet(text)[i] = text[i]
  BY <1>1, <1>4, <1>5
<1> QED BY <1>1, <1>2, <1>3, <1>4, <1>5, <1>6 DEF n

LEMMA FieldEmpty ==
  ASSUME NEW packet, NEW i \in Nat
  PROVE  Field(packet, i, 0) = <<>>
BY FramingAssumption, SubSeqEmpty DEF Field

(***************************************************************************)
(* A read that lies in the packet delivers what the packet has there.      *)
(***************************************************************************)
LEMMA FieldRead ==
  ASSUME IInv, NEW packet \in Seq(Cell), Len(packet) <= m_lpBufMax,
         \A j \in 1..Len(packet) : packet[j] = mem[j - 1],
         NEW i \in Nat, NEW n \in Nat, m_lpBufCur = HEADER_SIZE + i,
         HEADER_SIZE + i + n <= Len(packet), Attempt(n)
  PROVE  /\ Within(n) /\ m_lpBufCur' = m_lpBufCur + n
         /\ got' = Field(packet, i, n)
<1> USE FramingAssumption
<1>1. Len(packet) \in Nat /\ \A j \in 1..Len(packet) : packet[j] \in Cell
  BY LenProperties, ElementOfSeq
<1>2. m_lpBufMax \in Nat /\ m_lpBufMax <= m_lpBufEnd /\ m_lpBufEnd \in Nat
  BY DEF IInv, InBounds
<1>3. Within(n) /\ Read(n)
  BY <1>1, <1>2 DEF Within, Attempt
<1>4. /\ m_lpBufCur' = m_lpBufCur + n
      /\ got' = [j \in 1..n |-> mem[m_lpBufCur + j - 1]]
  BY <1>3 DEF Read
<1> DEFINE from == HEADER_SIZE + 1 + i
           to == HEADER_SIZE + i + n
           field == SubSeq(packet, from, to)
<1>5. /\ from \in Nat /\ to \in Nat /\ to - from + 1 = n
      /\ \A j \in from..to : j \in 1..Len(packet)
  BY <1>1
<1>6. field = Field(packet, i, n)
  BY DEF Field
<1> HIDE DEF field
<1>7. /\ field \in Seq(Cell) /\ Len(field) = n
      /\ \A j \in 1..n : field[j] = packet[from + j - 1]
  <2>1. \A j \in from..to : packet[j] \in Cell
    BY <1>1, <1>5
  <2> HIDE DEF from, to
  <2>2. /\ field \in Seq(Cell)
        /\ Len(field) = IF from <= to THEN to - from + 1 ELSE 0
        /\ \A j \in 1..(to - from + 1) : field[j] = packet[from + j - 1]
    BY <1>5, <2>1, SubSeqProperties DEF field
  <2> QED BY <1>5, <2>2
<1>8. \A j \in 1..n : mem[m_lpBufCur + j - 1] = field[j] /\ field[j] \in Cell
  <2> SUFFICES ASSUME NEW j \in 1..n
               PROVE  mem[m_lpBufCur + j - 1] = field[j] /\ field[j] \in Cell
    OBVIOUS
  <2> DEFINE p == from + j - 1
  <2>1. p \in 1..Len(packet) /\ p - 1 = m_lpBufCur + j - 1
    BY <1>1
  <2>2. field[j] = packet[p]
    BY <1>7
  <2> HIDE DEF p
  <2>3. packet[p] = mem[p - 1] /\ packet[p] \in Cell
    BY <1>1, <2>1
  <2> QED BY <2>1, <2>2, <2>3
<1>9. got' \in [1..n -> Cell] /\ \A j \in 1..n : got'[j] = field[j]
  BY <1>4, <1>8
<1>10. got' \in Seq(Cell) /\ Len(got') = n
  BY <1>9, SeqDef
<1>11. got' = field
  BY <1>7, <1>9, <1>10, SeqEqual
<1> QED BY <1>3, <1>4, <1>6, <1>11

LEMMA ContainsFields ==
  ASSUME NEW packet \in Seq(Cell), NEW v \in Nat, NEW a \in Nat, Contains(packet, v, a)
  PROVE  /\ Len(packet) = HEADER_SIZE + 3 + v + a + MAX_PASSWORD
         /\ packet[HEADER_SIZE + 2].b = v
         /\ packet[HEADER_SIZE + 3 + v].b = a
<1> USE FramingAssumption, LoopAssumption
<1> DEFINE first == HEADER_SIZE + 2
           last == Len(packet)
           body == SubSeq(packet, first, last)
<1>1. /\ Len(body) = 2 + v + a + MAX_PASSWORD
      /\ body[1].b = v /\ body[2 + v].b = a
  BY DEF Contains
<1>2. last \in Nat /\ first \in Nat /\ \A j \in first..last : packet[j] \in Cell
  BY LenProperties, ElementOfSeq
<1> HIDE DEF first, last
<1>3. /\ Len(body) = IF first <= last THEN last - first + 1 ELSE 0
      /\ \A j \in 1..(last - first + 1) : body[j] = packet[first + j - 1]
  BY <1>2, SubSeqProperties
<1> HIDE DEF body
<1>4. last - first + 1 = 2 + v + a + MAX_PASSWORD
  BY <1>1, <1>2, <1>3
<1>5. 1 \in 1..(last - first + 1) /\ 2 + v \in 1..(last - first + 1)
  BY <1>4
<1>6. body[1] = packet[first + 1 - 1] /\ body[2 + v] = packet[first + (2 + v) - 1]
  BY <1>3, <1>5
<1>7. /\ first + 1 - 1 = HEADER_SIZE + 2 /\ first + (2 + v) - 1 = HEADER_SIZE + 3 + v
      /\ last = HEADER_SIZE + 3 + v + a + MAX_PASSWORD
  BY <1>2, <1>4 DEF first
<1>8. packet[first + (2 + v) - 1] = packet[HEADER_SIZE + 3 + v]
  BY <1>7
<1>9. packet[first + 1 - 1] = packet[HEADER_SIZE + 2]
  BY <1>7
<1> QED BY <1>1, <1>6, <1>7, <1>8, <1>9 DEF last

LEMMA Appended ==
  ASSUME NEW x, NEW y, NEW z
  PROVE  /\ Append(<<>>, x) = <<x>> /\ Append(<<x>>, y) = <<x, y>>
         /\ Append(<<x, y>>, z) = <<x, y, z>>
         /\ <<x>> # <<>>
<1> DEFINE S == {x, y, z}
<1>1. Append(<<>>, x) = <<x>> /\ <<x>> # <<>>
  OBVIOUS
<1>2. ASSUME NEW s \in Seq(S), NEW e \in S, NEW t \in Seq(S), Len(t) = Len(s) + 1,
             t[Len(s) + 1] = e, \A i \in 1..Len(s) : t[i] = s[i]
      PROVE  Append(s, e) = t
  <2> HIDE DEF S
  <2>1. Len(s) \in Nat
    BY LenProperties
  <2>2. /\ Append(s, e) \in Seq(S) /\ Len(Append(s, e)) = Len(s) + 1
        /\ \A i \in 1..Len(s) : Append(s, e)[i] = s[i]
        /\ Append(s, e)[Len(s) + 1] = e
    BY AppendProperties
  <2>3. \A i \in 1..(Len(s) + 1) : Append(s, e)[i] = t[i]
    BY <1>2, <2>1, <2>2
  <2> QED BY <1>2, <2>2, <2>3, SeqEqual
<1>3. Append(<<x>>, y) = <<x, y>>
  <2> DEFINE s == <<x>>
             t == <<x, y>>
  <2>1. /\ s \in Seq(S) /\ t \in Seq(S) /\ Len(s) = 1 /\ Len(t) = 2
        /\ t[2] = y /\ \A i \in 1..1 : t[i] = s[i]
    OBVIOUS
  <2>2. /\ y \in S /\ Len(t) = Len(s) + 1 /\ t[Len(s) + 1] = y
        /\ \A i \in 1..Len(s) : t[i] = s[i]
    OBVIOUS
  <2> HIDE DEF s, t, S
  <2>3. Append(s, y) = t
    BY <1>2, <2>1, <2>2
  <2> QED BY <2>3 DEF s, t
<1>4. Append(<<x, y>>, z) = <<x, y, z>>
  <2> DEFINE s == <<x, y>>
             t == <<x, y, z>>
  <2>1. /\ s \in Seq(S) /\ t \in Seq(S) /\ Len(s) = 2 /\ Len(t) = 3
        /\ t[3] = z /\ \A i \in 1..2 : t[i] = s[i]
    OBVIOUS
  <2>2. /\ z \in S /\ Len(t) = Len(s) + 1 /\ t[Len(s) + 1] = z
        /\ \A i \in 1..Len(s) : t[i] = s[i]
    OBVIOUS
  <2> HIDE DEF s, t, S
  <2>3. Append(s, z) = t
    BY <1>2, <2>1, <2>2
  <2> QED BY <2>3 DEF s, t
<1> QED BY <1>1, <1>3, <1>4

(***************************************************************************)
(* Each call of OnCertify on a packet that holds what it reads.            *)
(***************************************************************************)
LEMMA CertifyStep ==
  ASSUME LoopInv, caller = "OnClientData", FieldsInv,
         ReadLength \/ ReadCharacters \/ ReadPassword,
         NEW v \in 0..(MAX_STRING - 1), NEW a \in 0..(MAX_STRING - 1),
         Contains(Packet(text), v, a)
  PROVE  Progress(Packet(text), v, a)'
<1> USE FramingAssumption, LoopAssumption
<1> DEFINE P == Packet(text)
<1>1. pc \in Handling
  BY DEF ReadLength, ReadCharacters, ReadPassword, Goes, Handling
<1>2. /\ P \in Seq(Cell) /\ Len(P) <= m_lpBufMax
      /\ \A j \in 1..Len(P) : P[j] = mem[j - 1]
  BY <1>1, PacketCells
<1>3. P' = P
  BY HandlerStep
<1>4. /\ Len(P) = HEADER_SIZE + 3 + v + a + MAX_PASSWORD
      /\ P[HEADER_SIZE + 2].b = v /\ P[HEADER_SIZE + 3 + v].b = a
  BY <1>2, ContainsFields
<1>5. Progress(P, v, a)
  BY DEF FieldsInv
<1>6. IInv
  BY DEF LoopInv
<1> HIDE DEF P
<1>7. v \in Nat /\ a \in Nat /\ v < MAX_STRING /\ a < MAX_STRING
  OBVIOUS
<1>8. ASSUME ReadLength PROVE Progress(P, v, a)'
  <2>1. /\ pc = "length" /\ pc' = "string" /\ Attempt(1) /\ fields' = fields
        /\ len' = IF Within(1) THEN mem[m_lpBufCur].b ELSE 0
    BY <1>8 DEF ReadLength, Goes
  <2>2. ASSUME NEW i \in Nat, m_lpBufCur = HEADER_SIZE + i, HEADER_SIZE + i + 1 <= Len(P)
        PROVE  m_lpBufCur' = m_lpBufCur + 1 /\ len' = P[HEADER_SIZE + i + 1].b
    <3>1. Within(1) /\ m_lpBufCur' = m_lpBufCur + 1
      BY <1>2, <1>6, <2>1, <2>2, FieldRead
    <3> DEFINE p == HEADER_SIZE + i + 1
    <3>2. p \in 1..Len(P) /\ p - 1 = m_lpBufCur
      <4>1. Len(P) \in Nat
        BY <1>2, LenProperties
      <4> QED BY <2>2, <4>1
    <3> HIDE DEF p
    <3>3. P[p] = mem[m_lpBufCur]
      BY <1>2, <3>2
    <3> QED BY <2>1, <3>1, <3>3 DEF p
  <2>3. CASE fields = <<>>
    <3>1. m_lpBufCur = HEADER_SIZE + 1
      BY <1>5, <2>1, <2>3 DEF Progress
    <3>2. m_lpBufCur' = HEADER_SIZE + 2 /\ len' = v
      <4>1. HEADER_SIZE + 1 + 1 = HEADER_SIZE + 2 /\ HEADER_SIZE + 2 <= Len(P)
        BY <1>4, <1>7
      <4> QED BY <1>4, <2>2, <3>1, <4>1
    <3> QED BY <1>3, <2>1, <2>3, <3>2 DEF Progress
  <2>4. CASE fields # <<>>
    <3>1. m_lpBufCur = HEADER_SIZE + (2 + v) /\ fields = <<Field(P, 2, v)>>
      BY <1>5, <1>7, <2>1, <2>4 DEF Progress
    <3>2. m_lpBufCur' = HEADER_SIZE + 3 + v /\ len' = a
      <4>1. /\ HEADER_SIZE + (2 + v) + 1 = HEADER_SIZE + 3 + v
            /\ HEADER_SIZE + 3 + v <= Len(P) /\ 2 + v \in Nat
        BY <1>4, <1>7
      <4> QED BY <1>4, <2>2, <3>1, <4>1
    <3> QED BY <1>3, <2>1, <2>4, <3>1, <3>2 DEF Progress
  <2> QED BY <2>3, <2>4
<1>9. ASSUME ReadCharacters PROVE Progress(P, v, a)'
  <2>1. /\ pc = "string" /\ pc' = IF fields = <<>> THEN "length" ELSE "password"
        /\ IF LengthTaken THEN Attempt(len) ELSE UNCHANGED vars
        /\ fields' = Append(fields, IF LengthTaken /\ Within(len) THEN got' ELSE <<>>)
    BY <1>9 DEF ReadCharacters, Goes
  <2>2. ASSUME NEW i \in Nat, m_lpBufCur = HEADER_SIZE + i, len \in Nat,
               len < MAX_STRING, HEADER_SIZE + i + len <= Len(P)
        PROVE  m_lpBufCur' = m_lpBufCur + len /\ fields' = Append(fields, Field(P, i, len))
    <3>1. CASE len > 0
      <4>1. LengthTaken /\ Attempt(len)
        BY <2>1, <2>2, <3>1 DEF LengthTaken
      <4>2. Within(len) /\ m_lpBufCur' = m_lpBufCur + len /\ got' = Field(P, i, len)
        BY <1>2, <1>6, <2>2, <4>1, FieldRead
      <4> QED BY <2>1, <4>1, <4>2
    <3>2. CASE len = 0
      <4>1. ~LengthTaken
        BY <3>2 DEF LengthTaken
      <4>2. m_lpBufCur' = m_lpBufCur /\ fields' = Append(fields, <<>>)
        BY <2>1, <4>1 DEF vars
      <4>3. Field(P, i, len) = <<>>
        BY <3>2, FieldEmpty
      <4> QED BY <2>2, <3>2, <4>2, <4>3
    <3> QED BY <2>2, <3>1, <3>2
  <2>3. CASE fields = <<>>
    <3>1. m_lpBufCur = HEADER_SIZE + 2 /\ len = v
      BY <1>5, <2>1, <2>3 DEF Progress
    <3>2. HEADER_SIZE + 2 + v <= Len(P)
      BY <1>4, <1>7
    <3>3. /\ m_lpBufCur' = HEADER_SIZE + 2 + v
          /\ fields' = Append(<<>>, Field(P, 2, v))
      BY <1>7, <2>2, <2>3, <3>1, <3>2
    <3>4. fields' = <<Field(P, 2, v)>> /\ fields' # <<>>
      BY <3>3, Appended
    <3> QED BY <1>3, <2>1, <2>3, <3>3, <3>4 DEF Progress
  <2>4. CASE fields # <<>>
    <3> DEFINE i == 3 + v
    <3>1. /\ m_lpBufCur = HEADER_SIZE + i /\ len = a
          /\ fields = <<Field(P, 2, v)>>
      BY <1>5, <1>7, <2>1, <2>4 DEF Progress
    <3>2. i \in Nat /\ HEADER_SIZE + i + a <= Len(P)
      <4>1. i \in Nat /\ Len(P) = HEADER_SIZE + i + a + MAX_PASSWORD
        BY <1>4, <1>7
      <4> HIDE DEF i
      <4> QED BY <1>7, <4>1
    <3>3. /\ m_lpBufCur' = HEADER_SIZE + i + a
          /\ fields' = Append(<<Field(P, 2, v)>>, Field(P, i, a))
      <4>1. /\ i \in Nat /\ m_lpBufCur = HEADER_SIZE + i /\ len \in Nat
            /\ len < MAX_STRING /\ HEADER_SIZE + i + len <= Len(P)
        BY <1>7, <3>1, <3>2
      <4> HIDE DEF i
      <4>2. m_lpBufCur' = m_lpBufCur + len /\ fields' = Append(fields, Field(P, i, len))
        BY <2>2, <4>1
      <4> QED BY <3>1, <4>2
    <3>4. fields' = <<Field(P, 2, v), Field(P, 3 + v, a)>>
      BY <3>3, Appended
    <3>5. m_lpBufCur' = HEADER_SIZE + 3 + v + a
      BY <1>7, <3>3
    <3> QED BY <1>3, <2>1, <2>4, <3>4, <3>5 DEF Progress
  <2> QED BY <2>3, <2>4
<1>10. ASSUME ReadPassword PROVE Progress(P, v, a)'
  <2>1. /\ pc = "password" /\ pc' = "handled" /\ Attempt(MAX_PASSWORD)
        /\ fields' = Append(fields, IF Within(MAX_PASSWORD) THEN got' ELSE <<>>)
    BY <1>10 DEF ReadPassword, Goes
  <2>2. /\ m_lpBufCur = HEADER_SIZE + (3 + v + a) /\ 3 + v + a \in Nat
        /\ fields = <<Field(P, 2, v), Field(P, 3 + v, a)>>
        /\ HEADER_SIZE + (3 + v + a) + MAX_PASSWORD <= Len(P)
    BY <1>4, <1>5, <1>7, <2>1 DEF Progress
  <2>3. Within(MAX_PASSWORD) /\ got' = Field(P, 3 + v + a, MAX_PASSWORD)
    BY <1>2, <1>6, <2>1, <2>2, FieldRead
  <2>4. fields' = <<Field(P, 2, v), Field(P, 3 + v, a), Field(P, 3 + v + a, MAX_PASSWORD)>>
    BY <2>1, <2>2, <2>3, Appended
  <2> QED BY <1>3, <2>1, <2>4 DEF Progress
<1> QED BY <1>8, <1>9, <1>10 DEF P

LEMMA FieldsStep ==
  ASSUME LoopInv, FieldsInv, [LoopNext]_loopVars
  PROVE  FieldsInv'
<1> USE FramingAssumption
<1>1. CASE Anyone
  <2>1. caller' = "anyone" /\ caller = "anyone" /\ pc' = pc
    BY <1>1 DEF Anyone
  <2> QED BY <2>1 DEF FieldsInv, Progress
<1>2. CASE UNCHANGED loopVars
  <2>1. text' = text /\ UNCHANGED <<caller, pc, fields, len, m_lpBufCur>>
    BY <1>2, TextStays DEF loopVars, vars, locals
  <2> QED BY <2>1 DEF FieldsInv, Progress
<1>3. ASSUME caller = "OnClientData", Mark \/ OnClientData PROVE FieldsInv'
  <2>1. caller' = "OnClientData"
    BY <1>3 DEF Mark, OnClientData, Arrive, WriteData, LoopEnds, RefusePrefix,
      PassPrefix, ReadFields, BodyMissing, ReadCode, RefuseCode, Invoke,
      ReadLength, ReadCharacters, ReadPassword, StopMarked, RemoveHandled
  <2>2. CASE Mark \/ Arrive \/ WriteData \/ LoopEnds \/ RefusePrefix \/ PassPrefix
             \/ ReadFields \/ BodyMissing \/ RefuseCode \/ StopMarked \/ RemoveHandled
    <3>1. pc' \in {"return", "write", "loop", "fields", "body"}
      BY <2>2 DEF Mark, Arrive, WriteData, LoopEnds, RefusePrefix, PassPrefix,
        ReadFields, BodyMissing, RefuseCode, StopMarked, RemoveHandled, Goes
    <3> QED BY <2>1, <3>1 DEF FieldsInv, Progress
  <2>3. CASE ReadCode
    <3>1. pc' = "lookup" /\ m_lpBufCur' = HEADER_SIZE + 1
      BY <1>3, <2>3 DEF ReadCode, Read, Goes, LoopInv, RoundInv
    <3> QED BY <2>1, <3>1 DEF FieldsInv, Progress
  <2>4. CASE Invoke
    <3>1. /\ pc = "lookup" /\ pc' \in {"length", "handled"} /\ fields' = <<>>
          /\ m_lpBufCur' = m_lpBufCur
      BY <2>4 DEF Invoke, Goes, vars
    <3>2. m_lpBufCur' = HEADER_SIZE + 1
      BY <3>1 DEF FieldsInv
    <3> QED BY <2>1, <3>1, <3>2 DEF FieldsInv, Progress
  <2>5. CASE ReadLength \/ ReadCharacters \/ ReadPassword
    <3>1. Packet(text)' = Packet(text)
      BY <1>3, <2>5, HandlerStep
    <3>2. pc' # "lookup"
      BY <2>5 DEF ReadLength, ReadCharacters, ReadPassword, Goes
    <3>3. ASSUME NEW v \in 0..(MAX_STRING - 1), NEW a \in 0..(MAX_STRING - 1),
                 Contains(Packet(text), v, a)
          PROVE  Progress(Packet(text), v, a)'
      BY <1>3, <2>5, <3>3, CertifyStep
    <3> QED BY <2>1, <3>1, <3>2, <3>3 DEF FieldsInv
  <2> QED BY <1>3, <2>2, <2>3, <2>4, <2>5 DEF OnClientData
<1>4. Mark \/ OnClientData => caller = "OnClientData"
  BY DEF Mark, OnClientData, Arrive, WriteData, LoopEnds, RefusePrefix,
    PassPrefix, ReadFields, BodyMissing, ReadCode, RefuseCode, Invoke,
    ReadLength, ReadCharacters, ReadPassword, StopMarked, RemoveHandled, Goes
<1> QED BY <1>1, <1>2, <1>3, <1>4 DEF LoopNext

(***************************************************************************)
(* OnCertify reads the two strings and the password that its packet holds, *)
(* for all lengths ReadString has room for, whatever lies behind the       *)
(* packet or was in the archive before.                                    *)
(***************************************************************************)
THEOREM CertifyReadsAsSent == LoopSpec => []CertifyAsSent
<1>1. LoopInit => FieldsInv
  BY DEF LoopInit, FieldsInv, Progress
<1>2. FieldsInv => CertifyAsSent
  BY DEF FieldsInv, Progress, CertifyAsSent, Field
<1>3. LoopInv /\ FieldsInv /\ [LoopNext]_loopVars => FieldsInv'
  BY FieldsStep
<1> QED BY <1>1, <1>2, <1>3, LoopInitInv, LoopNextInv, PTL DEF LoopSpec
=============================================================================
