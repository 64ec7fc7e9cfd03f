--------------------------------- MODULE CAr ---------------------------------
(***************************************************************************)
(* The byte archive of src/Memory: a block of memory, offsets into it (the *)
(* pointers m_lpBufCur, m_lpBufMax and m_lpBufEnd are relative to          *)
(* m_lpBufStart here) and a capacity that doubles.                         *)
(*                                                                         *)
(* Callers write, reserve and insert only in storing mode, as all of the   *)
(* repository does: in loading mode CheckBuf would reallocate a block that *)
(* is not the archive's.  No operation looks at a byte, so that one value, *)
(* Garbage, stands for whatever memory holds that was not written.         *)
(***************************************************************************)
EXTENDS Integers, Sequences

CONSTANTS
  BUFFER_SIZE,  \* bytes of the array inside the object: 16384 in the code
  Cell,         \* contents of a byte
  Garbage,      \* that of a byte nobody wrote
  Input,        \* what callers write or insert, and the blocks they load
  Size,         \* sizes and offsets callers pass
  MaxLength,    \* bound: what a write may not go beyond
  Copies        \* how the build's memcpy may treat overlapping regions

ASSUME ArchiveAssumption ==
  /\ BUFFER_SIZE \in Nat \ {0}
  /\ Garbage \in Cell
  /\ Input \subseteq Seq(Cell)
  /\ Size \subseteq Nat
  /\ MaxLength \in Nat
  /\ Copies \subseteq {"memmove", "ascending", "descending"}

VARIABLES
  mem,           \* the block at m_lpBufStart
  block,         \* where it is: "inline" (m_lpBuf), "heap" or "caller"
  m_bIsStoring,
  m_nBufSize,
  m_lpBufCur,
  m_lpBufMax,
  m_lpBufEnd,
  got            \* what the last Read copied out

shape == <<block, m_bIsStoring, m_nBufSize, m_lpBufEnd>>
vars == <<mem, shape, m_lpBufCur, m_lpBufMax, got>>

-----------------------------------------------------------------------------
(* Memory *)

(***************************************************************************)
(* memcpy of n bytes within a block.  Where the regions overlap the C      *)
(* library may copy in any order.                                          *)
(***************************************************************************)
Copied(cells, target, source, n, way) ==
  LET distance == IF target > source THEN target - source ELSE source - target
      origin(j) ==
        IF way = "ascending" /\ source < target /\ target < source + n
        THEN j % distance
        ELSE IF way = "descending" /\ target < source /\ source < target + n
        THEN j + distance * ((n - 1 - j) \div distance)
        ELSE j
  IN [i \in DOMAIN cells |->
        IF i \in target..(target + n - 1) THEN cells[source + origin(i - target)]
        ELSE cells[i]]

(***************************************************************************)
(* memcpy of data into a block, from offset at on.                         *)
(***************************************************************************)
Stored(cells, at, data) ==
  [i \in DOMAIN cells |->
     IF i \in at..(at + Len(data) - 1) THEN data[i - at + 1] ELSE cells[i]]

(***************************************************************************)
(* CheckBuf doubles the capacity until need bytes fit.                     *)
(***************************************************************************)
CapacitiesOnce(need) ==   \* mutant: if for while
  {IF need <= m_nBufSize THEN m_nBufSize ELSE 2 * m_nBufSize}

Capacities(need) ==
  {size \in m_nBufSize..(m_nBufSize + 2 * need) :
     /\ size >= need
     /\ \E k \in 0..need : size = m_nBufSize * 2^k /\ (k > 0 => size < 2 * need)}

Grown(size) ==
  [i \in 0..(size - 1) |-> IF i < m_nBufSize THEN mem[i] ELSE Garbage]

CheckBuf(size) ==
  /\ m_nBufSize' = size
  /\ m_lpBufEnd' = IF size = m_nBufSize THEN m_lpBufEnd ELSE size
  /\ block' = IF size = m_nBufSize THEN block ELSE "heap"
  /\ UNCHANGED m_bIsStoring

-----------------------------------------------------------------------------
(* Operations *)

ResetStoringKeepsBlock ==   \* mutant: m_lpBufStart stays where it is
  /\ mem' = [i \in 0..(BUFFER_SIZE - 1) |-> Garbage]
  /\ m_bIsStoring' = TRUE
  /\ m_nBufSize' = BUFFER_SIZE /\ m_lpBufEnd' = BUFFER_SIZE
  /\ m_lpBufMax' = 0 /\ m_lpBufCur' = 0
  /\ UNCHANGED <<block, got>>

(***************************************************************************)
(* Reset without a block, and the constructor.                             *)
(***************************************************************************)
ResetStoring ==
  /\ mem' = [i \in 0..(BUFFER_SIZE - 1) |-> Garbage]
  /\ block' = "inline" /\ m_bIsStoring' = TRUE
  /\ m_nBufSize' = BUFFER_SIZE /\ m_lpBufEnd' = BUFFER_SIZE
  /\ m_lpBufMax' = 0 /\ m_lpBufCur' = 0
  /\ UNCHANGED got

(***************************************************************************)
(* Reset to a block of the caller's.                                       *)
(***************************************************************************)
ResetLoading(data) ==
  /\ mem' = [i \in 0..(Len(data) - 1) |-> data[i + 1]]
  /\ block' = "caller" /\ m_bIsStoring' = FALSE
  /\ m_nBufSize' = Len(data) /\ m_lpBufEnd' = Len(data)
  /\ m_lpBufMax' = Len(data) /\ m_lpBufCur' = 0
  /\ UNCHANGED got

Init ==
  /\ mem = [i \in 0..(BUFFER_SIZE - 1) |-> Garbage]
  /\ block = "inline" /\ m_bIsStoring = TRUE
  /\ m_nBufSize = BUFFER_SIZE /\ m_lpBufEnd = BUFFER_SIZE
  /\ m_lpBufMax = 0 /\ m_lpBufCur = 0
  /\ got = <<>>

(***************************************************************************)
(* Nothing happens, and the caller is not told, if the bytes asked for do  *)
(* not lie within the block.  They need not lie within the text.           *)
(***************************************************************************)
Read(n) ==
  /\ m_lpBufCur + n <= m_lpBufEnd
  /\ got' = [i \in 1..n |-> mem[m_lpBufCur + i - 1]]
  /\ m_lpBufCur' = m_lpBufCur + n
  /\ UNCHANGED <<mem, shape, m_lpBufMax>>

Larger(a, b) == IF a > b THEN a ELSE b

Write(data) ==
  LET end == m_lpBufCur + Len(data) IN
  /\ m_bIsStoring /\ end <= MaxLength
  /\ \E size \in Capacities(end) :
       /\ CheckBuf(size)
       /\ mem' = Stored(Grown(size), m_lpBufCur, data)
  /\ m_lpBufCur' = end
  /\ m_lpBufMax' = Larger(m_lpBufMax, end)
  /\ UNCHANGED got

Reserve(n) ==
  LET end == m_lpBufCur + n IN
  /\ m_bIsStoring /\ end <= MaxLength
  /\ \E size \in Capacities(end) : CheckBuf(size) /\ mem' = Grown(size)
  /\ m_lpBufCur' = end
  /\ m_lpBufMax' = Larger(m_lpBufMax, end)
  /\ UNCHANGED got

RemoveKeepsPosition(n) ==   \* mutant: m_lpBufCur is not moved back
  /\ n <= m_lpBufMax
  /\ \E way \in Copies : mem' = Copied(mem, 0, n, m_lpBufMax - n, way)
  /\ m_lpBufMax' = m_lpBufMax - n
  /\ UNCHANGED <<shape, m_lpBufCur, got>>

(***************************************************************************)
(* Its memcpy overlaps unless at least half of the text goes.              *)
(***************************************************************************)
RemoveIn(n, ways) ==
  /\ n <= m_lpBufMax
  /\ \E way \in ways : mem' = Copied(mem, 0, n, m_lpBufMax - n, way)
  /\ m_lpBufCur' = Larger(m_lpBufCur - n, 0)
  /\ m_lpBufMax' = m_lpBufMax - n
  /\ UNCHANGED <<shape, got>>

Remove(n) == RemoveIn(n, Copies)

(***************************************************************************)
(* CheckBuf adds what it is given to the position, so that Insert asks for *)
(* more than it needs.                                                     *)
(***************************************************************************)
Insert(k, data) ==
  LET n == Len(data) IN
  /\ m_bIsStoring /\ k <= m_lpBufMax
  /\ m_lpBufMax + n <= MaxLength /\ m_lpBufCur + n <= MaxLength
  /\ \E size \in Capacities(m_lpBufCur + m_lpBufMax + n), way \in Copies :
       /\ CheckBuf(size)
       /\ mem' = Stored(Copied(Grown(size), k + n, k, m_lpBufMax - k, way), k, data)
  /\ m_lpBufCur' = m_lpBufCur + n
  /\ m_lpBufMax' = m_lpBufMax + n
  /\ UNCHANGED got

SetOffset(n) ==
  /\ n <= m_lpBufEnd
  /\ m_lpBufCur' = n
  /\ UNCHANGED <<mem, shape, m_lpBufMax, got>>

Flush ==
  /\ m_lpBufCur' = 0 /\ m_lpBufMax' = 0
  /\ UNCHANGED <<mem, shape, got>>

Next ==
  \/ ResetStoring \/ Flush
  \/ \E n \in Size : Read(n) \/ Reserve(n) \/ Remove(n) \/ SetOffset(n)
  \/ \E data \in Input :
       ResetLoading(data) \/ Write(data) \/ \E k \in Size : Insert(k, data)

Spec == Init /\ [][Next]_vars

-----------------------------------------------------------------------------
(* Properties *)

(***************************************************************************)
(* The block has the capacity the archive thinks, the end pointer is its   *)
(* end, and neither the position nor the text ever goes beyond it: every   *)
(* memcpy of the archive stays inside its block.                           *)
(***************************************************************************)
InBounds ==
  /\ m_nBufSize \in Nat
  /\ mem \in [0..(m_nBufSize - 1) -> Cell]
  /\ m_lpBufEnd = m_nBufSize
  /\ m_lpBufCur \in 0..m_lpBufEnd
  /\ m_lpBufMax \in 0..m_lpBufEnd
  /\ got \in Seq(Cell)
  /\ block \in {"inline", "heap", "caller"}
  /\ m_bIsStoring \in BOOLEAN

(***************************************************************************)
(* CheckBuf and the destructor take a capacity above BUFFER_SIZE for a     *)
(* block on the heap: while the archive stores, they are right.            *)
(***************************************************************************)
HeapIsKnown ==
  /\ m_bIsStoring => (m_nBufSize > BUFFER_SIZE <=> block = "heap")
  /\ m_bIsStoring => block # "caller"
  /\ m_bIsStoring => m_nBufSize >= BUFFER_SIZE
=============================================================================
