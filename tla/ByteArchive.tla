----------------------------- MODULE ByteArchive -----------------------------
(***************************************************************************)
(* What CAr promises its callers: a text with a position in it.  Nothing   *)
(* is said of blocks, capacities and pointers, nor of bytes nobody wrote:  *)
(* a position may lie beyond the text, and the gap a write then leaves is  *)
(* filled with anything.                                                   *)
(***************************************************************************)
EXTENDS Naturals, Sequences

CONSTANTS
  Cell,   \* contents of a byte of memory
  Size,   \* sizes and offsets callers pass
  Input   \* what they write or insert

VARIABLES
  text,   \* the bytes of the archive
  pos,    \* bytes before the position
  got     \* what the last Read delivered

archiveVars == <<text, pos, got>>

Init == text \in Seq(Cell) /\ pos = 0 /\ got = <<>>

Start == text' \in Seq(Cell) /\ pos' = 0 /\ UNCHANGED got

(***************************************************************************)
(* Bytes are delivered or they are not; those inside the text are right.   *)
(***************************************************************************)
Read(n) ==
  /\ UNCHANGED text
  /\ \/ /\ pos' = pos + n
        /\ Len(got') = n
        /\ \A i \in 1..n : pos + i <= Len(text) => got'[i] = text[pos + i]
     \/ pos + n > Len(text) /\ UNCHANGED <<pos, got>>

Covered(n) == (pos + 1)..(pos + n)

(***************************************************************************)
(* The text grows to hold what is written, and no other byte of it changes.*)
(***************************************************************************)
Extend(n) ==
  /\ Len(text') = IF pos + n > Len(text) THEN pos + n ELSE Len(text)
  /\ \A i \in 1..Len(text) : i \notin Covered(n) => text'[i] = text[i]
  /\ pos' = pos + n
  /\ UNCHANGED got

Write(data) ==
  /\ Extend(Len(data))
  /\ \A i \in Covered(Len(data)) : text'[i] = data[i - pos]

Reserve(n) == Extend(n)

(***************************************************************************)
(* The first n bytes go.  The rest is right if at least half of the text   *)
(* goes; otherwise source and target of the copy overlap and only the last *)
(* n bytes are.                                                            *)
(***************************************************************************)
Remove(n) ==
  /\ n <= Len(text)
  /\ Len(text') = Len(text) - n
  /\ \A i \in 1..Len(text') :
       n = 0 \/ 2 * n >= Len(text) \/ i + 2 * n > Len(text) => text'[i] = text[i + n]
  /\ pos' = IF pos > n THEN pos - n ELSE 0
  /\ UNCHANGED got

(***************************************************************************)
(* data goes in after byte k.  What follows is right if data is at least   *)
(* as long as that; otherwise its copy overlaps it.  The position moves    *)
(* with the end, wherever it was.                                          *)
(***************************************************************************)
Insert(k, data) ==
  LET n == Len(data) IN
  /\ k <= Len(text)
  /\ Len(text') = Len(text) + n
  /\ \A i \in 1..k : text'[i] = text[i]
  /\ \A i \in 1..n : text'[k + i] = data[i]
  /\ \A i \in (k + 1)..Len(text) :
       n = 0 \/ n >= Len(text) - k \/ i <= k + n => text'[i + n] = text[i]
  /\ pos' = pos + n
  /\ UNCHANGED got

SetOffset(n) == pos' = n /\ UNCHANGED <<text, got>>

Flush == text' = <<>> /\ pos' = 0 /\ UNCHANGED got

Next ==
  \/ Start \/ Flush
  \/ \E n \in Size : Read(n) \/ Reserve(n) \/ Remove(n) \/ SetOffset(n)
  \/ \E data \in Input : Write(data) \/ \E k \in Size : Insert(k, data)

Spec == Init /\ [][Next]_archiveVars
=============================================================================
