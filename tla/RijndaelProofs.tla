--------------------------- MODULE RijndaelProofs ---------------------------
(***************************************************************************)
(* What Rijndael's modes keep, for every block cipher, any number of       *)
(* objects and calls of any length.  IInv adds to the documented modes the *)
(* one fact they leave out: the chain is the previous cipher text of the   *)
(* block that comes next.                                                  *)
(***************************************************************************)
EXTENDS Rijndael, SequenceTheorems, TLAPS

ChainIsPrevious == \A o \in Object : Previous(o, Len(done[o]) + 1, m_chain[o])

IInv == TypeOK /\ ChainIsPrevious /\ ModesAsDescribed

-----------------------------------------------------------------------------
(***************************************************************************)
(* Cipher text and chain determine the plain text: BlockXor and Encipher   *)
(* can be undone.                                                          *)
(***************************************************************************)
LEMMA XorCancels ==
  ASSUME NEW a \in Block, NEW b \in Block, NEW x \in Block,
         BlockXor(a, x) = BlockXor(b, x)
  PROVE  a = b
  BY CipherAssumption

LEMMA EncryptInjective ==
  ASSUME NEW k \in Key, NEW a \in Block, NEW b \in Block,
         Encipher(k, a) = Encipher(k, b)
  PROVE  a = b
  BY CipherAssumption

(***************************************************************************)
(* Two objects that worked off the same cipher text from the same chain    *)
(* have the same previous block.                                           *)
(***************************************************************************)
LEMMA PreviousUnique ==
  ASSUME NEW o \in Object, NEW q \in Object, NEW n \in Nat \ {0},
         m_chain0[o] = m_chain0[q], SameCipherText(o, q, n - 1),
         NEW b, NEW d, Previous(o, n, b), Previous(q, n, d)
  PROVE  b = d
<1>1. CASE \A i \in 1..(n - 1) : done[o][i].mode = "ECB"
  BY <1>1 DEF Previous, SameCipherText
<1>2. CASE \E i \in 1..(n - 1) : done[o][i].mode # "ECB"
  <2>1. PICK i \in 1..(n - 1) :
          /\ done[o][i].mode # "ECB" /\ b = done[o][i].c
          /\ \A j \in (i + 1)..(n - 1) : done[o][j].mode = "ECB"
    BY <1>2 DEF Previous
  <2>2. PICK l \in 1..(n - 1) :
          /\ done[q][l].mode # "ECB" /\ d = done[q][l].c
          /\ \A j \in (l + 1)..(n - 1) : done[q][j].mode = "ECB"
    BY <1>2 DEF Previous, SameCipherText
  <2>3. i = l
    <3>1. ~(i < l)
      BY <2>1, <2>2 DEF SameCipherText
    <3>2. ~(l < i)
      BY <2>1, <2>2 DEF SameCipherText
    <3> QED BY <3>1, <3>2
  <2> QED BY <2>1, <2>2, <2>3 DEF SameCipherText
<1> QED BY <1>1, <1>2

-----------------------------------------------------------------------------
(***************************************************************************)
(* Previous looks at earlier blocks only: it survives a step that leaves   *)
(* them and the first chain alone.                                         *)
(***************************************************************************)
LEMMA PreviousKept ==
  ASSUME NEW o \in Object, NEW n \in Nat, NEW b,
         m_chain0'[o] = m_chain0[o],
         \A i \in 1..(n - 1) : done'[o][i] = done[o][i],
         Previous(o, n, b)
  PROVE  Previous(o, n, b)'
  BY DEF Previous

(***************************************************************************)
(* The chain set anew: no block has been worked off, and what comes first  *)
(* follows the chain.                                                      *)
(***************************************************************************)
LEMMA ChainSet ==
  ASSUME IInv, NEW o \in Object,
         m_key' \in [Object -> Key], m_chain0' \in [Object -> Block],
         m_chain' = [m_chain EXCEPT ![o] = m_chain0'[o]],
         done' = [done EXCEPT ![o] = <<>>],
         \A q \in Object \ {o} : m_key'[q] = m_key[q] /\ m_chain0'[q] = m_chain0[q],
         call' = call
  PROVE  IInv'
<1> USE DEF IInv
<1>1. TypeOK'
  BY DEF TypeOK
<1>2. done'[o] = <<>> /\ m_chain'[o] = m_chain0'[o]
  BY DEF TypeOK
<1>3. \A q \in Object \ {o} : done'[q] = done[q] /\ m_chain'[q] = m_chain[q]
  BY DEF TypeOK
<1>4. \A q \in Object \ {o}, n \in Nat, b \in Block : Previous(q, n, b) => Previous(q, n, b)'
  BY <1>3, PreviousKept
<1>5. ChainIsPrevious'
  <2>1. Previous(o, Len(done[o]) + 1, m_chain[o])'
    BY <1>2 DEF Previous
  <2>2. ASSUME NEW q \in Object \ {o}
        PROVE  Previous(q, Len(done[q]) + 1, m_chain[q])'
    BY <1>3, <1>4, LenProperties DEF ChainIsPrevious, TypeOK
  <2> QED BY <2>1, <2>2 DEF ChainIsPrevious
<1>6. ModesAsDescribed'
  <2> SUFFICES ASSUME NEW q \in Object, NEW n \in 1..Len(done'[q])
               PROVE  \E b \in Block : Described(q, n, b)'
    BY DEF ModesAsDescribed
  <2>1. q # o
    BY <1>2
  <2>2. done'[q] = done[q] /\ m_key'[q] = m_key[q] /\ n \in Nat
    BY <2>1, <1>3
  <2>3. PICK b \in Block : Described(q, n, b)
    BY <2>2 DEF ModesAsDescribed
  <2>4. Described(q, n, b)'
    BY <2>1, <2>2, <2>3, <1>4 DEF Described
  <2> QED BY <2>4
<1> QED BY <1>1, <1>5, <1>6

(***************************************************************************)
(* A block worked off as its mode says, with the chain as the previous     *)
(* block, and chained unless the mode is ECB.                              *)
(***************************************************************************)
LEMMA BlockDone ==
  ASSUME IInv, NEW o \in Object, NEW p \in Block, NEW c \in Block,
         call[o].in # <<>>, Advance(o, p, c),
         call[o].mode = "ECB" => c = Encipher(m_key[o], p),
         call[o].mode = "CBC" => c = Encipher(m_key[o], BlockXor(p, m_chain[o])),
         call[o].mode = "CFB" => c = BlockXor(Encipher(m_key[o], m_chain[o]), p),
         m_chain' = IF call[o].mode = "ECB" THEN m_chain
                    ELSE [m_chain EXCEPT ![o] = c]
  PROVE  IInv'
<1>0. PICK L \in Nat, b \in Block, mode \in Mode :
        L = Len(done[o]) /\ b = m_chain[o] /\ mode = call[o].mode
  BY LenProperties DEF IInv, TypeOK
<1> DEFINE e == [mode |-> mode, p |-> p, c |-> c]
<1>1. m_chain0' = m_chain0 /\ m_key' = m_key
  BY DEF Advance
<1>2. /\ call[o].in \in Seq(Block) /\ done[o] \in Seq(Entry) /\ e \in Entry
      /\ o \in DOMAIN done
  BY DEF IInv, TypeOK, Entry
<1>3. done' = [done EXCEPT ![o] = Append(@, e)]
  BY <1>0 DEF Advance
<1>4. /\ \A q \in Object \ {o} : done'[q] = done[q] /\ m_chain'[q] = m_chain[q]
      /\ done'[o] = Append(done[o], e)
  BY <1>3 DEF IInv, TypeOK
<1>5. /\ Len(done'[o]) = L + 1 /\ done'[o][L + 1] = e
      /\ \A i \in 1..L : done'[o][i] = done[o][i]
  BY <1>0, <1>2, <1>4, AppendProperties
<1>6. TypeOK'
  <2>1. Tail(call[o].in) \in Seq(Block)
    BY <1>2, HeadTailProperties
  <2>2. call' \in [Object ->
          [op : {"none", "encrypt", "decrypt"}, mode : Mode, in : Seq(Block)]]
    BY <2>1 DEF IInv, TypeOK, Advance
  <2>3. Append(done[o], e) \in Seq(Entry)
    BY <1>2, AppendProperties
  <2>4. done' \in [Object -> Seq(Entry)]
    BY <2>3, <1>3 DEF IInv, TypeOK
  <2>5. m_chain' \in [Object -> Block]
    BY DEF IInv, TypeOK
  <2> QED BY <2>2, <2>4, <2>5, <1>1 DEF IInv, TypeOK
<1>7. \A n \in 1..(L + 1), d \in Block : Previous(o, n, d) => Previous(o, n, d)'
  BY <1>1, <1>5, <1>2, PreviousKept
<1>8. \A q \in Object \ {o}, n \in Nat, d \in Block : Previous(q, n, d) => Previous(q, n, d)'
  BY <1>1, <1>4, PreviousKept
<1>9. Previous(o, L + 1, b)'
  <2>1. Previous(o, L + 1, b)
    BY <1>0 DEF IInv, ChainIsPrevious
  <2>2. L + 1 \in 1..(L + 1)
    BY <1>0
  <2>3. Previous(o, L + 1, b) => Previous(o, L + 1, b)'
    BY <2>2, <1>7
  <2> QED BY <2>1, <2>3
<1>10. ChainIsPrevious'
  <2>1. ASSUME NEW q \in Object \ {o}
        PROVE  Previous(q, Len(done[q]) + 1, m_chain[q])'
    <3>1. PICK n \in Nat, d \in Block : n = Len(done[q]) + 1 /\ d = m_chain[q]
      BY LenProperties DEF IInv, TypeOK
    <3>2. Previous(q, n, d)
      BY <3>1 DEF IInv, ChainIsPrevious
    <3>3. Previous(q, n, d)'
      BY <3>2, <1>8
    <3>4. n = Len(done'[q]) + 1 /\ d = m_chain'[q]
      BY <3>1, <1>4
    <3> QED BY <3>3, <3>4
  <2>2. Previous(o, Len(done[o]) + 1, m_chain[o])'
    <3>1. Len(done'[o]) + 1 = L + 2
      BY <1>0, <1>5
    <3>2. CASE mode = "ECB"
      <4>1. m_chain'[o] = b /\ done'[o][L + 1].mode = "ECB"
        BY <3>2, <1>0, <1>5
      <4>2. Previous(o, L + 2, b)'
        BY <4>1, <1>9, <1>0 DEF Previous
      <4> QED BY <4>1, <4>2, <3>1
    <3>3. CASE mode # "ECB"
      <4>1. m_chain'[o] = c
        BY <3>3, <1>0 DEF IInv, TypeOK
      <4>2. done'[o][L + 1].mode # "ECB" /\ done'[o][L + 1].c = c
        BY <3>3, <1>5
      <4>3. Previous(o, L + 2, c)'
        BY <4>2, <1>0 DEF Previous
      <4> QED BY <4>1, <4>3, <3>1
    <3> QED BY <3>2, <3>3
  <2> QED BY <2>1, <2>2 DEF ChainIsPrevious
<1>11. ModesAsDescribed'
  <2>1. \A q \in Object : \A n \in 1..Len(done[q]) : \E d \in Block : Described(q, n, d)
    BY DEF IInv, ModesAsDescribed
  <2>2. ASSUME NEW q \in Object \ {o}, NEW n \in 1..Len(done'[q])
        PROVE  \E d \in Block : Described(q, n, d)'
    <3>1. done'[q] = done[q] /\ n \in 1..Len(done[q]) /\ n \in Nat
      BY <1>4
    <3>2. PICK d \in Block : Described(q, n, d)
      BY <2>1, <3>1
    <3>3. Described(q, n, d)'
      BY <3>1, <3>2, <1>1, <1>8 DEF Described
    <3> QED BY <3>3
  <2>3. ASSUME NEW n \in 1..L
        PROVE  \E d \in Block : Described(o, n, d)'
    <3>1. PICK d \in Block : Described(o, n, d)
      BY <2>1, <1>0
    <3>2. n \in 1..(L + 1) /\ done'[o][n] = done[o][n]
      BY <1>0, <1>5
    <3>3. Described(o, n, d)'
      BY <3>1, <3>2, <1>1, <1>7 DEF Described
    <3> QED BY <3>3
  <2>4. Described(o, L + 1, b)'
    BY <1>0, <1>1, <1>5, <1>9 DEF Described
  <2>5. \A n \in 1..Len(done'[o]) : n \in 1..L \/ n = L + 1
    BY <1>0, <1>5
  <2> QED BY <2>2, <2>3, <2>4, <2>5 DEF ModesAsDescribed
<1> QED BY <1>6, <1>10, <1>11 DEF IInv

-----------------------------------------------------------------------------
LEMMA InitIInv == Init => IInv
<1> SUFFICES ASSUME Init PROVE IInv
  OBVIOUS
<1>1. TypeOK
  BY CipherAssumption, EmptySeq DEF Init, TypeOK, Idle, Mode
<1>2. \A o \in Object : Len(done[o]) = 0 /\ m_chain[o] = m_chain0[o]
  BY EmptySeq DEF Init
<1>3. ChainIsPrevious
  <2> SUFFICES ASSUME NEW o \in Object
               PROVE  Previous(o, Len(done[o]) + 1, m_chain[o])
    BY DEF ChainIsPrevious
  <2>1. Len(done[o]) + 1 - 1 = 0
    BY <1>2
  <2> QED BY <1>2, <2>1 DEF Previous
<1>4. ModesAsDescribed
  BY <1>2 DEF ModesAsDescribed
<1> QED BY <1>1, <1>3, <1>4 DEF IInv

(***************************************************************************)
(* A call begun: nothing but the call changes.                             *)
(***************************************************************************)
LEMMA CallBegun ==
  ASSUME IInv, UNCHANGED <<m_key, m_chain0, m_chain, done>>,
         call' \in [Object ->
           [op : {"none", "encrypt", "decrypt"}, mode : Mode, in : Seq(Block)]]
  PROVE  IInv'
<1>1. TypeOK'
  BY DEF IInv, TypeOK
<1>2. \A o \in Object, n \in Nat, b \in Block : Previous(o, n, b) => Previous(o, n, b)'
  BY DEF Previous
<1>3. ChainIsPrevious' /\ ModesAsDescribed'
  BY DEF IInv, ChainIsPrevious, ModesAsDescribed, Described, Previous
<1> QED BY <1>1, <1>3 DEF IInv

LEMMA NextIInv == IInv /\ [Next]_vars => IInv'
<1> SUFFICES ASSUME IInv, [Next]_vars PROVE IInv'
  OBVIOUS
<1> DEFINE Calls == [op : {"none", "encrypt", "decrypt"}, mode : Mode, in : Seq(Block)]
<1>1. ASSUME NEW o \in Object, NEW key \in Key, NEW chain \in Block, MakeKey(o, key, chain)
      PROVE  IInv'
  <2>1. /\ m_key' \in [Object -> Key] /\ m_chain0' \in [Object -> Block]
        /\ m_chain0'[o] = chain
        /\ \A q \in Object \ {o} : m_key'[q] = m_key[q] /\ m_chain0'[q] = m_chain0[q]
    BY <1>1 DEF MakeKey, IInv, TypeOK
  <2>2. m_chain' = [m_chain EXCEPT ![o] = m_chain0'[o]] /\ call' = call
        /\ done' = [done EXCEPT ![o] = <<>>]
    BY <1>1, <2>1 DEF MakeKey
  <2> QED BY <2>1, <2>2, ChainSet
<1>2. ASSUME NEW o \in Object, ResetChain(o) PROVE IInv'
  <2>1. /\ m_key' \in [Object -> Key] /\ m_chain0' \in [Object -> Block]
        /\ \A q \in Object \ {o} : m_key'[q] = m_key[q] /\ m_chain0'[q] = m_chain0[q]
        /\ m_chain0' = m_chain0 /\ call' = call
    BY <1>2 DEF ResetChain, IInv, TypeOK
  <2>2. m_chain' = [m_chain EXCEPT ![o] = m_chain0'[o]]
        /\ done' = [done EXCEPT ![o] = <<>>]
    BY <1>2, <2>1 DEF ResetChain
  <2> QED BY <2>1, <2>2, ChainSet
<1>3. ASSUME NEW o \in Object, NEW mode \in Mode, NEW in \in Texts, Encrypt(o, mode, in)
      PROVE  IInv'
  <2>1. in \in Seq(Block)
    BY CipherAssumption, SeqDef DEF Texts
  <2>2. call' \in [Object -> Calls]
    BY <1>3, <2>1 DEF Encrypt, IInv, TypeOK
  <2> QED BY <1>3, <2>2, CallBegun DEF Encrypt
<1>4. ASSUME NEW o \in Object, NEW mode \in Mode, NEW q \in Object,
             NEW n \in 1..(Len(done[q]) - Len(done[o])), Decrypt(o, mode, Received(o, q, n))
      PROVE  IInv'
  <2>1. /\ done[q] \in Seq(Entry) /\ Len(done[q]) \in Nat /\ Len(done[o]) \in Nat
        /\ n \in Nat
    BY LenProperties DEF IInv, TypeOK
  <2>2. \A i \in 1..n : done[q][Len(done[o]) + i].c \in Block
    <3> SUFFICES ASSUME NEW i \in 1..n
                 PROVE  done[q][Len(done[o]) + i].c \in Block
      OBVIOUS
    <3>1. Len(done[o]) + i \in 1..Len(done[q])
      BY <2>1
    <3>2. done[q][Len(done[o]) + i] \in Entry
      BY <2>1, <3>1, ElementOfSeq
    <3> QED BY <3>2 DEF Entry
  <2>3. Received(o, q, n) \in Seq(Block)
    BY <2>1, <2>2, SeqDef DEF Received
  <2>4. call' \in [Object -> Calls]
    BY <1>4, <2>3 DEF Decrypt, IInv, TypeOK
  <2> QED BY <1>4, <2>4, CallBegun DEF Decrypt
<1>5. ASSUME NEW o \in Object, EncryptRound(o) PROVE IInv'
  <2>1. PICK p \in Block, c \in Block :
          /\ Advance(o, p, c)
          /\ call[o].mode = "ECB" => c = Encipher(m_key[o], p)
          /\ call[o].mode = "CBC" => c = Encipher(m_key[o], BlockXor(m_chain[o], p))
          /\ call[o].mode = "CFB" => c = BlockXor(Encipher(m_key[o], m_chain[o]), p)
          /\ m_chain' = IF call[o].mode = "ECB" THEN m_chain
                        ELSE [m_chain EXCEPT ![o] = c]
    <3> DEFINE mode == call[o].mode
               p == Head(call[o].in)
               c == CASE mode = "ECB" -> Encipher(m_key[o], p)
                      [] mode = "CBC" -> Encipher(m_key[o], BlockXor(m_chain[o], p))
                      [] mode = "CFB" -> BlockXor(Encipher(m_key[o], m_chain[o]), p)
    <3>1. p \in Block /\ m_key[o] \in Key /\ m_chain[o] \in Block /\ mode \in Mode
      BY <1>5, HeadTailProperties DEF EncryptRound, IInv, TypeOK
    <3>2. c \in Block
      BY <3>1, CipherAssumption DEF Mode
    <3>3. Advance(o, p, c) /\ m_chain' = IF mode = "ECB" THEN m_chain
                                        ELSE [m_chain EXCEPT ![o] = c]
      BY <1>5 DEF EncryptRound
    <3> QED BY <3>1, <3>2, <3>3
  <2>2. BlockXor(m_chain[o], p) = BlockXor(p, m_chain[o])
    BY CipherAssumption DEF IInv, TypeOK
  <2>3. call[o].in # <<>>
    BY <1>5 DEF EncryptRound
  <2> QED BY <2>1, <2>2, <2>3, BlockDone
<1>6. ASSUME NEW o \in Object, DecryptRound(o) PROVE IInv'
  <2>1. PICK p \in Block, c \in Block :
          /\ Advance(o, p, c)
          /\ call[o].mode = "ECB" => p = Decipher(m_key[o], c)
          /\ call[o].mode = "CBC" => p = BlockXor(Decipher(m_key[o], c), m_chain[o])
          /\ call[o].mode = "CFB" => p = BlockXor(Encipher(m_key[o], m_chain[o]), c)
          /\ m_chain' = IF call[o].mode = "ECB" THEN m_chain
                        ELSE [m_chain EXCEPT ![o] = c]
    <3> DEFINE mode == call[o].mode
               c == Head(call[o].in)
               p == CASE mode = "ECB" -> Decipher(m_key[o], c)
                      [] mode = "CBC" -> BlockXor(Decipher(m_key[o], c), m_chain[o])
                      [] mode = "CFB" -> BlockXor(Encipher(m_key[o], m_chain[o]), c)
    <3>1. c \in Block /\ m_key[o] \in Key /\ m_chain[o] \in Block /\ mode \in Mode
      BY <1>6, HeadTailProperties DEF DecryptRound, IInv, TypeOK
    <3>2. p \in Block
      BY <3>1, CipherAssumption DEF Mode
    <3>3. Advance(o, p, c) /\ m_chain' = IF mode = "ECB" THEN m_chain
                                        ELSE [m_chain EXCEPT ![o] = c]
      BY <1>6 DEF DecryptRound
    <3> QED BY <3>1, <3>2, <3>3
  <2>2. m_key[o] \in Key /\ m_chain[o] \in Block
    BY DEF IInv, TypeOK
  <2>3. call[o].mode = "ECB" => c = Encipher(m_key[o], p)
    BY <2>1, <2>2, CipherAssumption
  <2>4. call[o].mode = "CBC" => c = Encipher(m_key[o], BlockXor(p, m_chain[o]))
    <3> DEFINE dec == Decipher(m_key[o], c)
    <3>1. dec \in Block /\ Encipher(m_key[o], dec) = c
      BY <2>2, CipherAssumption
    <3>2. BlockXor(BlockXor(dec, m_chain[o]), m_chain[o]) = dec
      BY <3>1, <2>2, CipherAssumption
    <3> QED BY <2>1, <3>1, <3>2
  <2>5. call[o].mode = "CFB" => c = BlockXor(Encipher(m_key[o], m_chain[o]), p)
    <3>1. ASSUME NEW a \in Block PROVE BlockXor(a, BlockXor(a, c)) = c
      <4>1. BlockXor(a, c) \in Block /\ BlockXor(a, c) = BlockXor(c, a)
        BY CipherAssumption
      <4>2. BlockXor(a, BlockXor(a, c)) = BlockXor(BlockXor(a, c), a)
        BY <4>1, CipherAssumption
      <4>3. BlockXor(BlockXor(c, a), a) = c
        BY CipherAssumption
      <4> QED BY <4>1, <4>2, <4>3
    <3>2. Encipher(m_key[o], m_chain[o]) \in Block
      BY <2>2, CipherAssumption
    <3> QED BY <2>1, <3>1, <3>2
  <2>6. call[o].in # <<>>
    BY <1>6 DEF DecryptRound
  <2> QED BY <2>1, <2>3, <2>4, <2>5, <2>6, BlockDone
<1>7. CASE UNCHANGED vars
  BY <1>7, CallBegun DEF vars, IInv, TypeOK
<1> QED BY <1>1, <1>2, <1>3, <1>4, <1>5, <1>6, <1>7 DEF Next

-----------------------------------------------------------------------------
(***************************************************************************)
(* ModesAsDescribed, always: CBC and CFB chain the cipher text in both     *)
(* directions, over every division of a text into calls.                   *)
(***************************************************************************)
THEOREM ModesCorrect == Spec => []ModesAsDescribed
<1>1. IInv => ModesAsDescribed
  BY DEF IInv
<1> QED BY <1>1, InitIInv, NextIInv, PTL DEF Spec

(***************************************************************************)
(* RoundTrip, always: given the key and the first chain, the cipher text   *)
(* determines the plain text.                                              *)
(***************************************************************************)
THEOREM RoundTripCorrect == Spec => []RoundTrip
<1>1. IInv => RoundTrip
  <2> SUFFICES ASSUME IInv, NEW o \in Object, NEW q \in Object,
                      m_key[o] = m_key[q], m_chain0[o] = m_chain0[q],
                      NEW n \in 1..Len(done[o]), n <= Len(done[q]),
                      SameCipherText(o, q, n)
               PROVE  done[o][n].p = done[q][n].p
    BY DEF RoundTrip
  <2>1. /\ done[o][n] \in Entry /\ done[q][n] \in Entry /\ m_key[o] \in Key
        /\ n \in Nat \ {0} /\ n \in 1..Len(done[q])
    BY ElementOfSeq, LenProperties DEF IInv, TypeOK
  <2>2. PICK b \in Block : Described(o, n, b)
    BY DEF IInv, ModesAsDescribed
  <2>3. PICK d \in Block : Described(q, n, d)
    BY <2>1 DEF IInv, ModesAsDescribed
  <2>4. SameCipherText(o, q, n - 1)
    BY <2>1 DEF SameCipherText
  <2>5. b = d
    BY <2>1, <2>2, <2>3, <2>4, PreviousUnique DEF Described
  <2>6. /\ done[o][n].c = done[q][n].c /\ done[o][n].mode = done[q][n].mode
        /\ done[o][n].mode \in Mode /\ done[o][n].p \in Block /\ done[q][n].p \in Block
    BY <2>1 DEF SameCipherText, Entry
  <2>7. CASE done[o][n].mode = "ECB"
    BY <2>1, <2>2, <2>3, <2>6, <2>7, EncryptInjective DEF Described
  <2>8. CASE done[o][n].mode = "CBC"
    <3>1. BlockXor(done[o][n].p, b) = BlockXor(done[q][n].p, b)
      <4>1. BlockXor(done[o][n].p, b) \in Block /\ BlockXor(done[q][n].p, b) \in Block
        BY <2>6, CipherAssumption
      <4> QED BY <4>1, <2>1, <2>2, <2>3, <2>5, <2>6, <2>8, EncryptInjective DEF Described
    <3> QED BY <3>1, <2>6, XorCancels
  <2>9. CASE done[o][n].mode = "CFB"
    <3>1. BlockXor(Encipher(m_key[o], b), done[o][n].p) = BlockXor(Encipher(m_key[o], b), done[q][n].p)
      BY <2>2, <2>3, <2>5, <2>6, <2>9 DEF Described
    <3>2. Encipher(m_key[o], b) \in Block
      BY <2>1, CipherAssumption
    <3>3. BlockXor(done[o][n].p, Encipher(m_key[o], b))
            = BlockXor(done[q][n].p, Encipher(m_key[o], b))
      BY <3>1, <3>2, <2>6, CipherAssumption
    <3> QED BY <3>2, <3>3, <2>6, XorCancels
  <2> QED BY <2>6, <2>7, <2>8, <2>9 DEF Mode
<1> QED BY <1>1, InitIInv, NextIInv, PTL DEF Spec
=============================================================================
