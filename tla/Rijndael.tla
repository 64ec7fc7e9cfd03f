------------------------------ MODULE Rijndael ------------------------------
(***************************************************************************)
(* CRijndael's modes of operation, over any block cipher: Encrypt and      *)
(* Decrypt in ECB, CBC and CFB, and the chain that a call leaves behind    *)
(* for the next.  An object decrypts what another has encrypted; a call    *)
(* may take other blocks together than the call that made them.            *)
(* The block cipher itself is in RijndaelBlock.                            *)
(*                                                                         *)
(* An action is one round of a loop over the blocks.  `in' and `result' of *)
(* a call do not overlap, as in OnCertify, the only caller.                *)
(***************************************************************************)
EXTENDS Naturals, Sequences

CONSTANTS
  Object,              \* cipher objects, each in a thread of its own
  Key,                 \* keys MakeKey accepts
  Block,               \* texts of m_blockSize bytes
  DefaultKey,          \* the key of the constructor
  sm_chain0,           \* its chain, all zero
  BlockXor(_, _),      \* Xor of two blocks
  Encipher(_, _),      \* EncryptBlock, with the round keys of a key
  Decipher(_, _),      \* DecryptBlock
  Peer,                \* objects whose owners encrypt and set keys; the server's
                       \* only ever resets its chain and decrypts
  MaxCall,             \* bound: blocks per call
  MaxBlocks            \* bound: blocks an object works off between resets

ASSUME CipherAssumption ==
  /\ DefaultKey \in Key /\ sm_chain0 \in Block
  /\ Peer \subseteq Object
  /\ MaxCall \in Nat /\ MaxBlocks \in Nat
  /\ \A a, b \in Block : BlockXor(a, b) \in Block /\ BlockXor(BlockXor(a, b), b) = a
  /\ \A a, b \in Block : BlockXor(a, b) = BlockXor(b, a)
  /\ \A k \in Key, a \in Block :
       Encipher(k, a) \in Block /\ Decipher(k, a) \in Block
  /\ \A k \in Key, a \in Block : Decipher(k, Encipher(k, a)) = a
  /\ \A k \in Key, a \in Block : Encipher(k, Decipher(k, a)) = a

VARIABLES
  m_key,     \* m_key[o]: the key whose round keys are in m_Ke and m_Kd
  m_chain0,  \* m_chain0[o]: the block ResetChain goes back to
  m_chain,   \* m_chain[o]: the chain
  call,      \* call[o]: the call o is in, and the blocks left of its text
  done       \* history, done[o]: the blocks o worked off since its chain was
             \* set: mode, plain text and cipher text

vars == <<m_key, m_chain0, m_chain, call, done>>

Mode == {"ECB", "CBC", "CFB"}
Idle == [op |-> "none", mode |-> "ECB", in |-> <<>>]

(***************************************************************************)
(* The constructor.                                                        *)
(***************************************************************************)
Init ==
  /\ m_key = [o \in Object |-> DefaultKey]
  /\ m_chain0 = [o \in Object |-> sm_chain0]
  /\ m_chain = [o \in Object |-> sm_chain0]
  /\ call = [o \in Object |-> Idle]
  /\ done = [o \in Object |-> <<>>]

Free(o) == call[o].in = <<>>

MakeKeyKeepsChain(o, key, chain) ==    \* mutant: m_chain is not set
  /\ Free(o) /\ o \in Peer
  /\ m_key' = [m_key EXCEPT ![o] = key]
  /\ m_chain0' = [m_chain0 EXCEPT ![o] = chain]
  /\ done' = [done EXCEPT ![o] = <<>>]
  /\ UNCHANGED <<m_chain, call>>

MakeKey(o, key, chain) ==
  /\ Free(o) /\ o \in Peer
  /\ m_key' = [m_key EXCEPT ![o] = key]
  /\ m_chain0' = [m_chain0 EXCEPT ![o] = chain]
  /\ m_chain' = [m_chain EXCEPT ![o] = chain]
  /\ done' = [done EXCEPT ![o] = <<>>]
  /\ UNCHANGED call

ResetChain(o) ==
  /\ Free(o)
  /\ m_chain' = [m_chain EXCEPT ![o] = m_chain0[o]]
  /\ done' = [done EXCEPT ![o] = <<>>]
  /\ UNCHANGED <<m_key, m_chain0, call>>

(***************************************************************************)
(* A call with a text of whole blocks; any other throws before it changes  *)
(* anything.                                                               *)
(***************************************************************************)
Encrypt(o, mode, in) ==
  /\ Free(o) /\ o \in Peer
  /\ Len(in) \in 1..MaxCall /\ Len(done[o]) + Len(in) <= MaxBlocks
  /\ call' = [call EXCEPT ![o] = [op |-> "encrypt", mode |-> mode, in |-> in]]
  /\ UNCHANGED <<m_key, m_chain0, m_chain, done>>

Decrypt(o, mode, in) ==
  /\ Free(o)
  /\ Len(in) \in 1..MaxCall /\ Len(done[o]) + Len(in) <= MaxBlocks
  /\ call' = [call EXCEPT ![o] = [op |-> "decrypt", mode |-> mode, in |-> in]]
  /\ UNCHANGED <<m_key, m_chain0, m_chain, done>>

Advance(o, p, c) ==
  /\ call' = [call EXCEPT ![o].in = Tail(@)]
  /\ done' = [done EXCEPT ![o] = Append(@, [mode |-> call[o].mode, p |-> p, c |-> c])]
  /\ UNCHANGED <<m_key, m_chain0>>

EncryptRound(o) ==
  LET mode == call[o].mode
      p == Head(call[o].in)
      c == CASE mode = "ECB" -> Encipher(m_key[o], p)
             [] mode = "CBC" -> Encipher(m_key[o], BlockXor(m_chain[o], p))
             [] mode = "CFB" -> BlockXor(Encipher(m_key[o], m_chain[o]), p)
  IN
  /\ call[o].op = "encrypt" /\ call[o].in # <<>>
  /\ m_chain' = IF mode = "ECB" THEN m_chain ELSE [m_chain EXCEPT ![o] = c]
  /\ Advance(o, p, c)

DecryptRoundChainsResult(o) ==    \* mutant: in and result are one buffer
  LET mode == call[o].mode
      c == Head(call[o].in)
      p == CASE mode = "ECB" -> Decipher(m_key[o], c)
             [] mode = "CBC" -> BlockXor(Decipher(m_key[o], c), m_chain[o])
             [] mode = "CFB" -> BlockXor(Encipher(m_key[o], m_chain[o]), c)
  IN
  /\ call[o].op = "decrypt" /\ call[o].in # <<>>
  /\ m_chain' = IF mode = "ECB" THEN m_chain ELSE [m_chain EXCEPT ![o] = p]
  /\ Advance(o, p, c)

DecryptRound(o) ==
  LET mode == call[o].mode
      c == Head(call[o].in)
      p == CASE mode = "ECB" -> Decipher(m_key[o], c)
             [] mode = "CBC" -> BlockXor(Decipher(m_key[o], c), m_chain[o])
             [] mode = "CFB" -> BlockXor(Encipher(m_key[o], m_chain[o]), c)
  IN
  /\ call[o].op = "decrypt" /\ call[o].in # <<>>
  /\ m_chain' = IF mode = "ECB" THEN m_chain ELSE [m_chain EXCEPT ![o] = c]
  /\ Advance(o, p, c)

Texts == UNION {[1..n -> Block] : n \in 1..MaxCall}

(***************************************************************************)
(* What o has to decrypt: n blocks q has worked off, from where o is.      *)
(***************************************************************************)
Received(o, q, n) == [i \in 1..n |-> done[q][Len(done[o]) + i].c]

Next ==
  \E o \in Object :
    \/ \E key \in Key, chain \in Block : MakeKey(o, key, chain)
    \/ ResetChain(o)
    \/ \E mode \in Mode :
         \/ \E in \in Texts : Encrypt(o, mode, in)
         \/ \E q \in Object : \E n \in 1..(Len(done[q]) - Len(done[o])) :
              Decrypt(o, mode, Received(o, q, n))
    \/ EncryptRound(o) \/ DecryptRound(o)

Spec == Init /\ [][Next]_vars

-----------------------------------------------------------------------------
Entry == [mode : Mode, p : Block, c : Block]

TypeOK ==
  /\ m_key \in [Object -> Key]
  /\ m_chain0 \in [Object -> Block]
  /\ m_chain \in [Object -> Block]
  /\ call \in [Object ->
       [op : {"none", "encrypt", "decrypt"}, mode : Mode, in : Seq(Block)]]
  /\ done \in [Object -> Seq(Entry)]

(***************************************************************************)
(* b is the previous cipher text block at the n-th block of o: the last    *)
(* one chained, or the one the chain was set to.  ECB chains nothing.      *)
(***************************************************************************)
Previous(o, n, b) ==
  \/ /\ b = m_chain0[o]
     /\ \A i \in 1..(n - 1) : done[o][i].mode = "ECB"
  \/ \E i \in 1..(n - 1) :
       /\ done[o][i].mode # "ECB" /\ b = done[o][i].c
       /\ \A j \in (i + 1)..(n - 1) : done[o][j].mode = "ECB"

Described(o, n, b) ==
  LET e == done[o][n] IN
  /\ Previous(o, n, b)
  /\ e.mode = "ECB" => e.c = Encipher(m_key[o], e.p)
  /\ e.mode = "CBC" => e.c = Encipher(m_key[o], BlockXor(e.p, b))
  /\ e.mode = "CFB" => e.c = BlockXor(Encipher(m_key[o], b), e.p)

(***************************************************************************)
(* The modes are those Rijndael.h describes, whatever calls the text was   *)
(* cut into and whether it was encrypted or decrypted: in CBC the plain    *)
(* text is xored with the previous cipher text and encrypted, in CFB the   *)
(* previous cipher text is encrypted and xored with the plain text.        *)
(***************************************************************************)
ModesAsDescribed ==
  \A o \in Object : \A n \in 1..Len(done[o]) : \E b \in Block : Described(o, n, b)

SameCipherText(o, q, n) ==
  \A i \in 1..n : /\ done[o][i].mode = done[q][i].mode
                  /\ done[o][i].c = done[q][i].c

(***************************************************************************)
(* Two objects that have the same key and began with the same chain, and   *)
(* have since worked off the same cipher text in the same modes, have the  *)
(* same plain text, whoever encrypted and however calls were cut.  A       *)
(* server that resets its chain before a message reads what a client with  *)
(* a new chain wrote.                                                      *)
(***************************************************************************)
RoundTrip ==
  \A o, q \in Object :
    m_key[o] = m_key[q] /\ m_chain0[o] = m_chain0[q] =>
      \A n \in 1..Len(done[o]) :
        n <= Len(done[q]) /\ SameCipherText(o, q, n) =>
          done[o][n].p = done[q][n].p
=============================================================================
