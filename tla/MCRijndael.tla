----------------------------- MODULE MCRijndael -----------------------------
(***************************************************************************)
(* Rijndael for TLC: blocks of one bit with a permutation for each key,    *)
(* and for each key some of CRijndael's key lengths, for which             *)
(* RijndaelBlock is compared with the published cipher.                    *)
(***************************************************************************)
EXTENDS Rijndael

B == INSTANCE RijndaelBlock

CONSTANTS peer, server

MCKey == {1, 2}
Lengths == <<{4}, {6, 8}>>    \* words of the keys each stands for
MCBlock == 0..1
MCXor(a, b) == B!NibbleXor[a][b]

(***************************************************************************)
(* The permutations of one bit: key 2 changes nothing.                     *)
(***************************************************************************)
MCEncryptBlock(k, a) == IF k = 2 THEN a ELSE 1 - a
MCDecryptBlock(k, a) == IF k = 2 THEN a ELSE 1 - a

(***************************************************************************)
(* Keys and blocks of n words, counting from a byte in steps.              *)
(***************************************************************************)
Counted(n, first, step) ==
  B!Array(n, LAMBDA i :
    B!Array(4, LAMBDA j : (first + step * (4 * i + j - 5)) % 256))

(***************************************************************************)
(* FIPS-197, appendix C: the first word of the cipher text of the block    *)
(* 00 11 .. ff under the key 00 01 02 ..                                   *)
(***************************************************************************)
KnownAnswer(KC) ==
  CASE KC = 4 -> <<105, 196, 224, 216>> [] KC = 6 -> <<221, 169, 124, 164>>
    [] KC = 8 -> <<142, 162, 183, 202>>

Unpublished ==
  {k \in MCKey : \E KC \in Lengths[k] :
     \/ B!EncryptBlock(B!MakeKey(Counted(KC, 0, 1), 4), Counted(4, 0, 17))[1]
          # KnownAnswer(KC)
     \/ \E BC \in {4, 6, 8} :
          ~B!Published(Counted(KC, 3, 7), Counted(BC, 11, 29))}

(***************************************************************************)
(* "This Implementation was tested against KAT test published by the       *)
(* authors" (Rijndael.h): under a key of any length, blocks of any length  *)
(* are enciphered as published and DecryptBlock undoes EncryptBlock.       *)
(***************************************************************************)
BlocksAsPublished == \A o \in Object : m_key[o] \notin Unpublished
=============================================================================
