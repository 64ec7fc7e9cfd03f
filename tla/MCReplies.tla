------------------------------ MODULE MCReplies ------------------------------
(***************************************************************************)
(* Replies for TLC: blocks of one bit, passwords of two of them.           *)
(***************************************************************************)
EXTENDS Replies

MCPassword(s, n) == << (s + n) % 2, s % 2 >>
MCMaxCertify(s) == 3 - s
MCXor(a, b) == (a + b) % 2
MCCipher(a) == 1 - a
=============================================================================
