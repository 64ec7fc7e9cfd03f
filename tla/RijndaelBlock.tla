--------------------------- MODULE RijndaelBlock ----------------------------
(***************************************************************************)
(* The block cipher of CRijndael at full width: its tables, MakeKey,       *)
(* EncryptBlock and DecryptBlock, for all nine combinations of key and     *)
(* block length.                                                           *)
(*                                                                         *)
(* A byte is a number, a word (an int of the code) the tuple of its four   *)
(* bytes, highest first, and a block, a key or a row of the key schedule a *)
(* sequence of words.  The tables are computed from the field GF(2^8) they *)
(* were made of.                                                           *)
(***************************************************************************)
EXTENDS Naturals, Sequences

Byte == 0..255

(***************************************************************************)
(* Exclusive or of nibbles, bytes, words and blocks.                       *)
(***************************************************************************)
Bit(a, i) == (a \div 2^i) % 2
NibbleXor ==
  LET bit(a, b, i) == 2^i * ((Bit(a, i) + Bit(b, i)) % 2) IN
  [a \in 0..15 |-> [b \in 0..15 |->
     bit(a, b, 0) + bit(a, b, 1) + bit(a, b, 2) + bit(a, b, 3)]]
ByteXor(a, b) ==
  16 * NibbleXor[a \div 16][b \div 16] + NibbleXor[a % 16][b % 16]
WordXor(v, w) == <<ByteXor(v[1], w[1]), ByteXor(v[2], w[2]),
                   ByteXor(v[3], w[3]), ByteXor(v[4], w[4])>>

(***************************************************************************)
(* Arrays: the sequence f(1), ..., f(n), and a table of 256 entries, whose *)
(* entry for byte x is at x + 1.  SubSeq changes nothing: it has TLC       *)
(* compute an array once and not an element of it at every use.            *)
(***************************************************************************)
Array(n, f(_)) == SubSeq([i \in 1..n |-> f(i)], 1, n)
Table(f(_)) == Array(256, LAMBDA i : f(i - 1))

Xor(buff, chain) == Array(Len(buff), LAMBDA i : WordXor(buff[i], chain[i]))

-----------------------------------------------------------------------------
(* The tables *)

(***************************************************************************)
(* Multiplication modulo x^8 + x^4 + x^3 + x + 1, by 2 and by any byte.    *)
(***************************************************************************)
Double(a) == IF a < 128 THEN 2 * a ELSE ByteXor(2 * a - 256, 27)
Mul(a, b) ==
  LET times[n \in Byte] ==
        IF n = 0 THEN 0
        ELSE LET half == times[n \div 2] IN
             ByteXor(Double(half), IF n % 2 = 1 THEN a ELSE 0)
  IN times[b]

(***************************************************************************)
(* The S-box: the inverse in the field, then an affine map of its bits.    *)
(***************************************************************************)
Rotate(a, k) == ((a * 2^k) % 256) + ((a * 2^k) \div 256)

sm_S ==
  LET inverse(x) == IF x = 0 THEN 0 ELSE CHOOSE y \in Byte : Mul(x, y) = 1
      affine(y) ==
        ByteXor(99, ByteXor(y, ByteXor(ByteXor(Rotate(y, 1), Rotate(y, 2)),
                                       ByteXor(Rotate(y, 3), Rotate(y, 4)))))
  IN Table(LAMBDA x : affine(inverse(x)))
sm_Si == Table(LAMBDA y : CHOOSE x \in Byte : sm_S[x + 1] = y)

(***************************************************************************)
(* A table for each row of a column: substitution and column mixing in one.*)
(* sm_T[1] .. sm_T[4] are sm_T1 .. sm_T4, sm_Ti[1] .. sm_Ti[4] are sm_T5   *)
(* .. sm_T8, and sm_U has the inverse mixing alone.                        *)
(***************************************************************************)
RowTables(c, subst) ==
  Array(4, LAMBDA row : Table(LAMBDA x :
    Array(4, LAMBDA i : Mul(subst[x + 1], c[((i + 4 - row) % 4) + 1]))))

sm_T == RowTables(<<2, 1, 1, 3>>, sm_S)
sm_Ti == RowTables(<<14, 9, 13, 11>>, sm_Si)
sm_U == RowTables(<<14, 9, 13, 11>>, Table(LAMBDA x : x))

sm_rcon ==
  LET power[n \in 1..30] ==
        IF n = 1 THEN 1 ELSE LET p == power[n - 1] IN Double(p)
  IN [n \in 1..30 |-> power[n]]

(***************************************************************************)
(* How far each row is shifted, by the words in a block, and back.         *)
(***************************************************************************)
sm_shifts(BC) == IF BC = 8 THEN <<0, 1, 3, 4>> ELSE <<0, 1, 2, 3>>
sm_shifts_back(BC) ==
  CASE BC = 4 -> <<0, 3, 2, 1>> [] BC = 6 -> <<0, 5, 4, 3>>
    [] BC = 8 -> <<0, 7, 5, 4>>

(***************************************************************************)
(* A word looked up in four tables: its rows come from four words.         *)
(***************************************************************************)
Mix(T, w) ==
  WordXor(WordXor(T[1][w[1][1] + 1], T[2][w[2][2] + 1]),
          WordXor(T[3][w[3][3] + 1], T[4][w[4][4] + 1]))
-----------------------------------------------------------------------------
(* MakeKey *)

m_iROUNDS(KC, BC) ==
  CASE KC = 4 -> (IF BC = 4 THEN 10 ELSE IF BC = 6 THEN 12 ELSE 14)
    [] KC = 6 -> (IF BC # 8 THEN 12 ELSE 14)
    [] KC = 8 -> 14

SubWord(w) == Array(4, LAMBDA i : sm_S[w[i] + 1])
Next4(w) == <<w[2], w[3], w[4], w[1]>>

EvolveShort(tk, rcon) ==    \* mutant: keys of eight words like the others
  LET next[i \in DOMAIN tk] ==
        IF i = 1
        THEN WordXor(WordXor(tk[1], SubWord(Next4(tk[Len(tk)]))),
                     <<rcon, 0, 0, 0>>)
        ELSE LET p == next[i - 1] IN WordXor(tk[i], p)
  IN Array(Len(tk), LAMBDA i : next[i])

(***************************************************************************)
(* One evolution of tk.                                                    *)
(***************************************************************************)
Evolve(tk, rcon) ==
  LET next[i \in DOMAIN tk] ==
        IF i = 1
        THEN WordXor(WordXor(tk[1], SubWord(Next4(tk[Len(tk)]))),
                     <<rcon, 0, 0, 0>>)
        ELSE LET p == next[i - 1] IN
             WordXor(tk[i], IF Len(tk) = 8 /\ i = 5 THEN SubWord(p) ELSE p)
  IN Array(Len(tk), LAMBDA i : next[i])

(***************************************************************************)
(* The round keys m_Ke and m_Kd: the words of tk, of its evolution, of the *)
(* evolution of that, and so on, in rows of BC words.                      *)
(***************************************************************************)
MakeKey(key, BC) ==
  LET KC == Len(key)
      R == m_iROUNDS(KC, BC)
      evolutions == ((R + 1) * BC - 1) \div KC
      words[n \in 0..evolutions] ==
        IF n = 0 THEN key
        ELSE LET w == words[n - 1] IN
             w \o Evolve(SubSeq(w, Len(w) - KC + 1, Len(w)), sm_rcon[n])
      all == words[evolutions]
      Ke == [r \in 0..R |-> SubSeq(all, r * BC + 1, r * BC + BC)]
      unmix(w) == Mix(sm_U, <<w, w, w, w>>)
  IN [BC |-> BC, R |-> R, Ke |-> Ke,
      Kd |-> [r \in 0..R |->
        IF r \in 1..(R - 1) THEN Array(BC, LAMBDA j : unmix(Ke[R - r][j]))
        ELSE Ke[R - r]]]

-----------------------------------------------------------------------------
(* Blocks *)

(***************************************************************************)
(* A word of the result, from the four words its rows come from.           *)
(***************************************************************************)
Last(box, w) == Array(4, LAMBDA row : box[w[row][row] + 1])

(***************************************************************************)
(* The rounds, with round keys K, tables T and box; row `row' of word i    *)
(* comes from word from[i][row].                                           *)
(***************************************************************************)
Rounds(K, R, T, box, from, in) ==
  LET rows(t, i) == [row \in 1..4 |-> t[from[i][row]]]
      t[r \in 0..(R - 1)] ==
        IF r = 0 THEN Xor(in, K[0])
        ELSE LET last == t[r - 1] IN
             Xor(Array(Len(in), LAMBDA i : Mix(T, rows(last, i))), K[r])
      final == t[R - 1]
  IN Xor(Array(Len(in), LAMBDA i : Last(box, rows(final, i))), K[R])

(***************************************************************************)
(* Blocks of 16 bytes are worked off by code of their own, in which the    *)
(* words each row comes from are written out.                              *)
(***************************************************************************)
DefEncryptBlock(k, in) ==
  Rounds(k.Ke, k.R, sm_T, sm_S,
         <<<<1, 2, 3, 4>>, <<2, 3, 4, 1>>, <<3, 4, 1, 2>>, <<4, 1, 2, 3>>>>, in)
DefDecryptBlock(k, in) ==
  Rounds(k.Kd, k.R, sm_Ti, sm_Si,
         <<<<1, 4, 3, 2>>, <<2, 1, 4, 3>>, <<3, 2, 1, 4>>, <<4, 3, 2, 1>>>>, in)

Shifted(BC, s) == [i \in 1..BC |-> [row \in 1..4 |-> ((i - 1 + s[row]) % BC) + 1]]

EncryptBlock(k, in) ==
  IF k.BC = 4 THEN DefEncryptBlock(k, in)
  ELSE Rounds(k.Ke, k.R, sm_T, sm_S, Shifted(k.BC, sm_shifts(k.BC)), in)

DecryptSameShift(k, in) ==    \* mutant: sm_shifts[ SC ][ i ][ 0 ]
  IF k.BC = 4 THEN DefDecryptBlock(k, in)
  ELSE Rounds(k.Kd, k.R, sm_Ti, sm_Si, Shifted(k.BC, sm_shifts(k.BC)), in)

DecryptBlock(k, in) ==
  IF k.BC = 4 THEN DefDecryptBlock(k, in)
  ELSE Rounds(k.Kd, k.R, sm_Ti, sm_Si, Shifted(k.BC, sm_shifts_back(k.BC)), in)

-----------------------------------------------------------------------------
(* Rijndael as its authors publish it (external): the rounds step by step, *)
(* and decryption the same steps backwards, with the same round keys.      *)

SubBytes(x) == Array(Len(x), LAMBDA i : SubWord(x[i]))
ShiftRows(x) ==
  LET BC == Len(x)
      by == IF BC = 8 THEN <<0, 1, 3, 4>> ELSE <<0, 1, 2, 3>>
  IN
  Array(BC, LAMBDA i : Array(4, LAMBDA row : x[((i - 1 + by[row]) % BC) + 1][row]))
MixColumns(x) ==
  LET times(a, b, c, d) == ByteXor(ByteXor(Double(a), ByteXor(Double(b), b)),
                                   ByteXor(c, d)) IN
  [i \in DOMAIN x |-> LET w == x[i] IN
     <<times(w[1], w[2], w[3], w[4]), times(w[2], w[3], w[4], w[1]),
       times(w[3], w[4], w[1], w[2]), times(w[4], w[1], w[2], w[3])>>]

(***************************************************************************)
(* w is the key followed by its expansion: each word is the one a key      *)
(* length before it plus a function of the one just before it.             *)
(***************************************************************************)
IsExpansion(w, key) ==
  LET KC == Len(key) IN
  /\ SubSeq(w, 1, KC) = key
  /\ \A n \in (KC + 1)..Len(w) :
       LET p == w[n - 1] IN
       w[n] = WordXor(w[n - KC],
         IF n % KC = 1
         THEN WordXor(SubWord(Next4(p)), <<sm_rcon[n \div KC], 0, 0, 0>>)
         ELSE IF KC > 6 /\ n % KC = 5 THEN SubWord(p) ELSE p)

(***************************************************************************)
(* A block enciphered in R rounds with these round keys.                   *)
(***************************************************************************)
Reference(roundKey, R, in) ==
  LET x[r \in 0..R] ==
        IF r = 0 THEN Xor(in, roundKey[0])
        ELSE LET p == ShiftRows(SubBytes(x[r - 1])) IN
             Xor(IF r < R THEN MixColumns(p) ELSE p, roundKey[r])
  IN x[R]

(***************************************************************************)
(* With this key, CRijndael expands the key and enciphers the block as     *)
(* published, and DecryptBlock undoes EncryptBlock.                        *)
(***************************************************************************)
Published(key, in) ==
  LET BC == Len(in)
      R == (IF Len(key) > BC THEN Len(key) ELSE BC) + 6
      k == MakeKey(key, BC)
      out == EncryptBlock(k, in)
  IN
  /\ IsExpansion(Array((R + 1) * BC,
       LAMBDA n : k.Ke[(n - 1) \div BC][((n - 1) % BC) + 1]), key)
  /\ out = Reference(k.Ke, R, in)
  /\ DecryptBlock(k, out) = in
=============================================================================
