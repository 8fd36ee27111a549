------------------------------ MODULE Words32 ------------------------------
(***************************************************************************)
(* The 32-bit words of the ciphers, at their real width.  TLC's integers   *)
(* have 32 bits with a sign, so a word is its two halves <<high, low>>.    *)
(* Four words make a NEON row (uint32x4_t).                                *)
(*                                                                         *)
(* call is the library call that is followed: the algorithm's modules each *)
(* give it a record with the name of their algorithm in alg.               *)
(***************************************************************************)
EXTENDS Integers, Sequences, SequencesExt, Bitwise

VARIABLE call

Word == Nat \X Nat

XorByte == [a \in 0..255 |-> [b \in 0..255 |-> a ^^ b]]
XorHalf(a, b) ==
  256 * XorByte[a \div 256][b \div 256] + XorByte[a % 256][b % 256]

XorWord(x, y) == <<XorHalf(x[1], y[1]), XorHalf(x[2], y[2])>>
Add(x, y) ==
  LET low == x[2] + y[2]
  IN  <<(x[1] + y[1] + low \div 65536) % 65536, low % 65536>>

\* rotl32: a rotation by 16 swaps the halves, the rest is less than that.
RotlHalf(x, n) ==
  <<((x[1] * 2^n) % 65536) + x[2] \div 2^(16 - n), ((x[2] * 2^n) % 65536) + x[1] \div 2^(16 - n)>>
Rotl(x, n) == IF n = 16 THEN <<x[2], x[1]>> ELSE RotlHalf(x, n)
Rotr(x, n) ==
  IF n >= 16 THEN Rotl(x, 32 - n) ELSE LET y == Rotl(x, 16 - n) IN <<y[2], y[1]>>

\* load32_le and store32_le.
Load32(bytes) == <<bytes[3] + 256 * bytes[4], bytes[1] + 256 * bytes[2]>>
Store32(x) == <<x[2] % 256, x[2] \div 256, x[1] % 256, x[1] \div 256>>
LoadWords(bytes) == [i \in 1..(Len(bytes) \div 4) |-> Load32(SubSeq(bytes, 4 * i - 3, 4 * i))]
StoreWords(words) ==
  LET stored == [i \in 1..Len(words) |-> Store32(words[i])]
  IN  [i \in 1..(4 * Len(words)) |-> stored[(i + 3) \div 4][((i - 1) % 4) + 1]]

AddWords(x, y) == [i \in 1..Len(x) |-> Add(x[i], y[i])]
XorWords(x, y) == [i \in 1..Len(x) |-> XorWord(x[i], y[i])]

\* vld1q_u32 of row i of sixteen words, and vextq_u32(row, row, n).
Row(words, i) == SubSeq(words, 4 * i - 3, 4 * i)
Vext(row, n) == SubSeq(row, n + 1, 4) \o SubSeq(row, 1, n)

\* Four lanes, each the four words of one column, as the four rows.
Column(rows, i) == <<rows[1][i], rows[2][i], rows[3][i], rows[4][i]>>
Transposed(lanes) == <<Column(lanes, 1), Column(lanes, 2), Column(lanes, 3), Column(lanes, 4)>>

\* The rows turned so that the diagonals are columns, and back.
Turned(rows) == <<rows[1], Vext(rows[2], 1), Vext(rows[3], 2), Vext(rows[4], 3)>>
Unturned(rows) == <<rows[1], Vext(rows[2], 3), Vext(rows[3], 2), Vext(rows[4], 1)>>
Flat(rows) == rows[1] \o rows[2] \o rows[3] \o rows[4]

\* The words q at the places p of t.
Placed(t, p, q) == [t EXCEPT ![p[1]] = q[1], ![p[2]] = q[2], ![p[3]] = q[3], ![p[4]] = q[4]]
At(t, p) == <<t[p[1]], t[p[2]], t[p[3]], t[p[4]]>>
=============================================================================
