------------------------------ MODULE Poly1305 ------------------------------
(***************************************************************************)
(* Poly1305 as src/wg_poly1305_neon.c computes it (five limbs, one block   *)
(* routine for NEON and one for other processors) and as                   *)
(* library/crypto/monocypher.c does (four words and a carry word).  The    *)
(* packet path authenticates with the first, the handshake with the        *)
(* second, so the two must agree on every message, however the caller      *)
(* splits it.                                                              *)
(*                                                                         *)
(* The numbers are scaled, the formulas are not: a word has B = 7 bits     *)
(* instead of 32, a limb W = 6 instead of 26 (5 * W = 4 * B + 2 in both),  *)
(* the modulus is 2^30 - 5 instead of 2^130 - 5, and a word is made of one *)
(* "byte", so a block is 4 bytes instead of 16.  The clamp keeps its four  *)
(* and two bits.  Limbs, words and sums of products keep a width: one that *)
(* did not fit would be cut here as it is there.  The carries added to     *)
(* those sums are not cut: their 64-bit variables are far from full.       *)
(***************************************************************************)
EXTENDS Integers, Sequences, SequencesExt

CONSTANTS PolyCases   \* records [r, s : 0..3 -> words, msg : Seq(words)]

VARIABLE poly   \* the message that is followed, if any (on)

B == 7
W == 6
Word == 2^B
Limb == 2^W
U32 == 2^(W + 6)      \* what a limb's 32-bit variable holds
U64 == 2^(2 * B)      \* the width of Monocypher's products
Sum64 == U32 * U32    \* the width of wg_poly1305_neon.c's sums of products
BLOCK == 4
P == 2^(5 * W) - 5

Lo(x) == x % Word
Hi(x) == x \div Word
Words(block) == [i \in 0..3 |-> block[i + 1]]
Sum(f) == f[0] + f[1] + f[2] + f[3] + f[4]

-----------------------------------------------------------------------------
(* wg_poly1305_neon.c *)

\* The clamp: four high bits of every word of r, two low bits of r[1..3].
Clamp(r) == [i \in 0..3 |-> LET c == r[i] % 2^(B - 4) IN IF i = 0 THEN c ELSE c - (c % 4)]

\* Four words as five limbs.
Limbs(t) ==
  [i \in 0..4 |->
     LET low == IF i = 0 THEN 0 ELSE t[i - 1] \div 2^(B - i * (B - W))
         high == IF i = 4 THEN 0 ELSE t[i] * 2^(i * (B - W))
     IN  (low + high) % Limb]

WgPolyInit(key) ==
  [r |-> Limbs(Clamp(key.r)), s |-> key.s, acc |-> [i \in 0..4 |-> 0], buf |-> <<>>]

\* acc plus the block, with the bit past its end when it is a whole one.
Added(acc, block, hibit) ==
  LET m == Limbs(Words(block))
  IN  [i \in 0..4 |-> acc[i] + m[i] + (IF i = 4 THEN hibit * 2^(W - 2) ELSE 0)]

\* The schoolbook product; a term past 2^(5W) comes back multiplied by 5.
Product(a, r) ==
  LET s == [i \in 0..4 |-> (5 * r[i]) % U32]
  IN  [i \in 0..4 |->
         Sum([j \in 0..4 |-> a[j] * (IF j <= i THEN r[i - j] ELSE s[5 + i - j])]) % Sum64]

\* One line of a carry chain: what limb i has too much goes to limb j.
Carry(h, i, j, by) == [h EXCEPT ![i] = @ % Limb, ![j] = @ + by * (h[i] \div Limb)]
Carries(h, chain) == FoldLeft(LAMBDA x, c : Carry(x, c[1], c[2], c[3]), h, chain)
BlockChain == << <<0,1,1>>, <<1,2,1>>, <<2,3,1>>, <<3,4,1>>, <<4,0,5>>, <<0,1,1>> >>
FinalChain == << <<1,2,1>>, <<2,3,1>>, <<3,4,1>>, <<4,0,5>>, <<0,1,1>> >>

BlockNeon(ctx, block, hibit) ==
  LET a == Added(ctx.acc, block, hibit)
      h == Carries(Product([i \in 0..4 |-> a[i] % U32], ctx.r), BlockChain)
  IN  [ctx EXCEPT !.acc = [i \in 0..4 |-> h[i] % U32]]

BlockScalar(ctx, block, hibit) ==
  LET h == Carries(Product(Added(ctx.acc, block, hibit), ctx.r), BlockChain)
  IN  [ctx EXCEPT !.acc = [i \in 0..4 |-> h[i] % U32]]

\* poly1305_block, chosen when the library is built.
Block(neon, ctx, block, hibit) ==
  IF neon THEN BlockNeon(ctx, block, hibit) ELSE BlockScalar(ctx, block, hibit)

RECURSIVE WholeBlocks(_, _, _)
WholeBlocks(neon, ctx, data) ==
  IF Len(data) >= BLOCK
  THEN WholeBlocks(neon, Block(neon, ctx, SubSeq(data, 1, BLOCK), 1), SubSeq(data, BLOCK + 1, Len(data)))
  ELSE IF data = <<>> THEN ctx ELSE [ctx EXCEPT !.buf = data]

WgPolyUpdate(neon, ctx, data) ==
  LET want == BLOCK - Len(ctx.buf)
  IN  CASE ctx.buf = <<>> -> WholeBlocks(neon, ctx, data)
        [] ctx.buf # <<>> /\ Len(data) < want -> [ctx EXCEPT !.buf = @ \o data]
        [] OTHER -> WholeBlocks(neon,
                      [Block(neon, ctx, ctx.buf \o SubSeq(data, 1, want), 1) EXCEPT !.buf = <<>>],
                      SubSeq(data, want + 1, Len(data)))

\* The rest of the message, a 1 and zeroes.
Padded(buf) == buf \o <<1>> \o [i \in 1..(BLOCK - Len(buf) - 1) |-> 0]

\* h - p when h >= p, h otherwise: g = h + 5 - 2^(5W), taken unless it is negative.
Reduced(h) ==
  LET g == Carries([h EXCEPT ![0] = @ + 5], SubSeq(BlockChain, 1, 4))
  IN  IF g[4] - Limb < 0 THEN h ELSE [g EXCEPT ![4] = @ - Limb]

\* The four words of h + s.
WgTag(h, s) ==
  LET f0 == h[0] + h[1] * Limb + s[0]
      f1 == h[2] * 2^(B - 2 * (B - W)) + s[1] + Hi(f0)
      f2 == h[3] * 2^(B - 3 * (B - W)) + s[2] + Hi(f1)
      f3 == h[4] * 2^(B - 4 * (B - W)) + s[3] + Hi(f2)
  IN  <<Lo(f0), Lo(f1), Lo(f2), Lo(f3)>>

\* Mutation of WgPolyFinal: the last reduction is left out.
WgPolyFinalUnreduced(neon, ctx) ==
  LET c == IF ctx.buf = <<>> THEN ctx ELSE Block(neon, ctx, Padded(ctx.buf), 0)
  IN  WgTag(Carries(c.acc, FinalChain), c.s)
WgPolyFinal(neon, ctx) ==
  LET c == IF ctx.buf = <<>> THEN ctx ELSE Block(neon, ctx, Padded(ctx.buf), 0)
  IN  WgTag(Reduced(Carries(c.acc, FinalChain)), c.s)

-----------------------------------------------------------------------------
(* monocypher.c *)

CryptoPolyInit(key) ==
  [r |-> Clamp(key.r), pad |-> key.s, h |-> [i \in 0..4 |-> 0], c |-> <<>>]

\* One round of poly_blocks.  rr is r * 5 / 4, exact because r[1..3] are
\* clamped to multiples of 4; r[0] gets its two low bits back in rr4.
PolyBlock(ctx, block, end) ==
  LET r == ctx.r
      rr == [i \in 0..3 |-> IF i = 0 THEN (r[0] \div 4) * 5 ELSE r[i] \div 4 + r[i]]
      rr4 == r[0] % 4
      s == [i \in 0..4 |-> ctx.h[i] + (IF i = 4 THEN end ELSE Words(block)[i])]
      x == [i \in 0..3 |->
              Sum([j \in 0..4 |-> s[j] * (IF j <= i THEN r[i - j] ELSE rr[4 + i - j])]) % U64]
      u5 == Lo(s[4] * rr4 + Hi(x[3]))
      u0 == (u5 \div 4) * 5 + Lo(x[0])
      u1 == Hi(u0) + Lo(x[1]) + Hi(x[0])
      u2 == Hi(u1) + Lo(x[2]) + Hi(x[1])
      u3 == Hi(u2) + Lo(x[3]) + Hi(x[2])
      u4 == Hi(u3) + (u5 % 4)
  IN  [ctx EXCEPT !.h = [i \in 0..4 |-> <<Lo(u0), Lo(u1), Lo(u2), Lo(u3), u4>>[i + 1]]]

RECURSIVE PolyBlocks(_, _, _)
PolyBlocks(ctx, in, nb) ==
  IF nb = 0 THEN ctx
  ELSE PolyBlocks(PolyBlock(ctx, SubSeq(in, 1, BLOCK), 1), SubSeq(in, BLOCK + 1, Len(in)), nb - 1)

CryptoPolyUpdate(ctx, message) ==
  LET gap == (BLOCK - Len(ctx.c)) % BLOCK
      aligned == IF gap < Len(message) THEN gap ELSE Len(message)
      c == ctx.c \o SubSeq(message, 1, aligned)
      start == IF Len(c) = BLOCK THEN [PolyBlock(ctx, c, 1) EXCEPT !.c = <<>>]
               ELSE [ctx EXCEPT !.c = c]
      rest == SubSeq(message, aligned + 1, Len(message))
      nb == Len(rest) \div BLOCK
      done == PolyBlocks(start, rest, nb)
  IN  [done EXCEPT !.c = @ \o SubSeq(rest, nb * BLOCK + 1, Len(rest))]

\* c says how often p is to be taken off (0 or 1), then carries h + pad.
CryptoPolyFinal(ctx) ==
  LET e == IF ctx.c = <<>> THEN ctx ELSE PolyBlock(ctx, Padded(ctx.c), 0)
      over == FoldLeft(LAMBDA c, i : Hi(c + e.h[i]), 5, <<0, 1, 2, 3>>) + e.h[4]
      c0 == (over \div 4) * 5 + e.h[0] + e.pad[0]
      c1 == Hi(c0) + e.h[1] + e.pad[1]
      c2 == Hi(c1) + e.h[2] + e.pad[2]
      c3 == Hi(c2) + e.h[3] + e.pad[3]
  IN  <<Lo(c0), Lo(c1), Lo(c2), Lo(c3)>>

-----------------------------------------------------------------------------
(* One message through the three implementations, in the same pieces. *)

PolyInit ==
  \E case \in PolyCases :
    poly = [on |-> TRUE, case |-> case, pos |-> 0, tags |-> {}, neon |-> WgPolyInit(case),
            scalar |-> WgPolyInit(case), mono |-> CryptoPolyInit(case)]

\* wg_poly1305_update / crypto_poly1305_update of the next n bytes.
PolyFeed(n) ==
  /\ poly.on /\ poly.tags = {}
  /\ poly.pos + n <= Len(poly.case.msg)
  /\ LET data == SubSeq(poly.case.msg, poly.pos + 1, poly.pos + n)
     IN  poly' = [poly EXCEPT !.pos = @ + n, !.neon = WgPolyUpdate(TRUE, @, data),
                              !.scalar = WgPolyUpdate(FALSE, @, data),
                              !.mono = CryptoPolyUpdate(@, data)]

\* Every prefix of the message is a message: final may come at any point.
PolyFinish ==
  /\ poly.on /\ poly.tags = {}
  /\ poly' = [poly EXCEPT !.tags = {WgPolyFinal(TRUE, poly.neon), WgPolyFinal(FALSE, poly.scalar),
                                    CryptoPolyFinal(poly.mono)}]

PolyNext == PolyFinish \/ (poly.on /\ \E n \in 0..Len(poly.case.msg) : PolyFeed(n))

-----------------------------------------------------------------------------
(* The definition: the blocks are the coefficients of a polynomial, its    *)
(* value at r modulo p plus s is the tag.  a * b by doubling stays below   *)
(* 2^31.                                                                   *)

Value(words) == words[0] + Word * (words[1] + Word * (words[2] + Word * words[3]))
Numeral(seq) == FoldRight(LAMBDA d, acc : d + Word * acc, seq, 0)
TimesMod[a \in Nat, b \in Nat] ==
  IF b = 0 THEN 0
  ELSE LET half == TimesMod[a, b \div 2] twice == (2 * half) % P
       IN  IF b % 2 = 0 THEN twice ELSE (twice + a) % P
Poly(msg, r) ==
  LET n == (Len(msg) + BLOCK - 1) \div BLOCK
      coef(i) == Numeral(SubSeq(msg, (i - 1) * BLOCK + 1, IF i < n THEN i * BLOCK ELSE Len(msg)) \o <<1>>)
  IN  FoldLeft(LAMBDA h, i : TimesMod[(h + coef(i)) % P, r], 0, [i \in 1..n |-> i])
Tag(case, msg) ==
  LET t == ((Poly(msg, Value(Clamp(case.r))) % 2^(4 * B)) + Value(case.s)) % 2^(4 * B)
  IN  <<Lo(t), Lo(Hi(t)), Lo(Hi(Hi(t))), Hi(Hi(Hi(t)))>>

\* Whatever the pieces, the NEON routine, the scalar one and Monocypher give
\* the tag the definition gives for the bytes fed so far (wg_poly1305_final,
\* crypto_poly1305_final: partial block, carries and last reduction).
PolyTagIsDefined ==
  (poly.on /\ poly.tags # {}) => poly.tags = {Tag(poly.case, SubSeq(poly.case.msg, 1, poly.pos))}

\* Between blocks the limbs stay as small as the code's comments promise:
\* poly_blocks keeps h <= 4_ffffffff_..., and only acc[1] may exceed a limb,
\* by the one carry the chain leaves in it.
PolyBounds ==
  poly.on =>
    /\ poly.mono.h[4] <= 4
    /\ \A i \in {0, 2, 3, 4} : poly.neon.acc[i] < Limb /\ poly.scalar.acc[i] < Limb
    /\ poly.neon.acc[1] < 2 * Limb
=============================================================================
