------------------------------- MODULE Blake2s -------------------------------
(***************************************************************************)
(* BLAKE2s of library/crypto/blake2s.c and src/blake2s_neon.c.  Two parts: *)
(* the compression function at its real width, in its scalar and its NEON  *)
(* form; and the streaming of init, update and final, where the chaining   *)
(* value is abstracted to the list of compressions that made it, the block *)
(* has BLAKE2S_BLOCK_SIZE bytes and the counter's low word wraps at TWord  *)
(* (64 and 2^32 in the code).                                              *)
(***************************************************************************)
EXTENDS Words32

CONSTANTS CompressCases,        \* records [outlen, keylen, block, t, f, expect]
          BLAKE2S_BLOCK_SIZE, TWord,
          MaxMessage,           \* the longest message that is hashed
          KeyLengths            \* lengths of the key, 0 for none

-----------------------------------------------------------------------------
(* The compression function. *)

Iv == << <<\H6A09, \HE667>>, <<\HBB67, \HAE85>>, <<\H3C6E, \HF372>>, <<\HA54F, \HF53A>>,
         <<\H510E, \H527F>>, <<\H9B05, \H688C>>, <<\H1F83, \HD9AB>>, <<\H5BE0, \HCD19>> >>
Sigma ==
  << <<0, 1, 2, 3, 4, 5, 6, 7, 8, 9, 10, 11, 12, 13, 14, 15>>,
     <<14, 10, 4, 8, 9, 15, 13, 6, 1, 12, 0, 2, 11, 7, 5, 3>>,
     <<11, 8, 12, 0, 5, 2, 15, 13, 10, 14, 3, 6, 7, 1, 9, 4>>,
     <<7, 9, 3, 1, 13, 12, 11, 14, 2, 6, 5, 10, 4, 0, 15, 8>>,
     <<9, 0, 5, 7, 2, 4, 10, 15, 14, 1, 11, 12, 6, 8, 3, 13>>,
     <<2, 12, 6, 10, 0, 11, 8, 3, 4, 13, 7, 5, 15, 14, 1, 9>>,
     <<12, 5, 1, 15, 14, 13, 4, 10, 0, 7, 6, 3, 9, 2, 8, 11>>,
     <<13, 11, 7, 14, 12, 1, 3, 9, 5, 0, 15, 4, 8, 6, 2, 10>>,
     <<6, 15, 14, 9, 11, 3, 0, 8, 12, 2, 13, 7, 1, 4, 10, 5>>,
     <<10, 2, 8, 4, 7, 6, 1, 5, 15, 11, 9, 14, 3, 12, 13, 0>> >>

\* The chaining value blake2s_init starts from: lengths, fanout 1 and depth 1.
InitialH(outlen, keylen) == [Iv EXCEPT ![1] = XorWord(@, <<257, 256 * keylen + outlen>>)]

\* a = a + b + x; d = rotr32(d ^ a, n) of q = <<a, b, c, d>>, the result
\* starting with c and d; c = c + d; b = rotr32(b ^ c, n) adds no x.
AddXorRotate(q, x, n) ==
  LET a == Add(Add(q[1], q[2]), x) IN <<q[3], Rotr(XorWord(q[4], a), n), a, q[2]>>
G(q, x, y) ==
  AddXorRotate(AddXorRotate(AddXorRotate(AddXorRotate(q, x, 16), <<0, 0>>, 12), y, 8), <<0, 0>>, 7)

\* G(r, i, ...) on v, at the eight places of ROUND, the first n of them.
GPlaces == << <<1,5,9,13>>, <<2,6,10,14>>, <<3,7,11,15>>, <<4,8,12,16>>,
              <<1,6,11,16>>, <<2,7,12,13>>, <<3,8,9,14>>, <<4,5,10,15>> >>
GAt(v, m, s, i) ==
  Placed(v, GPlaces[i], G(At(v, GPlaces[i]), m[s[2 * i - 1] + 1], m[s[2 * i] + 1]))
Round[v \in Seq(Word), m \in Seq(Word), s \in Seq(Nat), n \in 0..8] ==
  IF n = 0 THEN v ELSE GAt(Round[v, m, s, n - 1], m, s, n)
GRounds[v \in Seq(Word), m \in Seq(Word), n \in 0..10] ==
  IF n = 10 THEN v ELSE GRounds[Round[v, m, Sigma[n + 1], 8], m, n + 1]

TfWords(t, f) ==
  <<XorWord(t[1], Iv[5]), XorWord(t[2], Iv[6]), XorWord(f[1], Iv[7]), XorWord(f[2], Iv[8])>>
Folded(h, v) == [i \in 1..8 |-> XorWord(h[i], XorWord(v[i], v[i + 8]))]

CompressScalar(h, block, t, f) ==
  Folded(h, GRounds[h \o SubSeq(Iv, 1, 4) \o TfWords(t, f), LoadWords(block), 0])

\* g_neon works on four columns at once; gather4 picks their message words.
GNeon(rows, mx, my) ==
  Transposed(<<G(Column(rows, 1), mx[1], my[1]), G(Column(rows, 2), mx[2], my[2]),
               G(Column(rows, 3), mx[3], my[3]), G(Column(rows, 4), mx[4], my[4])>>)
Gather4(m, s, from) == <<m[s[from] + 1], m[s[from + 2] + 1], m[s[from + 4] + 1], m[s[from + 6] + 1]>>

RoundNeon(rows, m, s) ==
  Unturned(GNeon(Turned(GNeon(rows, Gather4(m, s, 1), Gather4(m, s, 2))),
                 Gather4(m, s, 9), Gather4(m, s, 10)))
GRoundsNeon[rows \in Seq(Seq(Word)), m \in Seq(Word), n \in 0..10] ==
  IF n = 10 THEN rows ELSE GRoundsNeon[RoundNeon(rows, m, Sigma[n + 1]), m, n + 1]

CompressNeon(h, block, t, f) ==
  Folded(h, Flat(GRoundsNeon[<<SubSeq(h, 1, 4), SubSeq(h, 5, 8), SubSeq(Iv, 1, 4), TfWords(t, f)>>,
                             LoadWords(block), 0]))

-----------------------------------------------------------------------------
(* Streaming.  A byte is a number; a compression is [block, t0, t1, last]. *)

Blake2sInit == [h |-> <<>>, t0 |-> 0, t1 |-> 0, f0 |-> FALSE, buf |-> <<>>]

\* blake2s_compress appends; the real one folds the same arguments into h.
Compress(S, block) ==
  [S EXCEPT !.h = Append(@, [block |-> block, t0 |-> S.t0, t1 |-> S.t1, last |-> S.f0])]

\* S->t[0] += n; if it wrapped (is below n), carry into t[1].
Count(S, n) ==
  LET t == (S.t0 + n) % TWord IN [S EXCEPT !.t0 = t, !.t1 = IF t < n THEN @ + 1 ELSE @]

\* The while loop: whole blocks, but never the last one.
RECURSIVE CompressWhole(_, _)
\* Mutation of CompressWhole: a whole last block is compressed at once.
CompressWholeAll(S, in) == IF Len(in) < BLAKE2S_BLOCK_SIZE THEN [S EXCEPT !.buf = in]
  ELSE CompressWhole(Compress(Count(S, BLAKE2S_BLOCK_SIZE), SubSeq(in, 1, BLAKE2S_BLOCK_SIZE)),
                     SubSeq(in, BLAKE2S_BLOCK_SIZE + 1, Len(in)))
CompressWhole(S, in) ==
  IF Len(in) <= BLAKE2S_BLOCK_SIZE THEN [S EXCEPT !.buf = in]
  ELSE CompressWhole(Compress(Count(S, BLAKE2S_BLOCK_SIZE), SubSeq(in, 1, BLAKE2S_BLOCK_SIZE)),
                     SubSeq(in, BLAKE2S_BLOCK_SIZE + 1, Len(in)))

Blake2sUpdate(S, in) ==
  LET fill == BLAKE2S_BLOCK_SIZE - Len(S.buf)
  IN  CASE in = <<>> -> S
        [] in # <<>> /\ Len(in) <= fill -> [S EXCEPT !.buf = @ \o in]
        [] Len(in) > fill /\ S.buf # <<>> ->
             CompressWhole(Compress(Count(S, BLAKE2S_BLOCK_SIZE), S.buf \o SubSeq(in, 1, fill)),
                           SubSeq(in, fill + 1, Len(in)))
        [] OTHER -> CompressWhole(S, in)

ZeroTo(bytes) == bytes \o [i \in 1..(BLAKE2S_BLOCK_SIZE - Len(bytes)) |-> 0]

Blake2sInitKey(key) ==
  IF key = <<>> THEN Blake2sInit ELSE Blake2sUpdate(Blake2sInit, ZeroTo(key))

Blake2sFinal(S) == Compress([Count(S, Len(S.buf)) EXCEPT !.f0 = TRUE], ZeroTo(S.buf))

-----------------------------------------------------------------------------
CompressInit == \E case \in CompressCases : call = [alg |-> "compress", pc |-> "start", case |-> case]

CompressBoth ==
  /\ call.alg = "compress" /\ call.pc = "start"
  /\ LET c == call.case
         h == InitialH(c.outlen, c.keylen)
     IN  call' = [alg |-> "compress", pc |-> "done", case |-> c,
                  scalar |-> CompressScalar(h, c.block, c.t, c.f),
                  neon |-> CompressNeon(h, c.block, c.t, c.f)]

Message(from, to) == [i \in 1..(to - from) |-> from + i]
Key(n) == [i \in 1..n |-> 100 + i]

HashInit ==
  \E k \in KeyLengths :
    call = [alg |-> "hash", pc |-> "update", key |-> Key(k), fed |-> 0, S |-> Blake2sInitKey(Key(k))]

\* blake2s_update with the next n bytes, n = 0 included.
HashUpdate(n) ==
  /\ call.alg = "hash" /\ call.pc = "update"
  /\ call.fed + n <= MaxMessage
  /\ call' = [call EXCEPT !.fed = @ + n, !.S = Blake2sUpdate(@, Message(call.fed, call.fed + n))]

HashFinal ==
  /\ call.alg = "hash" /\ call.pc = "update"
  /\ call' = [call EXCEPT !.pc = "done", !.S = Blake2sFinal(@)]

BlakeNext == CompressBoth \/ (\E n \in 0..MaxMessage : HashUpdate(n)) \/ HashFinal

-----------------------------------------------------------------------------
\* The NEON compression is the scalar one, and the tester's digest of "abc"
\* comes out (expect, the chaining value of its one block).
CompressionsAgree ==
  (call.alg = "compress" /\ call.pc = "done") =>
    /\ call.scalar = call.neon
    /\ call.case.expect # <<>> => call.neon = call.case.expect

\* BLAKE2s by definition: the key block and the message, cut into blocks, the
\* last one padded and marked, each with the number of bytes up to its end.
Hashed(key, message) ==
  LET all == (IF key = <<>> THEN <<>> ELSE ZeroTo(key)) \o message
      blocks == IF all = <<>> THEN 1 ELSE (Len(all) + BLAKE2S_BLOCK_SIZE - 1) \div BLAKE2S_BLOCK_SIZE
      end(i) == IF i = blocks THEN Len(all) ELSE i * BLAKE2S_BLOCK_SIZE
  IN  [i \in 1..blocks |->
         [block |-> ZeroTo(SubSeq(all, (i - 1) * BLAKE2S_BLOCK_SIZE + 1, end(i))),
          t0 |-> end(i) % TWord, t1 |-> end(i) \div TWord, last |-> i = blocks]]

\* However the bytes are split over calls of blake2s_update, empty ones
\* included, the compressions are those of the definition: the last block is
\* never compressed before final, and the counter carries.
HashIsDefined ==
  (call.alg = "hash" /\ call.pc = "done") => call.S.h = Hashed(call.key, Message(0, call.fed))
=============================================================================
