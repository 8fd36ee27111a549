------------------------------ MODULE ChaCha20 ------------------------------
(***************************************************************************)
(* ChaCha20 as src/wg_chacha20_neon.c computes it, a row of four words at  *)
(* a time, and as library/crypto/monocypher.c does, word by word; and the  *)
(* AEAD that src/wg_crypto.c builds on either.  Packets are sealed by the  *)
(* first on a Switch and by the second elsewhere, so both ends of a tunnel *)
(* need them to be the same function.                                      *)
(*                                                                         *)
(* Words, blocks and nonces have their real sizes.  The one abstraction is *)
(* the tag: it is the pair of the one-time key and the bytes given to      *)
(* Poly1305, which module Poly1305 follows to the end.                     *)
(***************************************************************************)
EXTENDS Words32

CONSTANTS StreamCases,   \* records [key, nonce, counter, text, expect]
          AeadCases      \* records [key, counter, text, ad, seal, open, damage]

-----------------------------------------------------------------------------
(* The two block functions. *)

ConstantWords == << <<\H6170, \H7865>>, <<\H3320, \H646E>>, <<\H7962, \H2D32>>, <<\H6B20, \H6574>> >>
ZeroWord == <<0, 0>>

\* a += b; d ^= a; d <<<= n of q = <<a, b, c, d>>.  The result starts with c
\* and d, where the next line of the quarter round continues.
AddXorRotate(q, n) ==
  LET a == Add(q[1], q[2]) IN <<q[3], Rotl(XorWord(q[4], a), n), a, q[2]>>
QuarterRound(q) == AddXorRotate(AddXorRotate(AddXorRotate(AddXorRotate(q, 16), 12), 8), 7)

\* quarterround_neon: every instruction works on the four lanes at once.
QuarterRoundNeon(rows) ==
  Transposed(<<QuarterRound(Column(rows, 1)), QuarterRound(Column(rows, 2)),
               QuarterRound(Column(rows, 3)), QuarterRound(Column(rows, 4))>>)

\* The pass of the loop over the columns, then, the rows turned, the diagonals.
DoubleRoundNeon(rows) == Unturned(QuarterRoundNeon(Turned(QuarterRoundNeon(rows))))

RoundsNeon[rows \in Seq(Seq(Word)), n \in 0..10] ==
  IF n = 10 THEN rows ELSE RoundsNeon[DoubleRoundNeon(rows), n + 1]
BlockNeonInternal(in) ==
  AddWords(Flat(RoundsNeon[<<Row(in, 1), Row(in, 2), Row(in, 3), Row(in, 4)>>, 0]), in)

\* QUARTERROUND(t_i, t_j, t_k, t_l) of monocypher.c, indices from 1.
QuarterRoundPlaces ==
  << <<1,5,9,13>>, <<2,6,10,14>>, <<3,7,11,15>>, <<4,8,12,16>>,
     <<1,6,11,16>>, <<2,7,12,13>>, <<3,8,9,14>>, <<4,5,10,15>> >>
QuarterRoundAt(t, p) == Placed(t, p, QuarterRound(At(t, p)))
QuarterRounds[t \in Seq(Word), n \in 0..8] ==   \* the first n of the eight
  IF n = 0 THEN t ELSE QuarterRoundAt(QuarterRounds[t, n - 1], QuarterRoundPlaces[n])
DoubleRounds[t \in Seq(Word), n \in 0..10] ==
  IF n = 10 THEN t ELSE DoubleRounds[QuarterRounds[t, 8], n + 1]
Chacha20Rounds(in) == DoubleRounds[in, 0]

-----------------------------------------------------------------------------
(* The streams.  Texts are bytes, keys and nonces words. *)

Increment(w) == Add(w, <<0, 1>>)
XorBytes(text, stream) == [i \in 1..Len(text) |-> XorByte[text[i]][stream[i]]]

\* One block of wg_chacha20_neon's loop, XORed a row at a time.
XorBlock(text, block) == StoreWords(XorWords(LoadWords(text), block))

State(key, counter, nonce) == ConstantWords \o key \o <<counter>> \o nonce
BlockNeonOf(key, nonce, counter) == BlockNeonInternal(State(key, counter, nonce))

RECURSIVE WgChacha20Neon(_, _, _, _)
WgChacha20Neon(text, key, nonce, counter) ==
  IF Len(text) >= 64
  THEN XorBlock(SubSeq(text, 1, 64), BlockNeonOf(key, nonce, counter))
         \o WgChacha20Neon(SubSeq(text, 65, Len(text)), key, nonce, Increment(counter))
  ELSE IF text = <<>> THEN <<>>
       ELSE XorBytes(text, StoreWords(BlockNeonOf(key, nonce, counter)))

\* crypto_chacha20_djb: nonce has two words, the counter two, low one first.
\* With no plain text (NULL) the key stream itself is stored; a zero text.
PoolOf(key, nonce, ctr) ==
  LET in == ConstantWords \o key \o ctr \o nonce IN AddWords(Chacha20Rounds(in), in)
NextCtr(ctr) ==
  LET low == Increment(ctr[1]) IN <<low, IF low = ZeroWord THEN Increment(ctr[2]) ELSE ctr[2]>>
RECURSIVE Chacha20Djb(_, _, _, _)
Chacha20Djb(text, key, nonce, ctr) ==
  IF Len(text) >= 64
  THEN XorBlock(SubSeq(text, 1, 64), PoolOf(key, nonce, ctr))
         \o Chacha20Djb(SubSeq(text, 65, Len(text)), key, nonce, NextCtr(ctr))
  ELSE IF text = <<>> THEN <<>> ELSE XorBytes(text, StoreWords(PoolOf(key, nonce, ctr)))

\* crypto_chacha20_ietf: the first nonce word is the counter's upper half.
Chacha20Ietf(text, key, nonce, ctr) ==
  Chacha20Djb(text, key, SubSeq(nonce, 2, 3), <<ctr, nonce[1]>>)

-----------------------------------------------------------------------------
(* The AEAD.  counter is <<high, low>>, two words. *)

\* build_nonce, and the same eight lines in wg_aead_encrypt and _decrypt.
BuildNonce(counter) == <<ZeroWord, counter[2], counter[1]>>

Zeros(n) == [i \in 1..n |-> 0]
Gap(len) == (16 - (len % 16)) % 16
Size64(len) == Store32(<<len \div 65536, len % 65536>>) \o Zeros(4)

\* The calls of wg_poly1305_update: additional data, text, sizes; the text
\* is always followed by its padding, the data only when there is any.
\* Mutation of FedNeon: the text is not padded.
FedNeonUnpadded(ad, text) == ad \o Zeros(Gap(Len(ad))) \o text \o Size64(Len(ad)) \o Size64(Len(text))
FedNeon(ad, text) ==
  (IF ad = <<>> THEN <<>> ELSE ad \o Zeros(Gap(Len(ad))))
    \o text \o Zeros(Gap(Len(text))) \o Size64(Len(ad)) \o Size64(Len(text))
\* lock_auth.
LockAuth(key, ad, text) ==
  [key |-> key, fed |-> ad \o Zeros(Gap(Len(ad))) \o text \o Zeros(Gap(Len(text)))
                          \o Size64(Len(ad)) \o Size64(Len(text))]
First32(block) == SubSeq(block, 1, 32)

WgAeadNeonEncrypt(key, counter, text, ad) ==
  LET nonce == BuildNonce(counter)
      cipher == WgChacha20Neon(text, key, nonce, <<0, 1>>)
  IN  [text |-> cipher, cut |-> FALSE,
       tag |-> [key |-> First32(StoreWords(BlockNeonOf(key, nonce, ZeroWord))), fed |-> FedNeon(ad, cipher)]]

Refused == [ok |-> FALSE, written |-> FALSE, out |-> <<>>]
Opened(text) == [ok |-> TRUE, written |-> TRUE, out |-> text]

\* cut is a ciphertext_len below 16; the text is written only once the tag is right.
WgAeadNeonDecrypt(key, counter, wire, ad) ==
  LET nonce == BuildNonce(counter)
      tag == [key |-> First32(StoreWords(BlockNeonOf(key, nonce, ZeroWord))), fed |-> FedNeon(ad, wire.text)]
  IN  IF wire.cut \/ tag # wire.tag THEN Refused
      ELSE Opened(WgChacha20Neon(wire.text, key, nonce, <<0, 1>>))

\* crypto_aead_ctx.  The key the context keeps for a next message is not
\* used: every caller wipes the context after one.
AeadInitIetf(key, nonce) ==
  [key |-> key, nonce |-> SubSeq(nonce, 2, 3), counter |-> <<ZeroWord, nonce[1]>>]
\* crypto_chacha20_h: no addition of the input at the end, half of the words.
Chacha20H(key, in) ==
  LET block == Chacha20Rounds(ConstantWords \o key \o in)
  IN  SubSeq(block, 1, 4) \o SubSeq(block, 13, 16)
AeadInitX(key, nonce) ==
  [key |-> Chacha20H(key, SubSeq(nonce, 1, 4)), nonce |-> SubSeq(nonce, 5, 6),
   counter |-> <<ZeroWord, ZeroWord>>]

AuthKey(ctx) == First32(Chacha20Djb(Zeros(64), ctx.key, ctx.nonce, ctx.counter))
AeadWrite(ctx, ad, text) ==
  LET cipher == Chacha20Djb(text, ctx.key, ctx.nonce, NextCtr(ctx.counter))
  IN  [text |-> cipher, cut |-> FALSE, tag |-> LockAuth(AuthKey(ctx), ad, cipher)]
AeadRead(ctx, ad, wire) ==
  IF LockAuth(AuthKey(ctx), ad, wire.text) # wire.tag THEN Refused
  ELSE Opened(Chacha20Djb(wire.text, ctx.key, ctx.nonce, NextCtr(ctx.counter)))

\* The nonce of a cookie reply has six words; here the counter's two and others.
XNonce(counter) == <<ZeroWord, <<1, 2>>, counter[1], <<3, 4>>, counter[2], ZeroWord>>

\* wg_aead_encrypt with and without NEON, and crypto_aead_lock.
WgAeadEncrypt(how, key, counter, text, ad) ==
  CASE how = "neon" -> WgAeadNeonEncrypt(key, counter, text, ad)
    [] how = "mono" -> AeadWrite(AeadInitIetf(key, BuildNonce(counter)), ad, text)
    [] how = "x" -> AeadWrite(AeadInitX(key, XNonce(counter)), ad, text)

\* wg_aead_decrypt with and without NEON, and wg_xaead_decrypt.
WgAeadDecrypt(how, key, counter, wire, ad) ==
  CASE wire.cut -> Refused
    [] ~wire.cut /\ how = "neon" -> WgAeadNeonDecrypt(key, counter, wire, ad)
    [] ~wire.cut /\ how = "mono" -> AeadRead(AeadInitIetf(key, BuildNonce(counter)), ad, wire)
    [] ~wire.cut /\ how = "x" -> AeadRead(AeadInitX(key, XNonce(counter)), ad, wire)

-----------------------------------------------------------------------------
(* One text through both streams; one message sealed, damaged or not on    *)
(* its way, and opened.                                                    *)

StreamInit == \E case \in StreamCases : call = [alg |-> "stream", pc |-> "start", case |-> case]

Stream ==
  /\ call.alg = "stream" /\ call.pc = "start"
  /\ LET c == call.case
     IN  call' = [alg |-> "stream", pc |-> "done", case |-> c,
                  neon |-> WgChacha20Neon(c.text, c.key, c.nonce, c.counter),
                  mono |-> Chacha20Ietf(c.text, c.key, c.nonce, c.counter)]

AeadInit == \E case \in AeadCases : call = [alg |-> "aead", pc |-> "seal", case |-> case]

Seal ==
  /\ call.alg = "aead" /\ call.pc = "seal"
  /\ LET c == call.case
     IN  call' = [alg |-> "aead", pc |-> "sent", case |-> c,
                  wire |-> WgAeadEncrypt(c.seal, c.key, c.counter, c.text, c.ad)]

\* What may happen to the sealed message, or to what its receiver knows.
Flip(bytes) == [bytes EXCEPT ![Len(bytes)] = XorByte[@][1]]
Damaged(wire, damage) ==
  CASE damage = "text" /\ wire.text # <<>> -> [wire EXCEPT !.text = Flip(@)]
    [] damage = "shorter" /\ wire.text # <<>> -> [wire EXCEPT !.text = Front(@)]
    [] damage = "cut" -> [wire EXCEPT !.cut = TRUE]
    [] OTHER -> wire

Open ==
  /\ call.alg = "aead" /\ call.pc = "sent"
  /\ LET c == call.case
         counter == IF c.damage = "counter" THEN <<Increment(c.counter[1]), c.counter[2]>> ELSE c.counter
         ad == IF c.damage = "ad" THEN c.ad \o <<0>> ELSE c.ad
         wire == Damaged(call.wire, c.damage)
     IN  call' = [call EXCEPT !.pc = "done"] @@ [intact |-> wire = call.wire /\ c.damage \notin {"counter", "ad"},
                                                 result |-> WgAeadDecrypt(c.open, c.key, counter, wire, ad)]

ChaChaNext == Stream \/ Seal \/ Open

-----------------------------------------------------------------------------
\* Some block of the text has the 32-bit counter wrapped.
Wraps(c) == c.counter[1] = 65535 /\ c.counter[2] + (Len(c.text) - 1) \div 64 >= 65536

\* wg_chacha20_neon and crypto_chacha20_ietf turn every text into the same
\* cipher text, whole blocks and last part alike, as long as the 32-bit block
\* counter does not wrap; and the tester's vectors come out (expect).
StreamsAgree ==
  (call.alg = "stream" /\ call.pc = "done") =>
    /\ ~Wraps(call.case) => call.neon = call.mono
    /\ call.case.expect # <<>> => call.neon = call.case.expect

\* A message opens, whichever implementation sealed it and whichever opens
\* it, exactly when it, its counter and its additional data arrive unchanged;
\* then the text is the one that was sealed, and otherwise nothing is written.
OpensWhatWasSealed ==
  (call.alg = "aead" /\ call.pc = "done") =>
    /\ call.result.ok <=> call.intact
    /\ call.result.written <=> call.result.ok
    /\ call.result.ok => call.result.out = call.case.text
=============================================================================
