------------------------------- MODULE Base64 -------------------------------
(***************************************************************************)
(* wg_key_to_base64 and wg_key_from_base64 of src/wireguard.c.  A          *)
(* character is its place in b64_table, PAD ('=') or INVALID (any other).    *)
(* The key has WG_KEY_LEN bytes, a multiple of 3 plus 2 as 32 is.          *)
(***************************************************************************)
EXTENDS Integers, Sequences, SequencesExt

CONSTANTS WG_KEY_LEN, KeyBytes   \* the bytes keys are made of

VARIABLE call

PAD == 64
INVALID == 65
TEXT_LEN == 4 * (WG_KEY_LEN \div 3) + 3   \* 43 in the code

\* One group of wg_key_to_base64, from byte i (from 1) on.
EncodeGroup(key, i) ==
  LET b == [j \in 0..2 |-> IF i + j <= WG_KEY_LEN THEN key[i + j] ELSE 0]
  IN  <<b[0] \div 4, (b[0] % 4) * 16 + b[1] \div 16,
        IF i + 1 <= WG_KEY_LEN THEN (b[1] % 16) * 4 + b[2] \div 64 ELSE PAD,
        IF i + 2 <= WG_KEY_LEN THEN b[2] % 64 ELSE PAD>>
WgKeyToBase64(key) == FlattenSeq([g \in 1..(WG_KEY_LEN \div 3 + 1) |-> EncodeGroup(key, 3 * g - 2)])

DecodeChar(c) == IF c < 64 THEN c ELSE -1

\* One round of wg_key_from_base64's loop, from character i (from 1) on: the
\* bytes it makes of characters that are not PAD.  The third and the fourth
\* are not checked; an invalid one (-1) is then all ones.  The character after
\* the last may be the NUL of the string, which is not PAD.
DecodeGroup(text, i) ==
  LET b == DecodeChar(text[i + 1])
      c == DecodeChar(text[i + 2])
      d == IF i + 3 <= TEXT_LEN THEN DecodeChar(text[i + 3]) ELSE 0
  IN  <<DecodeChar(text[i]) * 4 + b \div 16>>
        \o (IF text[i + 2] = PAD THEN <<>> ELSE <<IF c < 0 THEN 255 ELSE (b % 16) * 16 + c \div 4>>)
        \o (IF i + 3 <= Len(text) /\ text[i + 3] = PAD THEN <<>>
            ELSE <<IF d < 0 THEN 255 ELSE (c % 4) * 64 + d>>)
\* Mutation of FirstTwoValid: only the first character is checked.
FirstTwoValidOne(text, i) == DecodeChar(text[i]) >= 0
FirstTwoValid(text, i) == DecodeChar(text[i]) >= 0 /\ DecodeChar(text[i + 1]) >= 0

Failed == <<>>
RECURSIVE DecodeFrom(_, _, _)
DecodeFrom(text, i, out) ==
  IF Len(out) >= WG_KEY_LEN THEN SubSeq(out, 1, WG_KEY_LEN)
  ELSE IF i > TEXT_LEN \/ ~FirstTwoValid(text, i) THEN Failed
  ELSE DecodeFrom(text, i + 4, out \o DecodeGroup(text, i))
WgKeyFromBase64(text) == IF Len(text) < TEXT_LEN THEN Failed ELSE DecodeFrom(text, 1, <<>>)

-----------------------------------------------------------------------------
(* A key is written, a character of its text is changed or the end is lost *)
(* on the way, and the text is read.                                       *)

KeyTextInit ==
  \E key \in [1..WG_KEY_LEN -> KeyBytes] :
    call = [alg |-> "base64", pc |-> "write", key |-> key]

WriteKey ==
  /\ call.alg = "base64" /\ call.pc = "write"
  /\ call' = [alg |-> "base64", pc |-> "text", key |-> call.key, text |-> WgKeyToBase64(call.key)]

Retype ==
  /\ call.alg = "base64" /\ call.pc = "text"
  /\ \/ \E i \in 1..Len(call.text), c \in {0, 3, 63, PAD, INVALID} :
          call' = [call EXCEPT !.pc = "retyped", !.text = [@ EXCEPT ![i] = c]]
     \/ \E n \in 1..2 : call' = [call EXCEPT !.pc = "retyped", !.text = SubSeq(@, 1, Len(@) - n)]

ReadKey ==
  /\ call.alg = "base64" /\ call.pc \in {"text", "retyped"}
  /\ call' = [alg |-> "base64", pc |-> "read", key |-> call.key, text |-> call.text,
              result |-> WgKeyFromBase64(call.text)]

Base64Next == WriteKey \/ Retype \/ ReadKey

-----------------------------------------------------------------------------
\* A text of alphabet characters is accepted exactly when it is long enough,
\* and the key it gives is the one whose text it is, up to the two bits of
\* the last character that no key has; a text with another character in the
\* first two of a group is refused.  So a key survives being written and read;
\* of the texts of alphabet characters the four that differ in those two bits,
\* and no others, stand for it.
KeyTextIsKey ==
  (call.alg = "base64" /\ call.pc = "read") =>
    LET given == SubSeq(call.text, 1, IF Len(call.text) < TEXT_LEN THEN Len(call.text) ELSE TEXT_LEN)
        rounded == [given EXCEPT ![TEXT_LEN] = @ - (@ % 4)]
        valid == {i \in 1..Len(given) : given[i] < 64}
    IN  /\ Len(given) < TEXT_LEN => call.result = Failed
        /\ (\E i \in 1..Len(given) \ valid : (i - 1) % 4 < 2) => call.result = Failed
        /\ (Len(given) = TEXT_LEN /\ valid = 1..TEXT_LEN) =>
             Len(call.result) = WG_KEY_LEN /\ WgKeyToBase64(call.result) = Append(rounded, PAD)
        /\ call.text = WgKeyToBase64(call.key) => call.result = call.key
=============================================================================
