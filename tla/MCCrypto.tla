------------------------------ MODULE MCCrypto ------------------------------
EXTENDS Crypto

Words == INSTANCE Words32

Four(a, b, c, d) == [i \in 0..3 |-> <<a, b, c, d>>[i + 1]]

\* r: all bits, 1, one with every clamped bit set, one word only; blocks of
\* zeroes and ones, and pairs whose sum is just below, at and above the modulus.
MCPolyCases ==
  {[r |-> r, s |-> s, msg |-> b1 \o b2 \o tail] :
     r \in {Four(127, 127, 127, 127), Four(1, 0, 0, 0), Four(3, 4, 0, 127), Four(0, 4, 0, 0)},
     s \in {Four(0, 0, 0, 0), Four(127, 127, 127, 127)},
     b1 \in {<<0, 0, 0, 0>>, <<127, 127, 127, 127>>, <<5, 0, 0, 0>>},
     b2 \in {<<127, 127, 127, 127>>, <<124, 127, 127, 127>>, <<126, 121, 127, 76>>, <<0, 1, 0, 0>>},
     tail \in {<<127, 127, 127, 127, 127>>, <<0, 0, 0>>}}

LoadWords(bytes) == Words!LoadWords(bytes)
Key == LoadWords([i \in 1..32 |-> i - 1])
Bytes(n) == [i \in 1..n |-> (7 * i) % 256]

\* test_chacha20_neon of wg-tester: block 1 of RFC 8439, section 2.3.2.
RfcNonce == LoadWords(<<0, 0, 0, 9, 0, 0, 0, \H4a, 0, 0, 0, 0>>)
RfcBlock ==
  << \H10, \Hf1, \He7, \He4, \Hd1, \H3b, \H59, \H15, \H50, \H0f, \Hdd, \H1f, \Ha3, \H20, \H71, \Hc4,
     \Hc7, \Hd1, \Hf4, \Hc7, \H33, \Hc0, \H68, \H03, \H04, \H22, \Haa, \H9a, \Hc3, \Hd4, \H6c, \H4e,
     \Hd2, \H82, \H64, \H46, \H07, \H9f, \Haa, \H09, \H14, \Hc2, \Hd7, \H05, \Hd9, \H8b, \H02, \Ha2,
     \Hb5, \H12, \H9c, \Hd1, \Hde, \H16, \H4e, \Hb9, \Hcb, \Hd0, \H83, \He8, \Ha2, \H50, \H3c, \H4e >>
MCStreamCases ==
  {[key |-> Key, nonce |-> RfcNonce, counter |-> <<0, 1>>, text |-> [i \in 1..64 |-> 0], expect |-> RfcBlock]}
  \cup {[key |-> Key, nonce |-> RfcNonce, counter |-> c, text |-> Bytes(n), expect |-> <<>>] :
          c \in {<<0, 0>>, <<0, 65535>>, <<65535, 65534>>}, n \in {0, 1, 63, 64, 65, 127, 128, 129}}

MCAeadCases ==
  {[key |-> Key, counter |-> c, text |-> Bytes(n), ad |-> Bytes(a), seal |-> p[1], open |-> p[2], damage |-> d] :
     c \in {<< <<1, 2>>, <<3, 4>> >>},
     n \in {0, 1, 15, 16, 17, 64, 65}, a \in {0, 16, 33},
     p \in {<<"neon", "mono">>, <<"mono", "neon">>, <<"neon", "neon">>, <<"x", "x">>},
     d \in {"none", "text", "ad", "counter", "shorter", "cut"}}

\* test_blake2s of wg-tester: the one block of the unkeyed digest of "abc".
AbcDigest ==
  LoadWords(<< \H50, \H8c, \H5e, \H8c, \H32, \H7c, \H14, \He2, \He1, \Ha7, \H2b, \Ha3, \H4e, \Heb,
               \H45, \H2f, \H37, \H45, \H8b, \H20, \H9e, \Hd6, \H3a, \H29, \H4d, \H99, \H9b, \H4c,
               \H86, \H67, \H59, \H82 >>)
MCCompressCases ==
  {[outlen |-> 32, keylen |-> 0, block |-> [i \in 1..64 |-> IF i <= 3 THEN 96 + i ELSE 0],
    t |-> << <<0, 3>>, <<0, 0>> >>, f |-> << <<65535, 65535>>, <<0, 0>> >>, expect |-> AbcDigest]}
  \cup {[outlen |-> o, keylen |-> k, block |-> [i \in 1..64 |-> (m * i) % 256],
         t |-> << <<a, b>>, <<b, a>> >>, f |-> << <<a, a>>, <<0, 0>> >>, expect |-> <<>>] :
          o \in {16, 32}, k \in {0, 32}, m \in {1, 77}, a \in {0, 65535}, b \in {64, 65535}}

\* No preshared key, and one that the stranger lacks.
MCPsks == {<<0, 0, 0>>, <<1, 1, 0>>}
Budget(init, other, answer, damage, cookies) ==
  [init |-> init, other |-> other, answer |-> answer, damage |-> damage, cookie |-> cookies]
MCBudgets == {Budget(0, 0, 0, 0, 0), Budget(2, 0, 1, 1, 0), Budget(1, 1, 1, 1, 0),
              Budget(2, 1, 1, 0, 1), Budget(2, 0, 2, 0, 0)}
=============================================================================
