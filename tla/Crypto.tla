------------------------------- MODULE Crypto -------------------------------
(***************************************************************************)
(* The algorithms and the handshake of the library, one of them at a time: *)
(* a behaviour follows one message through Poly1305, one text through      *)
(* ChaCha20 and the AEAD, one hash, one key through its text form, or one  *)
(* exchange of handshakes.  The cases are chosen at the boundaries of the  *)
(* code: block edges, carries, full words, wrapping counters, and the      *)
(* vectors of wg-tester.                                                   *)
(***************************************************************************)
EXTENDS Noise

CONSTANTS PolyCases, StreamCases, AeadCases, CompressCases,
          BLAKE2S_BLOCK_SIZE, TWord, MaxMessage, KeyLengths, WG_KEY_LEN, KeyBytes

VARIABLES call, poly

Mac == INSTANCE Poly1305
Cipher == INSTANCE ChaCha20
Hash == INSTANCE Blake2s
Text == INSTANCE Base64

vars == <<call, poly, noiseVars>>

NoCall == call = [alg |-> "none"]
NoPoly == poly = [on |-> FALSE]
NoHandshake ==
  NoiseInit /\ left.init + left.other = 0 /\ psk[1] = 0 /\ peerPublic = Pub(Peer)

\* No mac1, mac2 or cookie depends on the preshared key: the handshakes with cookies
\* have none.
Init ==
  \/ /\ NoCall /\ NoPoly /\ NoiseInit /\ left.init + left.other > 0
     /\ left.cookie > 0 => psk[1] = 0
  \/ NoCall /\ Mac!PolyInit /\ NoHandshake
  \/ /\ Cipher!StreamInit \/ Cipher!AeadInit \/ Hash!CompressInit \/ Hash!HashInit \/ Text!KeyTextInit
     /\ NoPoly /\ NoHandshake

Next ==
  \/ Cipher!ChaChaNext /\ UNCHANGED <<poly, noiseVars>>
  \/ Hash!BlakeNext /\ UNCHANGED <<poly, noiseVars>>
  \/ Text!Base64Next /\ UNCHANGED <<poly, noiseVars>>
  \/ Mac!PolyNext /\ UNCHANGED <<call, noiseVars>>
  \/ NoiseNext /\ UNCHANGED <<call, poly>>

Spec == Init /\ [][Next]_vars

-----------------------------------------------------------------------------
(* What each module claims. *)

\* The three implementations of Poly1305 give the tag of its definition,
\* however wg_poly1305_update and crypto_poly1305_update get the message, and the
\* accumulators of poly1305_block and poly_blocks keep the bounds that the next
\* block relies on not to overflow.
TagIsDefined == Mac!PolyTagIsDefined /\ Mac!PolyBounds

\* wg_chacha20_neon and crypto_chacha20_ietf are one function, the tester's;
\* wg_aead_decrypt and wg_xaead_decrypt give back what was sealed, by either
\* implementation, or refuse and write nothing.
OpensWhatWasSealed == Cipher!StreamsAgree /\ Cipher!OpensWhatWasSealed

\* blake2s_compress_neon and blake2s_compress_scalar are one function, the
\* tester's; blake2s_update, split anyhow, and blake2s_final compress the blocks
\* that BLAKE2s defines.
HashIsDefined == Hash!CompressionsAgree /\ Hash!HashIsDefined

\* wg_key_from_base64 inverts wg_key_to_base64, and a text of alphabet characters
\* that it reads as a key differs from the key's own in the last character's two
\* unused bits at most.
KeyTextIsKey == Text!KeyTextIsKey
=============================================================================
