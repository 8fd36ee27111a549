----------------------------- MODULE Noise_proof -----------------------------
(***************************************************************************)
(* Proofs about Noise: a handshake that node 1 completes gave its peer the *)
(* same keys, no two handshakes give the same key, and the mac2 of an      *)
(* initiation is one its reader accepts.                                   *)
(*                                                                         *)
(* A key is a term, and the term remembers what was mixed into the chaining *)
(* key.  So the keys of a session name the ephemerals of both ends, and a  *)
(* response that opens names the whole initiation it answers.              *)
(***************************************************************************)
EXTENDS Noise, TLAPS

USE ZenonT(30)

Slots == {"tun", "peer"}
SlotFields == {"hs", "last_mac1", "local", "remote", "valid", "send", "recv", "toward"}

\* What Kdf1, Kdf2 and Kdf3 were applied to.
Chain(key) == key[2][2]
Mixed(key) == key[2][3]

\* The chaining key of the initiation under a transport key, and the two
\* ephemerals that were mixed into the transport key.
HsChain(key) == Chain(Chain(Chain(Chain(Chain(key)))))
RespEph(key) == Mixed(Chain(Chain(Chain(Chain(key)))))
CkEph(ck) == Mixed(Chain(Chain(ck)))
InitEph(key) == CkEph(HsChain(key))

\* Chaining key and hash after an initiation and the chaining key after the
\* first three tokens of the response.
InitChain(eph, es, ss) == Kdf1(Kdf1(Kdf1(WgHash(<<"construction">>), eph), es), ss)
InitHash(public, eph, static, stamp) ==
  WgHash2(WgHash2(WgHash2(WgHash2(WgHash2(WgHash(<<"construction">>), <<"identifier">>), public), eph),
                  static), stamp)
AnsChain(ck, eph, ee, se) == Kdf1(Kdf1(Kdf1(ck, eph), ee), se)
PskInput(preshared) == IF preshared = 0 THEN Zero ELSE <<"psk", preshared>>

Bad == Seal(Zero, Empty, Zero)
Initiators == {s \in shared : s.role = "initiator"}
Responders == {s \in shared : s.role = "responder"}

-----------------------------------------------------------------------------
(* The inductive invariant. *)

\* Slots and messages are records of the fields the code knows.
MessageShape(x) ==
  /\ DOMAIN x = {"type", "from", "to", "msg", "mac2"}
  /\ x.type \in {"init", "response", "cookie"}
  /\ x.type = "init" => DOMAIN x.msg = {"type", "sender", "eph", "static", "stamp", "mac1"}
  /\ x.type = "response" => DOMAIN x.msg = {"type", "sender", "receiver", "eph", "nothing", "mac1"}
Shape ==
  /\ fresh \in Nat
  /\ DOMAIN slot = Slots
  /\ \A w \in Slots : DOMAIN slot[w] = SlotFields
  /\ \A x \in net : MessageShape(x)
  /\ \A s \in shared : s.role \in {"initiator", "responder"}

\* An initiation in progress: its state is what wg_handshake_init left for the
\* public key it was addressed to.
Live(w) == slot[w].hs.on /\ slot[w].hs # Spoiled
HsInv ==
  \A w \in Slots : Live(w) =>
    /\ slot[w].hs = Initiation(1, slot[w].toward, slot[w].hs.eph, 0).state
    /\ slot[w].hs.eph \in 0 .. fresh

\* Response x was built for initiation y, and r is the session that came of it.
Answers(x, y, r) ==
  LET p == Process(r.who, y.msg, x.msg.eph[2], x.msg.sender)
  IN  /\ x.msg = p.msg
      /\ r.with = p.from /\ r.send = p.send /\ r.recv = p.recv
      /\ r.local = x.msg.sender /\ r.remote = x.msg.receiver
\* A response is damaged, or its sender has the session it announces.
AnswersInv ==
  \A x \in net : x.type = "response" =>
    \/ x.msg.nothing = Bad
    \/ \E y \in net, r \in Responders : y.type = "init" /\ Answers(x, y, r)

\* A responder's keys name its ephemeral, chosen with its index; and an
\* initiator's name the ephemeral of an initiation that no longer waits.
RespondersInv ==
  /\ \A r \in Responders :
       /\ r.recv = Kdf1(Chain(r.send), Empty) /\ r.send = Kdf2(Chain(r.send), Empty)
       /\ r.local \in 0 .. fresh /\ RespEph(r.send) = Pub(r.local - 1)
  /\ \A r, q \in Responders : r.local = q.local => r = q
InitiatorsInv ==
  /\ \A s \in Initiators :
       /\ s.who = 1
       /\ s.send = Kdf1(Chain(s.send), Empty) /\ s.recv = Kdf2(Chain(s.send), Empty)
       /\ \E e \in 0 .. fresh : InitEph(s.send) = Pub(e)
       /\ \A w \in Slots : Live(w) => InitEph(s.send) # Pub(slot[w].hs.eph)
  /\ \A s, t \in Initiators : InitEph(s.send) = InitEph(t.send) => s = t
  /\ \A v, w \in Slots : (Live(v) /\ Live(w) /\ v # w) => slot[v].hs.eph # slot[w].hs.eph

\* A cookie is sealed under the key of the node that sends it, and the one
\* node 1 holds came from its own peer as long as peer_public was not replaced;
\* only node 1 sends a mac2.
CookieFields == {"has", "value", "old"}
CookieInv ==
  /\ DOMAIN cookie = CookieFields
  /\ \A c \in net : c.type = "cookie" =>
       /\ c.from \in {Peer, Stranger} /\ c.mac2 = Zero
       /\ c.msg.sealed = Seal(CookieKey(Pub(c.from)), c.msg.sealed[3], c.msg.sealed[4])
  /\ \A x \in net : x.from # 1 => x.mac2 = Zero
  /\ cookie.has =>
       \E c \in net : /\ c.type = "cookie" /\ c.msg.sealed[3] = cookie.value
                      /\ ~replaced => Pub(c.from) = peerPublic

NoiseInv ==
  /\ Shape /\ HsInv /\ AnswersInv /\ RespondersInv /\ InitiatorsInv
  /\ CookieInv /\ Mac2Accepted /\ KeysAgree

-----------------------------------------------------------------------------
(* Terms. *)

\* A term is taken apart in one way only.
LEMMA TermParts ==
  ASSUME NEW a, NEW b, NEW c, NEW d
  PROVE  /\ Pub(a) = Pub(b) => a = b
         /\ WgHash2(a, b) = WgHash2(c, d) => a = c /\ b = d
         /\ WgHash2(a, b) # Zero
         /\ WgHash(a) # Zero
         /\ Pub(a)[2] = a
         /\ Seal(a, b, c)[1] = "seal" /\ Seal(a, b, c)[2] = a
         /\ Seal(a, b, c)[3] = b /\ Seal(a, b, c)[4] = c
BY SMT DEF Pub, WgHash2, WgHash, Zero, Seal

\* Two private keys do not have one public key.
LEMMA PubParts ==
  ASSUME NEW a, NEW b, Pub(a) = Pub(b)
  PROVE  a = b
BY SMT DEF Pub

\* Chain and Mixed undo the key derivation.
LEMMA KdfParts ==
  ASSUME NEW k, NEW i
  PROVE  /\ Chain(Kdf1(k, i)) = k /\ Mixed(Kdf1(k, i)) = i
         /\ Chain(Kdf2(k, i)) = k /\ Mixed(Kdf2(k, i)) = i
         /\ Chain(Kdf3(k, i)) = k /\ Mixed(Kdf3(k, i)) = i
         /\ Kdf1(k, i) # Zero /\ Kdf2(k, i) # Zero /\ Kdf3(k, i) # Zero
BY SMT DEF Chain, Mixed, Kdf1, Kdf2, Kdf3, WgHmac, Zero

\* No two inputs give the same third output.
LEMMA Kdf3Parts ==
  ASSUME NEW k, NEW i, NEW j, NEW h, Kdf3(k, i) = Kdf3(j, h)
  PROVE  k = j /\ i = h
BY SMT DEF Kdf3, WgHmac
\* No two pairs have the same hash.
LEMMA Hash2Parts ==
  ASSUME NEW a, NEW b, NEW c, NEW d, WgHash2(a, b) = WgHash2(c, d)
  PROVE  a = c /\ b = d
BY SMT DEF WgHash2

\* The first output of wg_kdf2 is never a second one.
LEMMA KdfDiffer ==
  ASSUME NEW k, NEW i, NEW j, NEW h
  PROVE  Kdf1(k, i) # Kdf2(j, h)
BY SMT DEF Kdf1, Kdf2, WgHmac

\* A handshake state.
HsState(ck, h, e, on) == [ck |-> ck, hash |-> h, eph |-> e, on |-> on]
\* wg_mix_hash and the chaining key of wg_kdf1 on a state.
LEMMA Mixing ==
  ASSUME NEW ck, NEW h, NEW e, NEW on, NEW d
  PROVE  /\ MixHash(HsState(ck, h, e, on), d) = HsState(ck, WgHash2(h, d), e, on)
         /\ MixKey(HsState(ck, h, e, on), d) = HsState(Kdf1(ck, d), h, e, on)
         /\ HsState(ck, h, e, on).ck = ck /\ HsState(ck, h, e, on).hash = h
         /\ HsState(ck, h, e, on).eph = e /\ HsState(ck, h, e, on).on = on
BY SMT DEF MixHash, MixKey, HsState

\* What either end of the response computes.
LEMMA AnsweredIs ==
  ASSUME NEW ck, NEW h, NEW e, NEW on, NEW eph, NEW ee, NEW se, NEW p
  PROVE  Answered(HsState(ck, h, e, on), eph, ee, se, p)
           = [state |-> HsState(Kdf1(AnsChain(ck, eph, ee, se), PskInput(p)),
                                WgHash2(WgHash2(h, eph), Kdf2(AnsChain(ck, eph, ee, se), PskInput(p))), e, on),
              key |-> Kdf3(AnsChain(ck, eph, ee, se), PskInput(p))]
<1> DEFINE c == AnsChain(ck, eph, ee, se)
           s1 == MixKey(MixKey(MixKey(MixHash(HsState(ck, h, e, on), eph), eph), ee), se)
           input == PskInput(p)
<1>1. s1 = HsState(c, WgHash2(h, eph), e, on)
  BY Mixing, SMT DEF AnsChain
<1>2. Answered(HsState(ck, h, e, on), eph, ee, se, p)
        = [state |-> MixHash(MixKey(s1, input), Kdf2(s1.ck, input)), key |-> Kdf3(s1.ck, input)]
  BY DEF Answered, PskInput
<1>4. MixHash(MixKey(s1, input), Kdf2(c, input))
        = HsState(Kdf1(c, input), WgHash2(WgHash2(h, eph), Kdf2(c, input)), e, on)
  BY <1>1, Mixing, SMT
<1> HIDE DEF s1, input, c
<1>3. s1.ck = c
  BY <1>1, Mixing, SMT
<1>5. Answered(HsState(ck, h, e, on), eph, ee, se, p)
        = [state |-> HsState(Kdf1(c, input), WgHash2(WgHash2(h, eph), Kdf2(c, input)), e, on),
           key |-> Kdf3(c, input)]
  BY <1>2, <1>3, <1>4
<1> QED
  BY <1>5 DEF c, input

\* The state that an initiation with these parts leaves, at either end.
MixedInit(public, e, eph, es, static, ss, stamp) ==
  HsState(InitChain(eph, es, ss), InitHash(public, eph, static, stamp), e, TRUE)
\* Both ends mix an initiation in the same order.
LEMMA InitMixing ==
  ASSUME NEW public, NEW e, NEW eph, NEW es, NEW static, NEW ss, NEW stamp
  PROVE  MixHash(MixKey(MixHash(MixKey(MixKey(MixHash(InitState(public, e), eph), eph), es), static), ss), stamp)
           = MixedInit(public, e, eph, es, static, ss, stamp)
<1> DEFINE ck == WgHash(<<"construction">>)
           id == WgHash2(ck, <<"identifier">>)
<1>1. InitState(public, e) = MixHash(HsState(ck, id, e, TRUE), public)
  BY DEF InitState, HsState
<1>2. MixedInit(public, e, eph, es, static, ss, stamp)
        = HsState(Kdf1(Kdf1(Kdf1(ck, eph), es), ss),
                  WgHash2(WgHash2(WgHash2(WgHash2(id, public), eph), static), stamp), e, TRUE)
  BY DEF MixedInit, InitChain, InitHash
<1> HIDE DEF ck, id
<1>3. \A on :
        MixHash(MixKey(MixHash(MixKey(MixKey(MixHash(MixHash(HsState(ck, id, e, on), public), eph), eph), es),
                               static), ss), stamp)
          = HsState(Kdf1(Kdf1(Kdf1(ck, eph), es), ss),
                    WgHash2(WgHash2(WgHash2(WgHash2(id, public), eph), static), stamp), e, on)
  BY Mixing, SMT
<1> QED
  BY <1>1, <1>2, <1>3

\* A record of the fields of WgHandshakeState.
IsState(s) == s = HsState(s.ck, s.hash, s.eph, s.on)
\* The fields of that state.
LEMMA StateOf ==
  ASSUME NEW public, NEW e, NEW eph, NEW es, NEW static, NEW ss, NEW stamp
  PROVE  LET s == MixedInit(public, e, eph, es, static, ss, stamp)
         IN  /\ IsState(s) /\ s.eph = e
             /\ s.ck = InitChain(eph, es, ss) /\ s.hash = InitHash(public, eph, static, stamp)
<1> DEFINE c == InitChain(eph, es, ss)
           h == InitHash(public, eph, static, stamp)
<1> HIDE DEF c, h
<1>1. \A on : LET s == HsState(c, h, e, on) IN s.on = on /\ s.eph = e /\ s.ck = c /\ s.hash = h
  BY Mixing, SMT
<1> QED
  BY <1>1 DEF MixedInit, IsState, c, h

\* The state and the message of an initiation.
LEMMA InitiationIs ==
  ASSUME NEW me, NEW public, NEW eph, NEW index
  PROVE  LET new == Initiation(me, public, eph, index)
         IN  /\ new.state = MixedInit(public, eph, Pub(eph), X25519(eph, public), new.msg.static,
                                      X25519(me, public), new.msg.stamp)
             /\ new.msg.static[3] = Pub(me)
             /\ DOMAIN new.msg = {"type", "sender", "eph", "static", "stamp", "mac1"}
<1> DEFINE new == Initiation(me, public, eph, index)
           s1 == MixKey(MixHash(InitState(public, eph), Pub(eph)), Pub(eph))
           es == X25519(eph, public)
           static == Seal(Kdf2(s1.ck, es), Pub(me), s1.hash)
           s2 == MixHash(MixKey(s1, es), static)
           ss == X25519(me, public)
           stamp == Seal(Kdf2(s2.ck, ss), <<"time", eph>>, s2.hash)
           body == <<index, Pub(eph), static, stamp>>
<1>1. new = [msg |-> [type |-> "init", sender |-> index, eph |-> Pub(eph), static |-> static,
                      stamp |-> stamp, mac1 |-> Mac1(public, body)],
             state |-> MixHash(MixKey(s2, ss), stamp)]
  BY DEF Initiation
<1>2. static[3] = Pub(me)
  BY TermParts, SMT
<1>3. MixHash(MixKey(s2, ss), stamp) = MixedInit(public, eph, Pub(eph), es, static, ss, stamp)
  <2> HIDE DEF static, stamp, es, ss
  <2> QED  BY InitMixing, SMT
<1> HIDE DEF static, stamp, s2, body
<1>4. new.msg.static = static /\ new.msg.stamp = stamp /\ new.state = MixHash(MixKey(s2, ss), stamp)
      /\ DOMAIN new.msg = {"type", "sender", "eph", "static", "stamp", "mac1"}
  <2> HIDE DEF new
  <2> QED  BY <1>1, SMT
<1> QED
  BY <1>2, <1>3, <1>4

\* The state does not depend on the sender index of the message.
LEMMA StateOfInitiation ==
  ASSUME NEW me, NEW public, NEW eph, NEW i, NEW j
  PROVE  Initiation(me, public, eph, i).state = Initiation(me, public, eph, j).state
BY DEF Initiation

\* The responder's state after an initiation and what its response leaves.
ProcState(me, m) ==
  MixedInit(Pub(me), 0, m.eph, X25519(me, m.eph), m.static, X25519(me, m.static[3]), m.stamp)
ProcAnswer(me, m, eph) ==
  Answered(ProcState(me, m), Pub(eph), X25519(eph, m.eph), X25519(eph, m.static[3]), psk[me])
\* What the responder computes.
LEMMA ProcessIs ==
  ASSUME NEW me, NEW m, NEW eph, NEW index
  PROVE  LET p == Process(me, m, eph, index)
             ans == ProcAnswer(me, m, eph)
         IN  /\ p.from = m.static[3]
             /\ p.recv = Kdf1(ans.state.ck, Empty) /\ p.send = Kdf2(ans.state.ck, Empty)
             /\ p.msg.nothing = Seal(ans.key, Empty, ans.state.hash)
             /\ p.msg.eph = Pub(eph) /\ p.msg.sender = index /\ p.msg.receiver = m.sender
             /\ DOMAIN p.msg = {"type", "sender", "receiver", "eph", "nothing", "mac1"}
<1> DEFINE p == Process(me, m, eph, index)
           s3 == MixHash(MixKey(MixHash(MixKey(MixKey(MixHash(InitState(Pub(me), 0), m.eph), m.eph),
                   X25519(me, m.eph)), m.static), X25519(me, m.static[3])), m.stamp)
           ans == Answered(s3, Pub(eph), X25519(eph, m.eph), X25519(eph, m.static[3]), psk[me])
<1>1. s3 = ProcState(me, m)
  BY InitMixing, SMT DEF ProcState
<1>2. /\ p.from = m.static[3]
      /\ p.recv = Kdf1(ans.state.ck, Empty) /\ p.send = Kdf2(ans.state.ck, Empty)
      /\ p.msg.nothing = Seal(ans.key, Empty, ans.state.hash)
      /\ p.msg.eph = Pub(eph) /\ p.msg.sender = index /\ p.msg.receiver = m.sender
      /\ DOMAIN p.msg = {"type", "sender", "receiver", "eph", "nothing", "mac1"}
  <2> DEFINE static == m.static[3]
             nothing == Seal(ans.key, Empty, ans.state.hash)
             body == <<index, m.sender, Pub(eph), nothing>>
             msg == [type |-> "response", sender |-> index, receiver |-> m.sender, eph |-> Pub(eph),
                     nothing |-> nothing, mac1 |-> Mac1(static, body)]
  <2>1. /\ p.from = static /\ p.msg = msg
        /\ p.recv = Kdf1(ans.state.ck, Empty) /\ p.send = Kdf2(ans.state.ck, Empty)
    BY DEF Process, Processed
  <2> HIDE DEF p, ans, body
  <2>2. /\ msg.nothing = nothing
        /\ msg.eph = Pub(eph) /\ msg.sender = index /\ msg.receiver = m.sender
        /\ DOMAIN msg = {"type", "sender", "receiver", "eph", "nothing", "mac1"}
    BY SMT
  <2> HIDE DEF msg
  <2> QED
    BY <2>1, <2>2
<1> HIDE DEF s3
<1> QED
  BY <1>1, <1>2 DEF ProcAnswer

\* The hash of an initiation names all its parts.
LEMMA InitHashParts ==
  ASSUME NEW p, NEW e, NEW s, NEW t, NEW p2, NEW e2, NEW s2, NEW t2
  PROVE  /\ InitHash(p, e, s, t) = InitHash(p2, e2, s2, t2) => p = p2 /\ e = e2 /\ s = s2 /\ t = t2
         /\ InitHash(p, e, s, t) # Zero
BY SMT DEF InitHash, WgHash2, Zero

\* Its chaining key names the ephemeral.
LEMMA CkEphIs ==
  ASSUME NEW eph, NEW es, NEW ss
  PROVE  CkEph(InitChain(eph, es, ss)) = eph
BY KdfParts, SMT DEF CkEph, InitChain

\* A transport key names the chaining key it was derived from, the
\* responder's ephemeral and the chaining key of the initiation.
LEMMA TransportKeys ==
  ASSUME NEW ck, NEW eph, NEW ee, NEW se, NEW input
  PROVE  LET last == Kdf1(AnsChain(ck, eph, ee, se), input)
         IN  /\ Chain(Kdf1(last, Empty)) = last /\ Chain(Kdf2(last, Empty)) = last
             /\ RespEph(Kdf1(last, Empty)) = eph /\ RespEph(Kdf2(last, Empty)) = eph
             /\ HsChain(Kdf1(last, Empty)) = ck /\ HsChain(Kdf2(last, Empty)) = ck
BY KdfParts, SMT DEF AnsChain, RespEph, HsChain

\* The fields of the answer.
LEMMA AnsweredFields ==
  ASSUME NEW s, IsState(s), NEW eph, NEW ee, NEW se, NEW p
  PROVE  LET c == AnsChain(s.ck, eph, ee, se)
             ans == Answered(s, eph, ee, se, p)
         IN  /\ ans.state.ck = Kdf1(c, PskInput(p))
             /\ ans.state.hash = WgHash2(WgHash2(s.hash, eph), Kdf2(c, PskInput(p)))
             /\ ans.key = Kdf3(c, PskInput(p))
<1> DEFINE c == AnsChain(s.ck, eph, ee, se)
           i == PskInput(p)
           ans == Answered(s, eph, ee, se, p)
           t == HsState(Kdf1(c, i), WgHash2(WgHash2(s.hash, eph), Kdf2(c, i)), s.eph, s.on)
<1>1. ans = [state |-> t, key |-> Kdf3(c, i)]
  <2>1. Answered(HsState(s.ck, s.hash, s.eph, s.on), eph, ee, se, p) = [state |-> t, key |-> Kdf3(c, i)]
    BY AnsweredIs, SMT
  <2> QED  BY <2>1 DEF IsState
<1>2. t.ck = Kdf1(c, i) /\ t.hash = WgHash2(WgHash2(s.hash, eph), Kdf2(c, i))
  BY DEF HsState
<1> HIDE DEF ans, t, c, i
<1>3. ans.state = t /\ ans.key = Kdf3(c, i)
  BY <1>1, SMT
<1>4. /\ ans.state.ck = Kdf1(c, i) /\ ans.key = Kdf3(c, i)
      /\ ans.state.hash = WgHash2(WgHash2(s.hash, eph), Kdf2(c, i))
  BY <1>2, <1>3
<1> QED
  BY <1>4 DEF ans, c, i

\* A damaged response opens under no key.
LEMMA BadRefused ==
  ASSUME NEW s, NEW eph, NEW ee, NEW se, NEW p, NEW ad
  PROVE  ~ Opens(Answered(s, eph, ee, se, p).key, Bad, ad)
<1>1. \E c, i : Answered(s, eph, ee, se, p).key = Kdf3(c, i)
  BY DEF Answered
<1>2. Bad[2] = Zero
  BY TermParts, SMT DEF Bad
<1> QED
  BY <1>1, <1>2, KdfParts, SMT DEF Opens

\* What a state with the initiator's or the responder's secrets makes of a response.
IsAnswered(ans, s, eph) == \E ee, se, p : ans = Answered(s, eph, ee, se, p)
\* A response that opens: the two ends have the same keys, swapped, and the
\* state it was opened with has the hash of the initiation it answers.
LEMMA OpenedResponse ==
  ASSUME NEW x, NEW y, NEW r, Answers(x, y, r), NEW s, IsState(s),
         NEW ans, IsAnswered(ans, s, x.msg.eph),
         Opens(ans.key, x.msg.nothing, ans.state.hash)
  PROVE  /\ r.recv = Kdf1(ans.state.ck, Empty) /\ r.send = Kdf2(ans.state.ck, Empty)
         /\ s.hash = InitHash(Pub(r.who), y.msg.eph, y.msg.static, y.msg.stamp)
         /\ r.with = y.msg.static[3]
<1>p. PICK ee, se, p : ans = Answered(s, x.msg.eph, ee, se, p)
  BY DEF IsAnswered
<1> DEFINE m == y.msg
           me == r.who
           eph == x.msg.eph[2]
           t == ProcState(me, m)
           ee2 == X25519(eph, m.eph)
           se2 == X25519(eph, m.static[3])
           b == ProcAnswer(me, m, eph)
           q == Process(me, m, eph, x.msg.sender)
<1>1. x.msg = q.msg /\ r.with = q.from /\ r.send = q.send /\ r.recv = q.recv
  BY DEF Answers
<1>2. /\ q.from = m.static[3] /\ q.recv = Kdf1(b.state.ck, Empty) /\ q.send = Kdf2(b.state.ck, Empty)
      /\ q.msg.nothing = Seal(b.key, Empty, b.state.hash)
  <2> HIDE DEF m, me, eph
  <2> QED  BY ProcessIs, SMT
<1>3. x.msg.nothing[2] = ans.key /\ x.msg.nothing[4] = ans.state.hash
  BY DEF Opens
<1>4. IsState(t) /\ t.hash = InitHash(Pub(me), m.eph, m.static, m.stamp)
  BY StateOf, SMT DEF ProcState
<1>5. ans.key = b.key /\ ans.state.hash = b.state.hash
  <2> HIDE DEF q, b
  <2> QED  BY <1>1, <1>2, <1>3, TermParts, SMT
<1> DEFINE c == AnsChain(s.ck, x.msg.eph, ee, se)
           d == AnsChain(t.ck, Pub(eph), ee2, se2)
           i == PskInput(p)
           j == PskInput(psk[me])
           k == WgHash2(s.hash, x.msg.eph)
           l == WgHash2(t.hash, Pub(eph))
<1>6. /\ ans.state.ck = Kdf1(c, i) /\ ans.key = Kdf3(c, i) /\ ans.state.hash = WgHash2(k, Kdf2(c, i))
  BY <1>p, AnsweredFields, SMT
<1>7. /\ b.state.ck = Kdf1(d, j) /\ b.key = Kdf3(d, j) /\ b.state.hash = WgHash2(l, Kdf2(d, j))
  <2>1. b = Answered(t, Pub(eph), ee2, se2, psk[me])
    BY DEF ProcAnswer
  <2> HIDE DEF b, t, ee2, se2, me, eph
  <2> QED  BY <1>4, <2>1, AnsweredFields, SMT
<1>8. k = l => s.hash = t.hash
  <2> HIDE DEF t, eph
  <2> QED  BY Hash2Parts, SMT
<1> HIDE DEF q, b, t, c, d, i, j, k, l
<1>9. c = d /\ i = j
  <2>1. Kdf3(c, i) = Kdf3(d, j)
    BY <1>5, <1>6, <1>7
  <2> QED  BY <2>1, Kdf3Parts, SMT
<1>10. k = l
  <2>1. WgHash2(k, Kdf2(c, i)) = WgHash2(l, Kdf2(d, j))
    BY <1>5, <1>6, <1>7
  <2> QED  BY <2>1, Hash2Parts
<1>11. ans.state.ck = b.state.ck /\ s.hash = t.hash
  BY <1>6, <1>7, <1>8, <1>9, <1>10
<1> QED
  BY <1>1, <1>2, <1>4, <1>11

-----------------------------------------------------------------------------
(* What each action does to the slots. *)

\* Initiate(w) keeps the session of slot w.
LEMMA InitiateSlot ==
  ASSUME Shape, NEW w \in Slots, Initiate(w)
  PROVE  LET public == IF w = "tun" THEN peerPublic ELSE Pub(Peer)
         IN  /\ DOMAIN slot' = Slots /\ DOMAIN slot'[w] = SlotFields
             /\ \A v \in Slots : v # w => slot'[v] = slot[v]
             /\ slot'[w].hs = Initiation(1, public, fresh + 1, fresh + 2).state
             /\ slot'[w].toward = public
             /\ slot'[w].valid = slot[w].valid /\ slot'[w].send = slot[w].send
             /\ slot'[w].remote = slot[w].remote
<1> DEFINE public == IF w = "tun" THEN peerPublic ELSE Pub(Peer)
           new == Initiation(1, public, fresh + 1, fresh + 2)
           a == new.state
           b == new.msg.mac1
<1>1. slot' = [slot EXCEPT ![w].hs = a, ![w].last_mac1 = b, ![w].local = fresh + 2, ![w].toward = public]
  BY DEF Initiate
<1>2. DOMAIN slot = Slots /\ \A v \in Slots : DOMAIN slot[v] = SlotFields
  BY DEF Shape
<1> HIDE DEF a, b, public
<1>3. /\ DOMAIN slot' = Slots /\ DOMAIN slot'[w] = SlotFields
      /\ \A v \in Slots : v # w => slot'[v] = slot[v]
      /\ slot'[w].hs = a /\ slot'[w].toward = public
      /\ slot'[w].valid = slot[w].valid /\ slot'[w].send = slot[w].send
      /\ slot'[w].remote = slot[w].remote
  BY <1>1, <1>2, SMT DEF SlotFields
<1> QED
  BY <1>3 DEF a, public

\* A response that opens makes a session of the keys and indices at hand.
AnsAt(w, x) ==
  Answered(slot[w].hs, x.msg.eph, X25519(slot[w].hs.eph, x.msg.eph), X25519(1, x.msg.eph), psk[1])
InitiatorSession(w, x) ==
  [who |-> 1, role |-> "initiator", with |-> slot[w].toward, local |-> slot[w].local,
   remote |-> x.msg.sender, send |-> Kdf1(AnsAt(w, x).state.ck, Empty),
   recv |-> Kdf2(AnsAt(w, x).state.ck, Empty)]
Completes(w, x) ==
  /\ x.type = "response" /\ slot[w].hs.on /\ x.msg.receiver = slot[w].local
  /\ Opens(AnsAt(w, x).key, x.msg.nothing, AnsAt(w, x).state.hash)
  /\ refused' = refused
  /\ shared' = shared \cup {InitiatorSession(w, x)}
  /\ slot'[w].hs = NoHs
  /\ slot'[w].send = Kdf1(AnsAt(w, x).state.ck, Empty) /\ slot'[w].remote = x.msg.sender

\* Any other response ends the handshake, or leaves a state that fits nothing.
GivesUp(w) ==
  /\ shared' = shared
  /\ slot'[w].hs \in {NoHs, Spoiled}
  /\ slot'[w].valid = slot[w].valid /\ slot'[w].send = slot[w].send
  /\ refused' = TRUE \/ (slot'[w].remote = slot[w].remote /\ refused' = refused)

\* wg_handshake_response and wg_handshake_init_process_response complete the
\* handshake of their slot or give it up, and touch no other slot.
LEMMA HandleResponseSlot ==
  ASSUME Shape, NEW w \in Slots, HandleResponse(w)
  PROVE  /\ DOMAIN slot' = Slots /\ DOMAIN slot'[w] = SlotFields
         /\ \A v \in Slots : v # w => slot'[v] = slot[v]
         /\ UNCHANGED <<psk, peerPublic, replaced, cookie, net, fresh>>
         /\ GivesUp(w) \/ \E x \in net : Completes(w, x)
<1>1. DOMAIN slot = Slots /\ \A v \in Slots : DOMAIN slot[v] = SlotFields
  BY DEF Shape
<1> PICK x \in net :
      /\ x.type = "response" /\ slot[w].hs.on
      /\ IF x.msg.receiver # slot[w].local
         THEN slot' = Misdirected(w, x.msg) /\ UNCHANGED <<shared, refused>>
         ELSE IF Opens(AnsAt(w, x).key, x.msg.nothing, AnsAt(w, x).state.hash)
         THEN /\ slot' = [slot EXCEPT ![w] = Completed(w, x.msg, AnsAt(w, x))]
              /\ shared' = shared \cup {[who |-> 1, role |-> "initiator",
                   with |-> Completed(w, x.msg, AnsAt(w, x)).toward,
                   local |-> Completed(w, x.msg, AnsAt(w, x)).local,
                   remote |-> Completed(w, x.msg, AnsAt(w, x)).remote,
                   send |-> Completed(w, x.msg, AnsAt(w, x)).send,
                   recv |-> Completed(w, x.msg, AnsAt(w, x)).recv]}
              /\ UNCHANGED refused
         ELSE /\ slot' = [slot EXCEPT ![w].remote = x.msg.sender,
                                      ![w].hs = IF w = "tun" THEN NoHs ELSE Spoiled]
              /\ refused' = TRUE
              /\ UNCHANGED shared
      /\ UNCHANGED <<psk, peerPublic, replaced, cookie, net, fresh, left>>
  BY DEF HandleResponse, AnsAt
<1>2. CASE x.msg.receiver # slot[w].local
  <2>1. slot' = [slot EXCEPT ![w].hs = NoHs] /\ UNCHANGED <<shared, refused>>
    BY <1>2 DEF Misdirected
  <2>2. /\ DOMAIN slot' = Slots /\ DOMAIN slot'[w] = SlotFields
        /\ \A v \in Slots : v # w => slot'[v] = slot[v]
        /\ slot'[w].hs = NoHs
        /\ slot'[w].valid = slot[w].valid /\ slot'[w].send = slot[w].send
        /\ slot'[w].remote = slot[w].remote
    BY <1>1, <2>1, SMT DEF SlotFields
  <2> QED
    BY <2>1, <2>2 DEF GivesUp
<1>3. CASE x.msg.receiver = slot[w].local /\ Opens(AnsAt(w, x).key, x.msg.nothing, AnsAt(w, x).state.hash)
  <2> DEFINE k == Kdf1(AnsAt(w, x).state.ck, Empty)
             l == Kdf2(AnsAt(w, x).state.ck, Empty)
             done == Completed(w, x.msg, AnsAt(w, x))
  <2>1. /\ slot' = [slot EXCEPT ![w] = done]
        /\ shared' = shared \cup {[who |-> 1, role |-> "initiator", with |-> done.toward,
             local |-> done.local, remote |-> done.remote, send |-> done.send, recv |-> done.recv]}
        /\ UNCHANGED refused
    BY <1>3
  <2>2. done = [slot[w] EXCEPT !.hs = NoHs, !.remote = x.msg.sender, !.valid = TRUE, !.send = k, !.recv = l]
    BY DEF Completed
  <2> HIDE DEF k, l, done
  <2>3. /\ DOMAIN done = SlotFields /\ done.hs = NoHs /\ done.remote = x.msg.sender
        /\ done.send = k /\ done.recv = l /\ done.toward = slot[w].toward /\ done.local = slot[w].local
    BY <1>1, <2>2, SMT DEF SlotFields
  <2>4. DOMAIN slot' = Slots /\ slot'[w] = done /\ \A v \in Slots : v # w => slot'[v] = slot[v]
    BY <1>1, <2>1, SMT
  <2>5. shared' = shared \cup {InitiatorSession(w, x)}
    BY <2>1, <2>3 DEF InitiatorSession, k, l
  <2>6. Completes(w, x)
    BY <1>3, <2>1, <2>3, <2>4, <2>5 DEF Completes, k
  <2> QED
    BY <2>3, <2>4, <2>6
<1>4. CASE x.msg.receiver = slot[w].local /\ ~ Opens(AnsAt(w, x).key, x.msg.nothing, AnsAt(w, x).state.hash)
  <2> DEFINE h == IF w = "tun" THEN NoHs ELSE Spoiled
  <2>1. /\ slot' = [slot EXCEPT ![w].remote = x.msg.sender, ![w].hs = h]
        /\ refused' = TRUE /\ UNCHANGED shared
    BY <1>4
  <2>2. h \in {NoHs, Spoiled}
    OBVIOUS
  <2> HIDE DEF h
  <2>3. /\ DOMAIN slot' = Slots /\ DOMAIN slot'[w] = SlotFields
        /\ \A v \in Slots : v # w => slot'[v] = slot[v]
        /\ slot'[w].hs = h
        /\ slot'[w].valid = slot[w].valid /\ slot'[w].send = slot[w].send
    BY <1>1, <2>1, SMT DEF SlotFields
  <2> QED
    BY <2>1, <2>2, <2>3 DEF GivesUp
<1> QED
  BY <1>2, <1>3, <1>4

\* The session and the response of a node n that takes initiation x.
AnswerAt(n, x) == Process(n, x.msg, fresh + 1, fresh + 2)
ResponderSession(n, x) ==
  [who |-> n, role |-> "responder", with |-> AnswerAt(n, x).from, local |-> fresh + 2,
   remote |-> x.msg.sender, send |-> AnswerAt(n, x).send, recv |-> AnswerAt(n, x).recv]
ResponseMessage(n, x) ==
  [type |-> "response", from |-> n, to |-> AnswerAt(n, x).from, msg |-> AnswerAt(n, x).msg, mac2 |-> Zero]
Takes(n, x) ==
  /\ x.type = "init"
  /\ shared' = shared \cup {ResponderSession(n, x)}
  /\ net' = net \cup {ResponseMessage(n, x)}
KeepsSession(v) ==
  slot'[v].valid = slot[v].valid /\ slot'[v].send = slot[v].send /\ slot'[v].remote = slot[v].remote
TakenBySlot(w, x) ==
  /\ slot'[w].send = AnswerAt(1, x).send /\ slot'[w].remote = x.msg.sender
  /\ \A v \in Slots : v # w => KeepsSession(v)

\* wg_handshake_init_process leaves every initiation in progress alone, and
\* installs the session it makes in one slot.
LEMMA HandleInitSlot ==
  ASSUME Shape, HandleInit
  PROVE  /\ DOMAIN slot' = Slots /\ \A v \in Slots : DOMAIN slot'[v] = SlotFields
         /\ \A v \in Slots : slot'[v].hs = slot[v].hs /\ slot'[v].toward = slot[v].toward
         /\ UNCHANGED <<psk, cookie, refused>> /\ fresh' = fresh + 2
         /\ ~replaced' => ~replaced /\ peerPublic' = peerPublic
         /\ \/ UNCHANGED <<shared, net>> /\ \A v \in Slots : KeepsSession(v)
            \/ \E x \in net : Takes(1, x) /\ \E w \in Slots : TakenBySlot(w, x)
<1>1. DOMAIN slot = Slots /\ \A v \in Slots : DOMAIN slot[v] = SlotFields
  BY DEF Shape
<1> PICK x \in net :
      LET m == x.msg
          p == AnswerAt(1, x)
          w == IF p.from = Pub(Peer) THEN "peer" ELSE "tun"
          mac1 == IF p.ok THEN p.msg.mac1 ELSE m.mac1
          new == [slot EXCEPT !["tun"].last_mac1 = mac1]
      IN  /\ x.type = "init" /\ fresh' = fresh + 2
          /\ IF p.ok
             THEN /\ slot' = [new EXCEPT ![w] = [@ EXCEPT !.last_mac1 = mac1, !.local = fresh + 2,
                                !.remote = m.sender, !.valid = TRUE, !.send = p.send, !.recv = p.recv]]
                  /\ replaced' = (replaced \/ peerPublic' # peerPublic)
                  /\ shared' = shared \cup {[who |-> 1, role |-> "responder", with |-> p.from,
                       local |-> fresh + 2, remote |-> m.sender, send |-> p.send, recv |-> p.recv]}
                  /\ net' = net \cup {[type |-> "response", from |-> 1, to |-> p.from, msg |-> p.msg, mac2 |-> Zero]}
             ELSE slot' = new /\ UNCHANGED <<peerPublic, replaced, shared, net>>
          /\ UNCHANGED <<psk, cookie, refused>>
  BY DEF HandleInit, AnswerAt
<1> DEFINE p == AnswerAt(1, x)
           w == IF p.from = Pub(Peer) THEN "peer" ELSE "tun"
           mac1 == IF p.ok THEN p.msg.mac1 ELSE x.msg.mac1
           new == [slot EXCEPT !["tun"].last_mac1 = mac1]
<1>2. w \in Slots
  BY DEF Slots
<1>3. /\ DOMAIN new = Slots /\ \A v \in Slots : DOMAIN new[v] = SlotFields
      /\ \A v \in Slots : /\ new[v].hs = slot[v].hs /\ new[v].toward = slot[v].toward
                          /\ new[v].valid = slot[v].valid /\ new[v].send = slot[v].send
                          /\ new[v].remote = slot[v].remote
  <2> HIDE DEF mac1
  <2> QED
    BY <1>1, SMT DEF SlotFields, Slots
<1>4. CASE ~ p.ok
  <2>1. slot' = new /\ UNCHANGED <<peerPublic, replaced, shared, net>>
    BY <1>4
  <2> HIDE DEF new
  <2> QED
    BY <1>3, <2>1 DEF KeepsSession
<1>5. CASE p.ok
  <2> DEFINE k == p.send
             l == p.recv
             r == x.msg.sender
  <2>1. /\ slot' = [new EXCEPT ![w] = [new[w] EXCEPT !.last_mac1 = mac1, !.local = fresh + 2,
                      !.remote = r, !.valid = TRUE, !.send = k, !.recv = l]]
        /\ replaced' = (replaced \/ peerPublic' # peerPublic)
        /\ shared' = shared \cup {ResponderSession(1, x)}
        /\ net' = net \cup {ResponseMessage(1, x)}
    BY <1>5 DEF ResponderSession, ResponseMessage
  <2>2. ~replaced' => ~replaced /\ peerPublic' = peerPublic
    BY <2>1
  <2> HIDE DEF new, mac1, w, k, l, r
  <2>3. /\ DOMAIN slot' = Slots /\ \A v \in Slots : DOMAIN slot'[v] = SlotFields
        /\ \A v \in Slots : slot'[v].hs = new[v].hs /\ slot'[v].toward = new[v].toward
        /\ slot'[w].send = k /\ slot'[w].remote = r
        /\ \A v \in Slots : v # w => slot'[v] = new[v]
    BY <1>2, <1>3, <2>1, SMT DEF SlotFields
  <2>4. Takes(1, x)
    BY <2>1 DEF Takes
  <2>5. TakenBySlot(w, x)
    BY <1>3, <2>3 DEF TakenBySlot, KeepsSession, k, r
  <2> QED
    BY <1>2, <1>3, <2>2, <2>3, <2>4, <2>5
<1> QED
  BY <1>4, <1>5

-----------------------------------------------------------------------------
(* Shape. *)

\* Messages of Damage keep their fields; the contents do not decrypt.
Damaged(x) ==
  IF x.type = "response"
  THEN [x EXCEPT !.msg.nothing = Bad, !.msg.sender = 0]
  ELSE [x EXCEPT !.msg.stamp = Bad,
                 !.msg.mac1 = Mac1(Pub(1), <<x.msg.sender, x.msg.eph, x.msg.static, Bad>>)]
\* Damage adds one such message and changes nothing else.
LEMMA DamageIs ==
  ASSUME Shape, Damage
  PROVE  /\ UNCHANGED <<psk, slot, peerPublic, replaced, cookie, shared, fresh, refused>>
         /\ \E x \in net : /\ x.from # 1 /\ x.type \in {"init", "response"}
                           /\ net' = net \cup {Damaged(x)}
                           /\ MessageShape(Damaged(x))
                           /\ Damaged(x).type = x.type /\ Damaged(x).to = x.to
                           /\ Damaged(x).from = x.from /\ Damaged(x).mac2 = x.mac2
                           /\ x.type = "response" => Damaged(x).msg.nothing = Bad
<1> PICK x \in net :
      /\ x.from # 1
      /\ \/ /\ x.type = "response"
            /\ net' = net \cup {[x EXCEPT !.msg.nothing = Bad, !.msg.sender = 0]}
         \/ /\ x.type = "init"
            /\ net' = net \cup {[x EXCEPT !.msg.stamp = Bad,
                                   !.msg.mac1 = Mac1(Pub(1), <<x.msg.sender, x.msg.eph, x.msg.static, Bad>>)]}
      /\ UNCHANGED <<psk, slot, peerPublic, replaced, cookie, shared, fresh, refused>>
  BY DEF Damage, Bad
<1>1. MessageShape(x)
  BY DEF Shape
<1>2. x.type \in {"init", "response"} /\ net' = net \cup {Damaged(x)}
  BY DEF Damaged
<1> DEFINE a == Mac1(Pub(1), <<x.msg.sender, x.msg.eph, x.msg.static, Bad>>)
           b == Bad
           d == Damaged(x)
<1>3. d = IF x.type = "response" THEN [x EXCEPT !.msg.nothing = b, !.msg.sender = 0]
          ELSE [x EXCEPT !.msg.stamp = b, !.msg.mac1 = a]
  BY DEF Damaged
<1> HIDE DEF a, b, d
<1>4. /\ MessageShape(d) /\ d.type = x.type /\ d.to = x.to /\ d.from = x.from /\ d.mac2 = x.mac2
      /\ x.type = "response" => d.msg.nothing = b
  BY <1>1, <1>2, <1>3, SMT DEF MessageShape
<1> QED
  BY <1>2, <1>4 DEF b, d

\* The message of an initiation.
LEMMA NewInitShape ==
  ASSUME NEW n, NEW to, NEW mac2, NEW public, NEW e, NEW i
  PROVE  MessageShape([type |-> "init", from |-> n, to |-> to, msg |-> Initiation(n, public, e, i).msg,
                       mac2 |-> mac2])
<1> DEFINE m == Initiation(n, public, e, i).msg
<1>1. DOMAIN m = {"type", "sender", "eph", "static", "stamp", "mac1"}
  BY InitiationIs, SMT
<1> HIDE DEF m
<1>2. MessageShape([type |-> "init", from |-> n, to |-> to, msg |-> m, mac2 |-> mac2])
  BY <1>1, SMT DEF MessageShape
<1> QED
  BY <1>2 DEF m
\* A response and the session of its sender.
LEMMA ResponseShape ==
  ASSUME NEW n, NEW x
  PROVE  MessageShape(ResponseMessage(n, x)) /\ ResponderSession(n, x).role = "responder"
<1> DEFINE p == AnswerAt(n, x)
           m == p.msg
           to == p.from
<1>1. DOMAIN m = {"type", "sender", "receiver", "eph", "nothing", "mac1"}
  BY ProcessIs, SMT DEF AnswerAt
<1> HIDE DEF m, to
<1>2. MessageShape([type |-> "response", from |-> n, to |-> to, msg |-> m, mac2 |-> Zero])
  BY <1>1, SMT DEF MessageShape
<1> QED
  BY <1>2 DEF m, to, ResponseMessage, ResponderSession
\* Taking an initiation keeps the shapes.
LEMMA TakesShape ==
  ASSUME Shape, NEW n, NEW x, Takes(n, x)
  PROVE  /\ \A z \in net' : MessageShape(z)
         /\ \A s \in shared' : s.role \in {"initiator", "responder"}
         /\ net \subseteq net' /\ shared \subseteq shared'
BY ResponseShape DEF Shape, Takes
\* Another node that takes an initiation.
LEMMA OtherAnswersIs ==
  ASSUME NEW n, OtherAnswers(n)
  PROVE  /\ UNCHANGED <<psk, slot, peerPublic, replaced, cookie, refused>> /\ fresh' = fresh + 2
         /\ \E x \in net : Takes(n, x)
BY DEF OtherAnswers, Takes, ResponderSession, ResponseMessage, AnswerAt
CookieMessage(n, x) ==
  [type |-> "cookie", from |-> n, to |-> Pub(1), mac2 |-> Zero,
   msg |-> [receiver |-> x.msg.sender,
            sealed |-> Seal(CookieKey(Pub(n)), <<"cookie", fresh + 1>>, x.msg.mac1)]]
\* A cookie reply adds one message and changes nothing else.
LEMMA CookieIs ==
  ASSUME NEW n, OtherSendsCookie(n)
  PROVE  /\ UNCHANGED <<psk, slot, peerPublic, replaced, cookie, shared, refused>> /\ fresh' = fresh + 1
         /\ \E x : net' = net \cup {CookieMessage(n, x)} /\ MessageShape(CookieMessage(n, x))
<1>1. \A x : MessageShape(CookieMessage(n, x))
  <2> TAKE x
  <2> DEFINE m == [receiver |-> x.msg.sender,
                   sealed |-> Seal(CookieKey(Pub(n)), <<"cookie", fresh + 1>>, x.msg.mac1)]
             to == Pub(1)
  <2> HIDE DEF m, to
  <2>1. MessageShape([type |-> "cookie", from |-> n, to |-> to, mac2 |-> Zero, msg |-> m])
    BY SMT DEF MessageShape
  <2> QED
    BY <2>1 DEF m, to, CookieMessage
<1> QED
  BY <1>1 DEF OtherSendsCookie, CookieMessage

\* Messages and sessions are only added, under fresh names.
Grows ==
  net \subseteq net' /\ shared \subseteq shared' /\ psk' = psk /\ fresh' \in Nat /\ fresh <= fresh'

\* Every step keeps the shapes, and forgets no message and no session.
LEMMA ShapeStep ==
  ASSUME Shape, NoiseNext
  PROVE  Shape' /\ Grows
<1> USE DEF Grows
<1>1. fresh \in Nat /\ fresh + 1 \in Nat /\ fresh + 2 \in Nat /\ fresh <= fresh + 1 /\ fresh <= fresh + 2
      /\ fresh <= fresh
  BY SMT DEF Shape
<1>2. ASSUME NEW w \in Slots, Initiate(w)
      PROVE  Shape' /\ Grows
  <2> DEFINE public == IF w = "tun" THEN peerPublic ELSE Pub(Peer)
             new == Initiation(1, public, fresh + 1, fresh + 2)
             mac2 == IF cookie.has /\ ~cookie.old THEN Mac2(new.msg) ELSE Zero
             x == [type |-> "init", from |-> 1, to |-> public, msg |-> new.msg, mac2 |-> mac2]
  <2>1. net' = net \cup {x} /\ fresh' = fresh + 2 /\ UNCHANGED <<psk, shared>>
    BY <1>2 DEF Initiate
  <2>2. MessageShape(x)
    BY NewInitShape
  <2>3. DOMAIN slot' = Slots /\ \A v \in Slots : DOMAIN slot'[v] = SlotFields
    BY <1>2, InitiateSlot DEF Shape
  <2> HIDE DEF x
  <2> QED
    BY <1>1, <2>1, <2>2, <2>3 DEF Shape
<1>3. ASSUME NEW w \in Slots, HandleResponse(w)
      PROVE  Shape' /\ Grows
  <2>1. \A v \in Slots : DOMAIN slot'[v] = SlotFields
    BY <1>3, HandleResponseSlot DEF Shape
  <2>2. shared' = shared \/ \E x : shared' = shared \cup {InitiatorSession(w, x)}
    BY <1>3, HandleResponseSlot DEF GivesUp, Completes
  <2>3. \A x : InitiatorSession(w, x).role = "initiator"
    BY DEF InitiatorSession
  <2> QED
    BY <1>1, <1>3, <2>1, <2>2, <2>3, HandleResponseSlot DEF Shape
<1>4. ASSUME HandleInit
      PROVE  Shape' /\ Grows
  <2>1. UNCHANGED <<shared, net>> \/ \E x \in net : Takes(1, x)
    BY <1>4, HandleInitSlot
  <2> QED
    BY <1>1, <1>4, <2>1, HandleInitSlot, TakesShape DEF Shape
<1>5. ASSUME HandleCookie \/ CookieAges
      PROVE  Shape' /\ Grows
  BY <1>1, <1>5 DEF HandleCookie, CookieAges, Shape
<1>6. ASSUME Damage
      PROVE  Shape' /\ Grows
  BY <1>1, <1>6, DamageIs DEF Shape
<1>7. ASSUME NEW n, OtherInitiates(n)
      PROVE  Shape' /\ Grows
  <2> DEFINE new == Initiation(n, Pub(1), fresh + 1, fresh + 2)
             x == [type |-> "init", from |-> n, to |-> Pub(1), msg |-> new.msg, mac2 |-> Zero]
  <2>1. net' = net \cup {x} /\ fresh' = fresh + 2 /\ UNCHANGED <<psk, slot, shared>>
    BY <1>7 DEF OtherInitiates
  <2>2. MessageShape(x)
    BY NewInitShape
  <2> HIDE DEF x
  <2> QED
    BY <1>1, <2>1, <2>2 DEF Shape
<1>8. ASSUME NEW n, OtherAnswers(n)
      PROVE  Shape' /\ Grows
  <2>1. \E x \in net : Takes(n, x)
    BY <1>8, OtherAnswersIs
  <2> QED
    BY <1>1, <1>8, <2>1, OtherAnswersIs, TakesShape DEF Shape
<1>9. ASSUME NEW n, OtherSendsCookie(n)
      PROVE  Shape' /\ Grows
  <2>1. PICK c : net' = net \cup {c} /\ MessageShape(c)
    BY <1>9, CookieIs
  <2> QED
    BY <1>1, <1>9, <2>1 DEF Shape, OtherSendsCookie
<1> QED
  BY <1>2, <1>3, <1>4, <1>5, <1>6, <1>7, <1>8, <1>9 DEF NoiseNext, Slots

-----------------------------------------------------------------------------
(* Initiations in progress. *)

\* An initiation that waits names its ephemeral, whom it is addressed to and
\* who sends it.
LEMMA InitiationState ==
  ASSUME NEW me, NEW public, NEW eph, NEW i
  PROVE  LET s == Initiation(me, public, eph, i).state
         IN  /\ IsState(s) /\ s.eph = eph /\ CkEph(s.ck) = Pub(eph)
             /\ \E static, stamp : s.hash = InitHash(public, Pub(eph), static, stamp) /\ static[3] = Pub(me)
<1> DEFINE new == Initiation(me, public, eph, i)
           s == new.state
           es == X25519(eph, public)
           ss == X25519(me, public)
           static == new.msg.static
           stamp == new.msg.stamp
           e == Pub(eph)
           from == Pub(me)
<1>1. s = MixedInit(public, eph, e, es, static, ss, stamp) /\ static[3] = from
  BY InitiationIs, SMT
<1> HIDE DEF new, s, es, ss, static, stamp, e, from
<1>2. IsState(s) /\ s.eph = eph /\ s.ck = InitChain(e, es, ss) /\ s.hash = InitHash(public, e, static, stamp)
  BY <1>1, StateOf, SMT
<1>3. CkEph(s.ck) = e
  BY <1>2, CkEphIs
<1>4. \E st, sp : s.hash = InitHash(public, e, st, sp) /\ st[3] = from
  BY <1>1, <1>2
<1> QED
  BY <1>2, <1>3, <1>4 DEF s, new, e, from
\* The same of the initiation that a slot waits with.
LEMMA LiveState ==
  ASSUME HsInv, NEW w \in Slots, Live(w)
  PROVE  /\ IsState(slot[w].hs) /\ CkEph(slot[w].hs.ck) = Pub(slot[w].hs.eph)
         /\ slot[w].hs.eph \in 0 .. fresh
         /\ \E static, stamp : /\ slot[w].hs.hash = InitHash(slot[w].toward, Pub(slot[w].hs.eph), static, stamp)
                               /\ static[3] = Pub(1)
<1> DEFINE e == slot[w].hs.eph
           t == slot[w].toward
           s == slot[w].hs
<1>1. s = Initiation(1, t, e, 0).state /\ e \in 0 .. fresh
  BY DEF HsInv
<1> HIDE DEF e, t, s
<1>2. /\ IsState(s) /\ CkEph(s.ck) = Pub(e)
      /\ \E static, stamp : s.hash = InitHash(t, Pub(e), static, stamp) /\ static[3] = Pub(1)
  <2>1. LET i == Initiation(1, t, e, 0).state
        IN  /\ IsState(i) /\ CkEph(i.ck) = Pub(e)
            /\ \E static, stamp : i.hash = InitHash(t, Pub(e), static, stamp) /\ static[3] = Pub(1)
    BY InitiationState, SMT
  <2> QED
    BY <1>1, <2>1
<1> QED
  BY <1>1, <1>2 DEF e, t, s

\* Only Initiate makes an initiation wait, and under a new ephemeral.
HsStep(v) ==
  Live(v)' => \/ Live(v) /\ slot'[v].hs = slot[v].hs /\ slot'[v].toward = slot[v].toward
              \/ /\ slot'[v].hs = Initiation(1, slot'[v].toward, fresh + 1, 0).state
                 /\ slot'[v].hs.eph = fresh + 1 /\ fresh' = fresh + 2
\* Every step is such a step for both slots.
LEMMA HsSteps ==
  ASSUME Shape, NoiseNext
  PROVE  \A v \in Slots : HsStep(v)
<1>1. ASSUME NEW w \in Slots, Initiate(w)
      PROVE  \A v \in Slots : HsStep(v)
  <2> DEFINE public == IF w = "tun" THEN peerPublic ELSE Pub(Peer)
  <2>1. /\ slot'[w].hs = Initiation(1, public, fresh + 1, fresh + 2).state /\ slot'[w].toward = public
        /\ \A v \in Slots : v # w => slot'[v] = slot[v]
    BY <1>1, InitiateSlot
  <2>2. fresh' = fresh + 2
    BY <1>1 DEF Initiate
  <2> HIDE DEF public
  <2>3. slot'[w].hs = Initiation(1, public, fresh + 1, 0).state
    BY <2>1, StateOfInitiation, SMT
  <2>4. slot'[w].hs.eph = fresh + 1
    BY <2>1, InitiationState, SMT
  <2> QED
    BY <2>1, <2>2, <2>3, <2>4 DEF HsStep, Live
<1>2. ASSUME NEW w \in Slots, HandleResponse(w)
      PROVE  \A v \in Slots : HsStep(v)
  <2>1. slot'[w].hs \in {NoHs, Spoiled} /\ \A v \in Slots : v # w => slot'[v] = slot[v]
    BY <1>2, HandleResponseSlot DEF GivesUp, Completes
  <2>2. ~ Live(w)'
    BY <2>1, SMT DEF Live, NoHs
  <2> QED
    BY <2>1, <2>2 DEF HsStep, Live
<1>3. ASSUME HandleInit
      PROVE  \A v \in Slots : HsStep(v)
  BY <1>3, HandleInitSlot DEF HsStep, Live
<1>4. ASSUME slot' = slot
      PROVE  \A v \in Slots : HsStep(v)
  BY <1>4 DEF HsStep, Live
<1>5. ASSUME HandleCookie \/ CookieAges \/ Damage
             \/ \E n : OtherInitiates(n) \/ OtherAnswers(n) \/ OtherSendsCookie(n)
      PROVE  slot' = slot
  BY <1>5 DEF HandleCookie, CookieAges, Damage, OtherInitiates, OtherAnswers, OtherSendsCookie
<1> QED
  BY <1>1, <1>2, <1>3, <1>4, <1>5 DEF NoiseNext, Slots

\* So an initiation in progress keeps the state wg_handshake_init left.
LEMMA HsInvStep ==
  ASSUME Shape, HsInv, NoiseNext
  PROVE  HsInv'
<1> SUFFICES ASSUME NEW v \in Slots, Live(v)'
             PROVE  /\ slot'[v].hs = Initiation(1, slot'[v].toward, slot'[v].hs.eph, 0).state
                    /\ slot'[v].hs.eph \in 0 .. fresh'
  BY DEF HsInv
<1>1. fresh' \in Nat /\ fresh <= fresh' /\ fresh \in Nat
  BY ShapeStep DEF Grows, Shape
<1>2. CASE Live(v) /\ slot'[v].hs = slot[v].hs /\ slot'[v].toward = slot[v].toward
  <2>1. /\ slot'[v].hs = Initiation(1, slot'[v].toward, slot'[v].hs.eph, 0).state
        /\ slot'[v].hs.eph \in 0 .. fresh
    BY <1>2 DEF HsInv
  <2> QED
    BY <1>1, <2>1, SMT
<1>3. CASE /\ slot'[v].hs = Initiation(1, slot'[v].toward, fresh + 1, 0).state
           /\ slot'[v].hs.eph = fresh + 1 /\ fresh' = fresh + 2
  <2>1. fresh + 1 \in 0 .. fresh'
    BY <1>1, <1>3, SMT
  <2> QED
    BY <1>3, <2>1
<1> QED
  BY <1>2, <1>3, HsSteps DEF HsStep

-----------------------------------------------------------------------------
(* Sessions. *)

\* A step makes no session, or a responder's together with its response, or an
\* initiator's.
NoSession ==
  shared' = shared /\ \A z \in net' : z \in net \/ z.type # "response" \/ z.msg.nothing = Bad
NewResponder ==
  fresh' = fresh + 2 /\ \E n : \E x \in net : Takes(n, x)
NewInitiator ==
  /\ net' = net /\ fresh' = fresh
  /\ \E w \in Slots, x \in net : Completes(w, x) /\ \A v \in Slots : v # w => slot'[v] = slot[v]
\* Every step is one of the three.
LEMMA SessionSteps ==
  ASSUME Shape, NoiseNext
  PROVE  NoSession \/ NewResponder \/ NewInitiator
<1>1. ASSUME NEW w \in Slots, Initiate(w)
      PROVE  NoSession
  <2> DEFINE public == IF w = "tun" THEN peerPublic ELSE Pub(Peer)
             new == Initiation(1, public, fresh + 1, fresh + 2)
             mac2 == IF cookie.has /\ ~cookie.old THEN Mac2(new.msg) ELSE Zero
             x == [type |-> "init", from |-> 1, to |-> public, msg |-> new.msg, mac2 |-> mac2]
  <2>1. shared' = shared /\ net' = net \cup {x}
    BY <1>1 DEF Initiate
  <2>2. x.type = "init"
    OBVIOUS
  <2> QED
    BY <2>1, <2>2 DEF NoSession
<1>2. ASSUME NEW w \in Slots, HandleResponse(w)
      PROVE  NoSession \/ NewInitiator
  BY <1>2, HandleResponseSlot DEF NoSession, NewInitiator, GivesUp
<1>3. ASSUME HandleInit
      PROVE  NoSession \/ NewResponder
  BY <1>3, HandleInitSlot DEF NoSession, NewResponder
<1>4. ASSUME HandleCookie \/ CookieAges
      PROVE  NoSession
  BY <1>4 DEF HandleCookie, CookieAges, NoSession
<1>5. ASSUME Damage
      PROVE  NoSession
  <2>1. PICK x \in net : /\ x.type \in {"init", "response"} /\ net' = net \cup {Damaged(x)}
                         /\ Damaged(x).type = x.type
                         /\ x.type = "response" => Damaged(x).msg.nothing = Bad
    BY <1>5, DamageIs
  <2> QED
    BY <1>5, <2>1, DamageIs DEF NoSession
<1>6. ASSUME NEW n, OtherInitiates(n)
      PROVE  NoSession
  <2> DEFINE new == Initiation(n, Pub(1), fresh + 1, fresh + 2)
             x == [type |-> "init", from |-> n, to |-> Pub(1), msg |-> new.msg, mac2 |-> Zero]
  <2>1. shared' = shared /\ net' = net \cup {x}
    BY <1>6 DEF OtherInitiates
  <2>2. x.type = "init"
    OBVIOUS
  <2> QED
    BY <2>1, <2>2 DEF NoSession
<1>7. ASSUME NEW n, OtherAnswers(n)
      PROVE  NewResponder
  BY <1>7, OtherAnswersIs DEF NewResponder
<1>8. ASSUME NEW n, OtherSendsCookie(n)
      PROVE  NoSession
  <2>1. \A x : CookieMessage(n, x).type = "cookie"
    BY DEF CookieMessage
  <2> QED
    BY <1>8, <2>1, CookieIs DEF NoSession
<1> QED
  BY <1>1, <1>2, <1>3, <1>4, <1>5, <1>6, <1>7, <1>8 DEF NoiseNext, Slots

\* A response stays the answer it was.
LEMMA AnswersKept ==
  ASSUME NEW x, NEW y, NEW r, psk' = psk, Answers(x, y, r)
  PROVE  Answers(x, y, r)'
BY DEF Answers, Process, Processed

\* A response and a session that one step makes belong together.
LEMMA TakenAnswers ==
  ASSUME NEW n, NEW x
  PROVE  Answers(ResponseMessage(n, x), x, ResponderSession(n, x))
<1> DEFINE z == ResponseMessage(n, x)
           r == ResponderSession(n, x)
           p == AnswerAt(n, x)
<1>1. z.msg = p.msg
  BY DEF ResponseMessage
<1>2. p.msg.eph = Pub(fresh + 1) /\ p.msg.sender = fresh + 2 /\ p.msg.receiver = x.msg.sender
  BY ProcessIs, SMT DEF AnswerAt
<1>3. z.msg.eph[2] = fresh + 1
  <2>1. Pub(fresh + 1)[2] = fresh + 1
    BY TermParts, SMT
  <2> QED
    BY <1>1, <1>2, <2>1
<1>4. Process(r.who, x.msg, z.msg.eph[2], z.msg.sender) = p
  <2>1. r.who = n
    BY DEF ResponderSession
  <2> QED
    BY <1>1, <1>2, <1>3, <2>1 DEF AnswerAt
<1>5. /\ r.with = p.from /\ r.send = p.send /\ r.recv = p.recv
      /\ r.local = fresh + 2 /\ r.remote = x.msg.sender
  BY DEF ResponderSession
<1> HIDE DEF z, r, p
<1>6. Answers(z, x, r)
  BY <1>1, <1>2, <1>4, <1>5 DEF Answers
<1> QED
  BY <1>6 DEF z, r

\* Every response, damaged ones aside, has its session at its sender.
LEMMA AnswersInvStep ==
  ASSUME Shape, AnswersInv, NoiseNext
  PROVE  AnswersInv'
<1> SUFFICES ASSUME NEW z \in net', z.type = "response", z.msg.nothing # Bad
             PROVE  \E y \in net', r \in Responders' : y.type = "init" /\ Answers(z, y, r)'
  BY DEF AnswersInv
<1>1. net \subseteq net' /\ Responders \subseteq Responders' /\ psk' = psk
  BY ShapeStep DEF Grows, Responders
<1>2. CASE z \in net
  <2>1. PICK y \in net, r \in Responders : y.type = "init" /\ Answers(z, y, r)
    BY <1>2 DEF AnswersInv
  <2> QED
    BY <1>1, <2>1, AnswersKept
<1>3. CASE z \notin net
  <2>1. PICK n : \E x \in net : Takes(n, x)
    BY <1>3, SessionSteps DEF NoSession, NewResponder, NewInitiator
  <2>2. PICK x \in net : Takes(n, x)
    BY <2>1
  <2>3. z = ResponseMessage(n, x) /\ x.type = "init" /\ ResponderSession(n, x) \in Responders'
    BY <1>3, <2>2, ResponseShape DEF Takes, Responders
  <2>4. Answers(z, x, ResponderSession(n, x))
    BY <2>3, TakenAnswers
  <2> HIDE DEF ResponderSession
  <2> DEFINE r == ResponderSession(n, x)
  <2>5. r \in Responders' /\ Answers(z, x, r)
    BY <2>3, <2>4
  <2> HIDE DEF r
  <2> QED
    BY <1>1, <2>3, <2>5, AnswersKept
<1> QED
  BY <1>2, <1>3

\* The keys of a responder.
LEMMA ResponderKeys ==
  ASSUME NEW n, NEW x, fresh \in Nat
  PROVE  LET r == ResponderSession(n, x)
         IN  /\ r.recv = Kdf1(Chain(r.send), Empty) /\ r.send = Kdf2(Chain(r.send), Empty)
             /\ RespEph(r.send) = Pub(r.local - 1) /\ r.local = fresh + 2
<1> DEFINE m == x.msg
           eph == fresh + 1
           t == ProcState(n, m)
           ee == X25519(eph, m.eph)
           se == X25519(eph, m.static[3])
           ans == ProcAnswer(n, m, eph)
           last == Kdf1(AnsChain(t.ck, Pub(eph), ee, se), PskInput(psk[n]))
           r == ResponderSession(n, x)
<1>1. r.recv = Kdf1(ans.state.ck, Empty) /\ r.send = Kdf2(ans.state.ck, Empty) /\ r.local = fresh + 2
  <2>1. r.recv = AnswerAt(n, x).recv /\ r.send = AnswerAt(n, x).send /\ r.local = fresh + 2
    BY DEF ResponderSession
  <2>2. AnswerAt(n, x).recv = Kdf1(ans.state.ck, Empty) /\ AnswerAt(n, x).send = Kdf2(ans.state.ck, Empty)
    BY ProcessIs, SMT DEF AnswerAt
  <2> QED
    BY <2>1, <2>2
<1>2. IsState(t)
  BY StateOf, SMT DEF ProcState
<1>3. ans.state.ck = last
  <2>1. ans = Answered(t, Pub(eph), ee, se, psk[n])
    BY DEF ProcAnswer
  <2> HIDE DEF ans, t, ee, se, eph
  <2> QED  BY <1>2, <2>1, AnsweredFields, SMT
<1>4. Chain(Kdf2(last, Empty)) = last /\ RespEph(Kdf2(last, Empty)) = Pub(eph)
  <2> HIDE DEF t, ee, se, eph
  <2> QED  BY TransportKeys, SMT
<1>5. r.local - 1 = eph
  BY <1>1, SMT
<1> HIDE DEF last, ans, eph, r
<1> QED
  BY <1>1, <1>3, <1>4, <1>5 DEF r

\* Responders keep their ephemerals apart.
LEMMA RespondersInvStep ==
  ASSUME Shape, RespondersInv, NoiseNext
  PROVE  RespondersInv'
<1>1. fresh \in Nat /\ fresh' \in Nat /\ fresh <= fresh' /\ Responders \subseteq Responders'
  BY ShapeStep DEF Grows, Shape, Responders
<1>2. \A r \in Responders : r.local \in 0 .. fresh'
  BY <1>1, SMT DEF RespondersInv
<1>3. ASSUME Responders' = Responders
      PROVE  RespondersInv'
  BY <1>2, <1>3 DEF RespondersInv
<1>4. ASSUME NoSession
      PROVE  Responders' = Responders
  BY <1>4 DEF NoSession, Responders
<1>5. ASSUME NewInitiator
      PROVE  Responders' = Responders
  <2>1. PICK w, x : shared' = shared \cup {InitiatorSession(w, x)}
    BY <1>5 DEF NewInitiator, Completes
  <2>2. InitiatorSession(w, x).role # "responder"
    BY DEF InitiatorSession
  <2> QED
    BY <2>1, <2>2 DEF Responders
<1>6. ASSUME NewResponder
      PROVE  RespondersInv'
  <2>1. PICK n, x : shared' = shared \cup {ResponderSession(n, x)} /\ fresh' = fresh + 2
    BY <1>6 DEF NewResponder, Takes
  <2> DEFINE q == ResponderSession(n, x)
  <2>2. Responders' = Responders \cup {q}
    BY <2>1, ResponseShape DEF Responders
  <2>3. /\ q.recv = Kdf1(Chain(q.send), Empty) /\ q.send = Kdf2(Chain(q.send), Empty)
        /\ RespEph(q.send) = Pub(q.local - 1) /\ q.local = fresh + 2
    BY <1>1, ResponderKeys, SMT
  <2>4. q.local \in 0 .. fresh' /\ \A r \in Responders : r.local # q.local
    BY <1>1, <2>1, <2>3, SMT DEF RespondersInv
  <2> HIDE DEF q
  <2>5. \A r \in Responders' :
          /\ r.recv = Kdf1(Chain(r.send), Empty) /\ r.send = Kdf2(Chain(r.send), Empty)
          /\ r.local \in 0 .. fresh' /\ RespEph(r.send) = Pub(r.local - 1)
    BY <1>2, <2>2, <2>3, <2>4 DEF RespondersInv
  <2>6. \A r, p \in Responders' : r.local = p.local => r = p
    BY <2>2, <2>4 DEF RespondersInv
  <2> QED
    BY <2>5, <2>6 DEF RespondersInv
<1> QED
  BY <1>3, <1>4, <1>5, <1>6, SessionSteps

\* What a session of an initiator is made of.
LEMMA CompletedIs ==
  ASSUME Shape, HsInv, AnswersInv, NEW w \in Slots, NEW x \in net, Completes(w, x)
  PROVE  LET s == InitiatorSession(w, x)
         IN  /\ Live(w)
             /\ s.who = 1 /\ s.role = "initiator"
             /\ s.send = Kdf1(Chain(s.send), Empty) /\ s.recv = Kdf2(Chain(s.send), Empty)
             /\ InitEph(s.send) = Pub(slot[w].hs.eph)
             /\ \E r \in Responders : /\ s.with = Pub(r.who) /\ r.with = Pub(1)
                                      /\ r.send = s.recv /\ r.recv = s.send
                                      /\ r.local = s.remote /\ r.remote = s.local
<1> DEFINE hs == slot[w].hs
           ee == X25519(hs.eph, x.msg.eph)
           se == X25519(1, x.msg.eph)
           ans == Answered(hs, x.msg.eph, ee, se, psk[1])
           s == InitiatorSession(w, x)
           last == Kdf1(AnsChain(hs.ck, x.msg.eph, ee, se), PskInput(psk[1]))
<1>1. /\ x.type = "response" /\ hs.on /\ x.msg.receiver = slot[w].local
      /\ Opens(ans.key, x.msg.nothing, ans.state.hash)
  BY DEF Completes, AnsAt
<1>2. /\ s.who = 1 /\ s.role = "initiator" /\ s.with = slot[w].toward /\ s.local = slot[w].local
      /\ s.remote = x.msg.sender
      /\ s.send = Kdf1(ans.state.ck, Empty) /\ s.recv = Kdf2(ans.state.ck, Empty)
  BY DEF InitiatorSession, AnsAt
<1>3. PICK y \in net, r \in Responders : Answers(x, y, r)
  <2>1. x.msg.nothing # Bad
    BY <1>1, BadRefused
  <2> QED
    BY <1>1, <2>1 DEF AnswersInv
<1>4. IsState(hs)
  <2>1. CASE hs = Spoiled
    BY <2>1 DEF Spoiled, NoHs, IsState, HsState
  <2>2. CASE hs # Spoiled
    <3>1. Live(w)
      BY <1>1, <2>2 DEF Live
    <3> QED
      BY <3>1, LiveState
  <2> QED
    BY <2>1, <2>2
<1>5. /\ r.recv = Kdf1(ans.state.ck, Empty) /\ r.send = Kdf2(ans.state.ck, Empty)
      /\ hs.hash = InitHash(Pub(r.who), y.msg.eph, y.msg.static, y.msg.stamp)
      /\ r.with = y.msg.static[3]
  <2>1. IsAnswered(ans, hs, x.msg.eph)
    BY DEF IsAnswered
  <2>2. Opens(ans.key, x.msg.nothing, ans.state.hash)
    BY <1>1
  <2>3. Answers(x, y, r)
    BY <1>3
  <2> HIDE DEF hs, ee, se, ans
  <2> QED  BY <1>4, <2>1, <2>2, <2>3, OpenedResponse
<1>6. r.local = x.msg.sender /\ r.remote = x.msg.receiver
  BY <1>3 DEF Answers
<1>7. Live(w)
  <2>1. hs.hash # Zero
    <3> HIDE DEF hs, ans
    <3> QED  BY <1>5, InitHashParts, SMT
  <2>2. Spoiled.hash = Zero
    BY DEF Spoiled, NoHs
  <2> QED
    BY <1>1, <2>1, <2>2 DEF Live
<1>8. PICK static, stamp : hs.hash = InitHash(slot[w].toward, Pub(hs.eph), static, stamp) /\ static[3] = Pub(1)
  BY <1>7, LiveState
<1>9. slot[w].toward = Pub(r.who) /\ y.msg.static = static
  <2>1. InitHash(Pub(r.who), y.msg.eph, y.msg.static, y.msg.stamp)
          = InitHash(slot[w].toward, Pub(hs.eph), static, stamp)
    BY <1>5, <1>8
  <2> QED
    BY <2>1, Hash2Parts, SMT DEF InitHash
<1>10. ans.state.ck = last
  <2> HIDE DEF hs, ee, se
  <2> QED  BY <1>4, AnsweredFields, SMT
<1>11. Chain(Kdf1(last, Empty)) = last /\ HsChain(Kdf1(last, Empty)) = hs.ck
  <2> HIDE DEF hs, ee, se
  <2> QED  BY TransportKeys, SMT
<1>12. CkEph(hs.ck) = Pub(hs.eph)
  BY <1>7, LiveState
<1> HIDE DEF last, ans, s, hs
<1>13. InitEph(s.send) = Pub(hs.eph)
  BY <1>2, <1>10, <1>11, <1>12 DEF InitEph
<1>14. s.send = Kdf1(Chain(s.send), Empty) /\ s.recv = Kdf2(Chain(s.send), Empty)
  BY <1>2, <1>10, <1>11
<1>15. /\ s.with = Pub(r.who) /\ r.with = Pub(1) /\ r.send = s.recv /\ r.recv = s.send
       /\ r.local = s.remote /\ r.remote = s.local
  BY <1>1, <1>2, <1>5, <1>6, <1>8, <1>9
<1> QED
  BY <1>2, <1>7, <1>13, <1>14, <1>15 DEF s, hs

\* A step changes the handshake of one slot at most.
LEMMA OneSlot ==
  ASSUME Shape, NoiseNext, NEW v \in Slots, NEW w \in Slots, v # w
  PROVE  slot'[v].hs = slot[v].hs \/ slot'[w].hs = slot[w].hs
<1>1. ASSUME NEW u \in Slots, Initiate(u) \/ HandleResponse(u)
      PROVE  slot'[v].hs = slot[v].hs \/ slot'[w].hs = slot[w].hs
  BY <1>1, InitiateSlot, HandleResponseSlot
<1>2. ASSUME HandleInit
      PROVE  slot'[v].hs = slot[v].hs \/ slot'[w].hs = slot[w].hs
  BY <1>2, HandleInitSlot
<1>3. ASSUME HandleCookie \/ CookieAges \/ Damage
             \/ \E n : OtherInitiates(n) \/ OtherAnswers(n) \/ OtherSendsCookie(n)
      PROVE  slot' = slot
  BY <1>3 DEF HandleCookie, CookieAges, Damage, OtherInitiates, OtherAnswers, OtherSendsCookie
<1> QED
  BY <1>1, <1>2, <1>3 DEF NoiseNext, Slots

\* A step that makes no initiator keeps the ephemerals apart: those that wait
\* are as before, or new.
LEMMA InitiatorsKept ==
  ASSUME Shape, HsInv, InitiatorsInv, NoiseNext, Initiators' = Initiators
  PROVE  InitiatorsInv'
<1>1. fresh \in Nat /\ fresh' \in Nat /\ fresh <= fresh'
  BY ShapeStep DEF Grows, Shape
<1>2. ASSUME NEW s \in Initiators
      PROVE  /\ \E e \in 0 .. fresh' : InitEph(s.send) = Pub(e)
             /\ \A w \in Slots : Live(w)' => InitEph(s.send) # Pub(slot'[w].hs.eph)
  <2>1. PICK e \in 0 .. fresh : InitEph(s.send) = Pub(e)
    BY DEF InitiatorsInv
  <2>2. e \in 0 .. fresh' /\ e # fresh + 1
    BY <1>1, SMT
  <2>3. ASSUME NEW w \in Slots, Live(w)'
        PROVE  InitEph(s.send) # Pub(slot'[w].hs.eph)
    <3>1. CASE Live(w) /\ slot'[w].hs = slot[w].hs
      BY <3>1 DEF InitiatorsInv
    <3>2. CASE slot'[w].hs.eph = fresh + 1
      BY <2>1, <2>2, <3>2, PubParts
    <3> QED
      BY <2>3, <3>1, <3>2, HsSteps DEF HsStep
  <2> QED
    BY <2>1, <2>2, <2>3
<1>3. ASSUME NEW v \in Slots, NEW w \in Slots, Live(v)', Live(w)', v # w
      PROVE  slot'[v].hs.eph # slot'[w].hs.eph
  <2>1. \A u \in Slots : Live(u) => slot[u].hs.eph # fresh + 1
    BY <1>1, SMT DEF HsInv
  <2>2. /\ (Live(v) /\ slot'[v].hs = slot[v].hs) \/ slot'[v].hs.eph = fresh + 1
        /\ (Live(w) /\ slot'[w].hs = slot[w].hs) \/ slot'[w].hs.eph = fresh + 1
    BY <1>3, HsSteps DEF HsStep
  <2>3. slot'[v].hs = slot[v].hs \/ slot'[w].hs = slot[w].hs
    BY <1>3, OneSlot
  <2>4. ~ (slot'[v].hs.eph = fresh + 1 /\ slot'[w].hs.eph = fresh + 1)
    BY <1>3, <2>1, <2>3 DEF Live
  <2> QED
    BY <1>3, <2>1, <2>2, <2>4 DEF InitiatorsInv
<1> QED
  BY <1>2, <1>3 DEF InitiatorsInv

\* Initiators keep their ephemerals apart: completing a handshake takes its
\* ephemeral from the slot to the session.
LEMMA InitiatorsInvStep ==
  ASSUME Shape, HsInv, AnswersInv, InitiatorsInv, NoiseNext
  PROVE  InitiatorsInv'
<1>1. ASSUME NoSession
      PROVE  Initiators' = Initiators
  BY <1>1 DEF NoSession, Initiators
<1>2. ASSUME NewResponder
      PROVE  Initiators' = Initiators
  <2>1. PICK n, x : shared' = shared \cup {ResponderSession(n, x)}
    BY <1>2 DEF NewResponder, Takes
  <2>2. ResponderSession(n, x).role # "initiator"
    BY DEF ResponderSession
  <2> QED
    BY <2>1, <2>2 DEF Initiators
<1>3. ASSUME NewInitiator
      PROVE  InitiatorsInv'
  <2>1. PICK w \in Slots, x \in net : Completes(w, x) /\ \A v \in Slots : v # w => slot'[v] = slot[v]
    BY <1>3 DEF NewInitiator
  <2> DEFINE s == InitiatorSession(w, x)
             e == slot[w].hs.eph
  <2>2. /\ Live(w) /\ s.who = 1 /\ s.role = "initiator"
        /\ s.send = Kdf1(Chain(s.send), Empty) /\ s.recv = Kdf2(Chain(s.send), Empty)
        /\ InitEph(s.send) = Pub(e)
    BY <2>1, CompletedIs
  <2>3. shared' = shared \cup {s} /\ slot'[w].hs = NoHs /\ fresh' = fresh
    BY <1>3, <2>1 DEF Completes, NewInitiator
  <2> HIDE DEF s
  <2>4. Initiators' = Initiators \cup {s}
    BY <2>2, <2>3 DEF Initiators
  <2>5. e \in 0 .. fresh
    BY <2>2 DEF HsInv
  <2>6. ~ Live(w)' /\ \A v \in Slots : Live(v)' => v # w /\ Live(v) /\ slot'[v].hs = slot[v].hs
    <3>1. ~ Live(w)'
      BY <2>3, SMT DEF Live, NoHs
    <3> QED
      BY <2>1, <3>1 DEF Live
  <2>7. \A v \in Slots : Live(v)' => Pub(e) # Pub(slot'[v].hs.eph)
    <3>1. \A v \in Slots : Live(v)' => e # slot'[v].hs.eph
      BY <2>2, <2>6 DEF InitiatorsInv
    <3> QED
      BY <3>1, PubParts
  <2>8. \A t \in Initiators : InitEph(t.send) # InitEph(s.send)
    BY <2>2 DEF InitiatorsInv
  <2>9. \A t \in Initiators' :
          /\ t.who = 1
          /\ t.send = Kdf1(Chain(t.send), Empty) /\ t.recv = Kdf2(Chain(t.send), Empty)
          /\ \E f \in 0 .. fresh' : InitEph(t.send) = Pub(f)
          /\ \A v \in Slots : Live(v)' => InitEph(t.send) # Pub(slot'[v].hs.eph)
    <3>1. ASSUME NEW t \in Initiators
          PROVE  /\ t.who = 1
                 /\ t.send = Kdf1(Chain(t.send), Empty) /\ t.recv = Kdf2(Chain(t.send), Empty)
                 /\ \E f \in 0 .. fresh' : InitEph(t.send) = Pub(f)
                 /\ \A v \in Slots : Live(v)' => InitEph(t.send) # Pub(slot'[v].hs.eph)
      <4>1. /\ t.who = 1
            /\ t.send = Kdf1(Chain(t.send), Empty) /\ t.recv = Kdf2(Chain(t.send), Empty)
            /\ \E f \in 0 .. fresh : InitEph(t.send) = Pub(f)
            /\ \A v \in Slots : Live(v) => InitEph(t.send) # Pub(slot[v].hs.eph)
        BY <3>1 DEF InitiatorsInv
      <4>2. \A v \in Slots : Live(v)' => InitEph(t.send) # Pub(slot'[v].hs.eph)
        BY <2>6, <4>1
      <4> QED
        BY <2>3, <4>1, <4>2
    <3>2. /\ \E f \in 0 .. fresh' : InitEph(s.send) = Pub(f)
          /\ \A v \in Slots : Live(v)' => InitEph(s.send) # Pub(slot'[v].hs.eph)
      BY <2>2, <2>3, <2>5, <2>7
    <3> QED
      BY <2>2, <2>4, <3>1, <3>2
  <2>10. \A t, u \in Initiators' : InitEph(t.send) = InitEph(u.send) => t = u
    BY <2>4, <2>8 DEF InitiatorsInv
  <2>11. \A u, v \in Slots : (Live(u)' /\ Live(v)' /\ u # v) => slot'[u].hs.eph # slot'[v].hs.eph
    BY <2>6 DEF InitiatorsInv
  <2> QED
    BY <2>9, <2>10, <2>11 DEF InitiatorsInv
<1> QED
  BY <1>1, <1>2, <1>3, SessionSteps, InitiatorsKept

\* Both ends of a completed handshake agree, and a slot has a remote index and
\* a key that came together.
LEMMA KeysAgreeStep ==
  ASSUME Shape, HsInv, AnswersInv, InitiatorsInv, KeysAgree, NoiseNext
  PROVE  KeysAgree'
<1>1. shared \subseteq shared'
  BY ShapeStep DEF Grows
<1>2. PeerHasKeys'
  <2> SUFFICES ASSUME NEW s \in shared', s.who = 1, s.role = "initiator"
               PROVE  \E r \in shared' : /\ r.role = "responder" /\ s.with = Pub(r.who) /\ r.with = Pub(1)
                                         /\ r.send = s.recv /\ r.recv = s.send
                                         /\ r.local = s.remote /\ r.remote = s.local
    BY DEF PeerHasKeys
  <2>1. CASE s \in shared
    <3>1. PICK r \in shared : /\ r.role = "responder" /\ s.with = Pub(r.who) /\ r.with = Pub(1)
                              /\ r.send = s.recv /\ r.recv = s.send
                              /\ r.local = s.remote /\ r.remote = s.local
      BY <2>1 DEF KeysAgree, PeerHasKeys
    <3> QED
      BY <1>1, <3>1
  <2>2. CASE s \notin shared
    <3>1. ~ NewResponder
      <4>1. \A n, x : ResponderSession(n, x).role = "responder"
        BY ResponseShape
      <4> QED
        BY <2>2, <4>1 DEF NewResponder, Takes
    <3>2. PICK w \in Slots, x \in net : Completes(w, x)
      BY <2>2, <3>1, SessionSteps DEF NoSession, NewInitiator
    <3>3. s = InitiatorSession(w, x)
      BY <2>2, <3>2 DEF Completes
    <3>4. PICK r \in Responders : /\ s.with = Pub(r.who) /\ r.with = Pub(1)
                                  /\ r.send = s.recv /\ r.recv = s.send
                                  /\ r.local = s.remote /\ r.remote = s.local
      BY <3>2, <3>3, CompletedIs
    <3> QED
      BY <1>1, <3>4 DEF Responders
  <2> QED
    BY <2>1, <2>2
<1>3. RemoteOfKeys'
  <2>2. \A v \in Slots : (slot[v].valid /\ ~ refused) =>
          \E s \in shared : s.who = 1 /\ s.send = slot[v].send /\ s.remote = slot[v].remote
    BY DEF KeysAgree, RemoteOfKeys, Slots
  <2> SUFFICES ASSUME NEW v \in Slots, slot'[v].valid, ~ refused'
               PROVE  \E s \in shared' : s.who = 1 /\ s.send = slot'[v].send /\ s.remote = slot'[v].remote
    BY DEF RemoteOfKeys, Slots
  <2>3. CASE KeepsSession(v) /\ ~ refused
    BY <1>1, <2>2, <2>3 DEF KeepsSession
  <2>4. CASE slot'[v] = slot[v] /\ ~ refused
    BY <1>1, <2>2, <2>4
  <2>5. ASSUME NEW w \in Slots, Initiate(w)
        PROVE  KeepsSession(v) /\ ~ refused
    BY <2>5, InitiateSlot DEF KeepsSession, Initiate
  <2>6. ASSUME NEW w \in Slots, HandleResponse(w)
        PROVE  \/ (KeepsSession(v) /\ ~ refused) \/ (slot'[v] = slot[v] /\ ~ refused)
               \/ \E s \in shared' : s.who = 1 /\ s.send = slot'[v].send /\ s.remote = slot'[v].remote
    <3>1. CASE GivesUp(w)
      BY <2>6, <3>1, HandleResponseSlot DEF GivesUp, KeepsSession
    <3>2. ASSUME NEW x \in net, Completes(w, x)
          PROVE  \/ (slot'[v] = slot[v] /\ ~ refused)
                 \/ \E s \in shared' : s.who = 1 /\ s.send = slot'[v].send /\ s.remote = slot'[v].remote
      <4> DEFINE s == InitiatorSession(w, x)
      <4>1. s.who = 1 /\ s.send = slot'[w].send /\ s.remote = slot'[w].remote
        BY <3>2 DEF InitiatorSession, Completes
      <4>2. s \in shared' /\ ~ refused
        BY <3>2 DEF Completes
      <4> HIDE DEF s
      <4> QED
        BY <2>6, <4>1, <4>2, HandleResponseSlot
    <3> QED
      BY <2>6, <3>1, <3>2, HandleResponseSlot
  <2>7. ASSUME HandleInit
        PROVE  \/ (KeepsSession(v) /\ ~ refused)
               \/ \E s \in shared' : s.who = 1 /\ s.send = slot'[v].send /\ s.remote = slot'[v].remote
    <3>1. ~ refused
      BY <2>7, HandleInitSlot
    <3>2. CASE \A u \in Slots : KeepsSession(u)
      BY <3>1, <3>2
    <3>3. ASSUME NEW x \in net, Takes(1, x), NEW w \in Slots, TakenBySlot(w, x)
          PROVE  \/ KeepsSession(v)
                 \/ \E s \in shared' : s.who = 1 /\ s.send = slot'[v].send /\ s.remote = slot'[v].remote
      <4> DEFINE s == ResponderSession(1, x)
      <4>1. s.who = 1 /\ s.send = slot'[w].send /\ s.remote = slot'[w].remote
        BY <3>3 DEF ResponderSession, TakenBySlot
      <4>2. s \in shared'
        BY <3>3 DEF Takes
      <4> HIDE DEF s
      <4> QED
        BY <3>3, <4>1, <4>2 DEF TakenBySlot
    <3> QED
      BY <2>7, <3>1, <3>2, <3>3, HandleInitSlot
  <2>8. ASSUME HandleCookie \/ CookieAges \/ Damage
               \/ \E n : OtherInitiates(n) \/ OtherAnswers(n) \/ OtherSendsCookie(n)
        PROVE  slot'[v] = slot[v] /\ ~ refused
    <3>1. slot' = slot /\ refused' = refused
      BY <2>8 DEF HandleCookie, CookieAges, Damage, OtherInitiates, OtherAnswers, OtherSendsCookie
    <3> QED
      BY <3>1
  <2> QED
    BY <2>3, <2>4, <2>5, <2>6, <2>7, <2>8 DEF NoiseNext, Slots
<1> QED
  BY <1>2, <1>3 DEF KeysAgree

-----------------------------------------------------------------------------
(* Cookies. *)

\* No two nodes have the same cookie key.
LEMMA CookieKeyParts ==
  ASSUME NEW a, NEW b, CookieKey(a) = CookieKey(b)
  PROVE  a = b
BY SMT DEF CookieKey, WgHash2

\* The key of a cookie names the node it comes from.
LEMMA CookieOpens ==
  ASSUME CookieInv, NEW c \in net, c.type = "cookie", NEW public, NEW ad,
         Opens(CookieKey(public), c.msg.sealed, ad)
  PROVE  Pub(c.from) = public
<1> DEFINE q == c.msg.sealed
           from == Pub(c.from)
<1>1. q = Seal(CookieKey(from), q[3], q[4]) /\ q[2] = CookieKey(public)
  BY DEF CookieInv, Opens
<1> HIDE DEF q, from
<1>2. CookieKey(from) = CookieKey(public)
  BY <1>1, SMT DEF Seal
<1>3. from = public
  <2> HIDE DEF CookieKey
  <2> QED  BY <1>2, CookieKeyParts
<1> QED
  BY <1>3 DEF from

\* peer_public is the key the tunnel was made with until replaced says otherwise.
LEMMA PeerPublicStep ==
  ASSUME Shape, NoiseNext, ~replaced'
  PROVE  ~replaced /\ peerPublic' = peerPublic
<1>1. ASSUME HandleInit
      PROVE  ~replaced /\ peerPublic' = peerPublic
  BY <1>1, HandleInitSlot
<1>2. ASSUME NEW w \in Slots, Initiate(w) \/ HandleResponse(w)
      PROVE  UNCHANGED <<peerPublic, replaced>>
  BY <1>2, HandleResponseSlot DEF Initiate
<1>3. ASSUME HandleCookie \/ CookieAges
      PROVE  UNCHANGED <<peerPublic, replaced>>
  BY <1>3 DEF HandleCookie, CookieAges
<1>4. ASSUME Damage
      PROVE  UNCHANGED <<peerPublic, replaced>>
  BY <1>4, DamageIs
<1>5. ASSUME NEW n, OtherInitiates(n) \/ OtherAnswers(n) \/ OtherSendsCookie(n)
      PROVE  UNCHANGED <<peerPublic, replaced>>
  BY <1>5, OtherAnswersIs, CookieIs DEF OtherInitiates
<1>6. HandleInit \/ UNCHANGED <<peerPublic, replaced>>
  BY <1>2, <1>3, <1>4, <1>5 DEF NoiseNext, Slots
<1> QED
  BY <1>1, <1>6, SMT

\* Only HandleCookie brings a cookie.
LEMMA CookieKept ==
  ASSUME Shape, NoiseNext, DOMAIN cookie = CookieFields
  PROVE  /\ DOMAIN cookie' = CookieFields
         /\ (cookie'.has /\ ~ HandleCookie) => (cookie.has /\ cookie'.value = cookie.value)
<1>1. ASSUME NEW w \in Slots, Initiate(w)
      PROVE  DOMAIN cookie' = CookieFields /\ (cookie'.has => cookie' = cookie)
  <2>1. cookie' = NoCookie \/ cookie' = cookie
    BY <1>1 DEF Initiate
  <2>2. DOMAIN NoCookie = CookieFields /\ ~ NoCookie.has
    BY SMT DEF NoCookie, CookieFields
  <2> QED
    BY <2>1, <2>2
<1>2. ASSUME CookieAges
      PROVE  DOMAIN cookie' = CookieFields /\ cookie.has /\ cookie'.value = cookie.value
  <2>1. cookie.has /\ cookie' = [cookie EXCEPT !.old = TRUE]
    BY <1>2 DEF CookieAges
  <2>2. DOMAIN cookie' = CookieFields /\ cookie'.value = cookie.value
    BY <2>1, SMT DEF CookieFields
  <2> QED
    BY <2>1, <2>2
<1>3. ASSUME HandleCookie
      PROVE  DOMAIN cookie' = CookieFields
  <2>1. PICK v : cookie' = [has |-> TRUE, value |-> v, old |-> FALSE]
    BY <1>3 DEF HandleCookie
  <2> QED
    BY <2>1, SMT DEF CookieFields
<1>4. ASSUME \/ \E w \in Slots : HandleResponse(w)
             \/ HandleInit \/ Damage
             \/ \E n : OtherInitiates(n) \/ OtherAnswers(n) \/ OtherSendsCookie(n)
      PROVE  cookie' = cookie
  <2>1. ASSUME NEW w \in Slots, HandleResponse(w) PROVE cookie' = cookie
    BY <2>1 DEF HandleResponse
  <2>2. ASSUME HandleInit PROVE cookie' = cookie
    BY <2>2 DEF HandleInit
  <2>3. ASSUME Damage PROVE cookie' = cookie
    BY <2>3 DEF Damage
  <2>4. ASSUME NEW n, OtherInitiates(n) \/ OtherAnswers(n) \/ OtherSendsCookie(n) PROVE cookie' = cookie
    BY <2>4 DEF OtherInitiates, OtherAnswers, OtherSendsCookie
  <2> QED
    BY <1>4, <2>1, <2>2, <2>3, <2>4
<1> QED
  BY <1>1, <1>2, <1>3, <1>4 DEF NoiseNext, Slots

\* A new message with a mac2 is an initiation of node 1 under the cookie at hand.
CookieStep(z) ==
  \/ z \in net
  \/ /\ z.type = "cookie" /\ z.mac2 = Zero /\ z.from \in {Peer, Stranger}
     /\ z.msg.sealed = Seal(CookieKey(Pub(z.from)), z.msg.sealed[3], z.msg.sealed[4])
  \/ z.type # "cookie" /\ z.mac2 = Zero
  \/ /\ z.type # "cookie" /\ z.from = 1
     /\ cookie.has /\ z.mac2 = WgMac(cookie.value, z.msg.mac1)
\* Every message of every step is of one of these kinds.
LEMMA CookieSteps ==
  ASSUME Shape, CookieInv, NoiseNext
  PROVE  \A z \in net' : CookieStep(z)
<1> USE DEF CookieStep
<1>1. ASSUME NEW w \in Slots, Initiate(w)
      PROVE  \A z \in net' : CookieStep(z)
  <2> DEFINE public == IF w = "tun" THEN peerPublic ELSE Pub(Peer)
             new == Initiation(1, public, fresh + 1, fresh + 2)
             mac2 == IF cookie.has /\ ~cookie.old THEN Mac2(new.msg) ELSE Zero
             x == [type |-> "init", from |-> 1, to |-> public, msg |-> new.msg, mac2 |-> mac2]
  <2>1. net' = net \cup {x}
    BY <1>1 DEF Initiate
  <2>2. /\ x.type = "init" /\ x.from = 1
        /\ x.mac2 = Zero \/ (cookie.has /\ x.mac2 = WgMac(cookie.value, x.msg.mac1))
    BY DEF Mac2
  <2> HIDE DEF x
  <2> QED
    BY <2>1, <2>2
<1>2. ASSUME NEW w \in Slots, HandleResponse(w)
      PROVE  \A z \in net' : CookieStep(z)
  BY <1>2, HandleResponseSlot
<1>3. ASSUME NEW n, NEW x, Takes(n, x)
      PROVE  \A z \in net' : CookieStep(z)
  <2>1. ResponseMessage(n, x).type = "response" /\ ResponseMessage(n, x).mac2 = Zero
    BY DEF ResponseMessage
  <2> QED
    BY <1>3, <2>1 DEF Takes
<1>4. ASSUME HandleInit
      PROVE  \A z \in net' : CookieStep(z)
  BY <1>3, <1>4, HandleInitSlot
<1>5. ASSUME HandleCookie \/ CookieAges
      PROVE  \A z \in net' : CookieStep(z)
  BY <1>5 DEF HandleCookie, CookieAges
<1>6. ASSUME Damage
      PROVE  \A z \in net' : CookieStep(z)
  <2>1. PICK x \in net : /\ x.from # 1 /\ x.type \in {"init", "response"}
                         /\ net' = net \cup {Damaged(x)}
                         /\ Damaged(x).type = x.type /\ Damaged(x).mac2 = x.mac2
    BY <1>6, DamageIs
  <2> QED
    BY <2>1 DEF CookieInv
<1>7. ASSUME NEW n, OtherInitiates(n)
      PROVE  \A z \in net' : CookieStep(z)
  <2> DEFINE new == Initiation(n, Pub(1), fresh + 1, fresh + 2)
             x == [type |-> "init", from |-> n, to |-> Pub(1), msg |-> new.msg, mac2 |-> Zero]
  <2>1. net' = net \cup {x}
    BY <1>7 DEF OtherInitiates
  <2>2. x.type = "init" /\ x.mac2 = Zero
    OBVIOUS
  <2> HIDE DEF x
  <2> QED
    BY <2>1, <2>2
<1>8. ASSUME NEW n, OtherAnswers(n)
      PROVE  \A z \in net' : CookieStep(z)
  BY <1>3, <1>8, OtherAnswersIs
<1>9. ASSUME NEW n \in {Peer, Stranger}, OtherSendsCookie(n)
      PROVE  \A z \in net' : CookieStep(z)
  <2>1. PICK x : net' = net \cup {CookieMessage(n, x)}
    BY <1>9, CookieIs
  <2> DEFINE c == CookieMessage(n, x)
             v == <<"cookie", fresh + 1>>
             k == CookieKey(Pub(n))
  <2>2. /\ c.type = "cookie" /\ c.mac2 = Zero /\ c.from = n
        /\ c.msg.sealed = Seal(k, v, x.msg.mac1)
    BY DEF CookieMessage
  <2>3. Seal(k, v, x.msg.mac1)[3] = v /\ Seal(k, v, x.msg.mac1)[4] = x.msg.mac1
    <3> HIDE DEF k, v
    <3> QED  BY TermParts, SMT
  <2> HIDE DEF c, v
  <2> QED
    BY <2>1, <2>2, <2>3 DEF c
<1> QED
  BY <1>1, <1>2, <1>4, <1>5, <1>6, <1>7, <1>8, <1>9 DEF NoiseNext, Slots

\* The cookie at hand and the one under every mac2 were sent by some node, by the
\* tunnel's own peer while peer_public is the one it was made with.
LEMMA CookieInvStep ==
  ASSUME Shape, CookieInv, Mac2Accepted, NoiseNext
  PROVE  CookieInv' /\ Mac2Accepted'
<1>1. net \subseteq net'
  BY ShapeStep DEF Grows
<1>2. \A c \in net' : c.type = "cookie" =>
        /\ c.from \in {Peer, Stranger} /\ c.mac2 = Zero
        /\ c.msg.sealed = Seal(CookieKey(Pub(c.from)), c.msg.sealed[3], c.msg.sealed[4])
  BY CookieSteps DEF CookieStep, CookieInv
<1>3. \A x \in net' : x.from # 1 => x.mac2 = Zero
  BY CookieSteps DEF CookieStep, CookieInv
<1>4. ASSUME cookie'.has
      PROVE  \E c \in net' : /\ c.type = "cookie" /\ c.msg.sealed[3] = cookie'.value
                             /\ ~replaced' => Pub(c.from) = peerPublic'
  <2>1. CASE HandleCookie
    <3>1. PICK x \in net : /\ x.type = "cookie"
                           /\ Opens(CookieKey(peerPublic), x.msg.sealed, slot["tun"].last_mac1)
                           /\ cookie' = [has |-> TRUE, value |-> x.msg.sealed[3], old |-> FALSE]
      BY <2>1 DEF HandleCookie
    <3>2. Pub(x.from) = peerPublic
      BY <3>1, CookieOpens
    <3>3. cookie'.value = x.msg.sealed[3]
      BY <3>1
    <3> QED
      BY <1>1, <3>1, <3>2, <3>3, PeerPublicStep
  <2>2. CASE ~ HandleCookie
    <3>1. cookie.has /\ cookie'.value = cookie.value
      BY <1>4, <2>2, CookieKept DEF CookieInv
    <3>2. PICK c \in net : /\ c.type = "cookie" /\ c.msg.sealed[3] = cookie.value
                           /\ ~replaced => Pub(c.from) = peerPublic
      BY <3>1 DEF CookieInv
    <3> QED
      BY <1>1, <3>1, <3>2, PeerPublicStep
  <2> QED
    BY <2>1, <2>2
<1>5. ASSUME NEW z \in net', z.mac2 # Zero
      PROVE  \E c \in net' : /\ c.type = "cookie" /\ z.mac2 = WgMac(c.msg.sealed[3], z.msg.mac1)
                             /\ ~replaced' => Pub(c.from) = peerPublic'
  <2>1. CASE z \in net
    <3>1. PICK c \in net : /\ c.type = "cookie" /\ z.mac2 = WgMac(c.msg.sealed[3], z.msg.mac1)
                           /\ ~replaced => Pub(c.from) = peerPublic
      BY <1>5, <2>1 DEF Mac2Accepted
    <3> QED
      BY <1>1, <3>1, PeerPublicStep
  <2>2. CASE cookie.has /\ z.mac2 = WgMac(cookie.value, z.msg.mac1)
    <3>1. PICK c \in net : /\ c.type = "cookie" /\ c.msg.sealed[3] = cookie.value
                           /\ ~replaced => Pub(c.from) = peerPublic
      BY <2>2 DEF CookieInv
    <3> QED
      BY <1>1, <2>2, <3>1, PeerPublicStep
  <2> QED
    BY <1>5, <2>1, <2>2, CookieSteps DEF CookieStep
<1> QED
  BY <1>2, <1>3, <1>4, <1>5, CookieKept DEF CookieInv, Mac2Accepted

-----------------------------------------------------------------------------
(* Theorems. *)

\* A step that changes nothing keeps the invariant.
LEMMA NoiseStutter ==
  ASSUME NoiseInv, UNCHANGED noiseVars
  PROVE  NoiseInv'
<1> USE DEF noiseVars
<1>1. Shape' /\ HsInv'
  BY DEF NoiseInv, Shape, HsInv, Live
<1>2. AnswersInv'
  BY AnswersKept DEF NoiseInv, AnswersInv, Responders
<1>3. RespondersInv' /\ InitiatorsInv'
  BY DEF NoiseInv, RespondersInv, InitiatorsInv, Responders, Initiators, Live
<1>4. CookieInv' /\ Mac2Accepted'
  BY DEF NoiseInv, CookieInv, Mac2Accepted
<1>5. PeerHasKeys'
  BY DEF NoiseInv, KeysAgree, PeerHasKeys
<1>6. RemoteOfKeys'
  BY DEF NoiseInv, KeysAgree, RemoteOfKeys
<1> QED
  BY <1>1, <1>2, <1>3, <1>4, <1>5, <1>6 DEF NoiseInv, KeysAgree

\* The inductive invariant holds of every behaviour of wg_handshake_init,
\* wg_handshake_init_process, wg_handshake_response and wg_process_cookie_reply.
THEOREM NoiseInvariant == NoiseSpec => []NoiseInv
<1>1. NoiseInit => NoiseInv
  <2> SUFFICES ASSUME NoiseInit PROVE NoiseInv
    OBVIOUS
  <2>1. /\ slot = [w \in Slots |-> NoSlot] /\ cookie = NoCookie /\ net = {} /\ shared = {} /\ fresh = 10
    BY DEF NoiseInit, Slots
  <2>2. /\ DOMAIN slot = Slots
        /\ \A w \in Slots : slot[w] = NoSlot
    BY <2>1
  <2>3. DOMAIN NoSlot = SlotFields /\ NoSlot.hs = NoHs /\ ~ NoSlot.valid
    BY SMT DEF NoSlot, SlotFields
  <2>4. \A w \in Slots : ~ Live(w) /\ ~ slot[w].valid
    <3>1. ~ NoHs.on
      BY SMT DEF NoHs
    <3> QED
      BY <2>2, <2>3, <3>1 DEF Live
  <2>5. Shape
    BY <2>1, <2>2, <2>3, SMT DEF Shape
  <2>6. DOMAIN cookie = CookieFields /\ ~ cookie.has
    BY <2>1, SMT DEF NoCookie, CookieFields
  <2>7. CookieInv /\ Mac2Accepted
    BY <2>1, <2>6 DEF CookieInv, Mac2Accepted
  <2>8. HsInv /\ AnswersInv
    BY <2>1, <2>4 DEF HsInv, AnswersInv
  <2>9. RespondersInv /\ InitiatorsInv
    BY <2>1, <2>4 DEF RespondersInv, InitiatorsInv, Responders, Initiators
  <2>10. KeysAgree
    BY <2>1, <2>4 DEF KeysAgree, PeerHasKeys, RemoteOfKeys, Slots
  <2> QED
    BY <2>5, <2>7, <2>8, <2>9, <2>10 DEF NoiseInv
<1>2. NoiseInv /\ [NoiseNext]_noiseVars => NoiseInv'
  <2> SUFFICES ASSUME NoiseInv, [NoiseNext]_noiseVars PROVE NoiseInv'
    OBVIOUS
  <2>1. CASE NoiseNext
    BY <2>1, ShapeStep, HsInvStep, AnswersInvStep, RespondersInvStep, InitiatorsInvStep, CookieInvStep,
       KeysAgreeStep DEF NoiseInv
  <2>2. CASE UNCHANGED noiseVars
    BY <2>2, NoiseStutter
  <2> QED
    BY <2>1, <2>2
<1> QED
  BY <1>1, <1>2, PTL DEF NoiseSpec

\* When node 1 completes a handshake, the node it addressed has the same two
\* keys, swapped, and each end knows the other's index; the remote index of a
\* valid session came with its keys.  For any number of initiations, responses,
\* losses, repetitions and damaged messages, with and without preshared key.
THEOREM HandshakeAgreement == NoiseSpec => []KeysAgree
<1>1. NoiseInv => KeysAgree
  BY DEF NoiseInv
<1> QED
  BY <1>1, NoiseInvariant, PTL

\* Two sessions have a key in common only if they are the two ends of one
\* handshake: no counter restarts under a key already used.
THEOREM HandshakeFreshness == NoiseSpec => []KeysFresh
<1>1. NoiseInv => KeysFresh
  <2> SUFFICES ASSUME NoiseInv, NEW s \in shared, NEW t \in shared, s # t,
                      {s.send, s.recv} \cap {t.send, t.recv} # {}
               PROVE  s.role # t.role /\ s.local = t.remote /\ s.remote = t.local
    BY DEF KeysFresh
  <2> USE DEF NoiseInv
  <2>1. /\ s \in Initiators \/ s \in Responders
        /\ t \in Initiators \/ t \in Responders
    BY DEF Shape, Initiators, Responders
  <2>2. ASSUME NEW a \in shared, a \in Initiators \/ a \in Responders
        PROVE  Chain(a.send) = Chain(a.recv)
    BY <2>2, KdfParts, SMT DEF InitiatorsInv, RespondersInv
  <2>3. Chain(s.send) = Chain(t.send)
    BY <2>1, <2>2
  <2>4. ASSUME NEW a \in Responders, NEW b \in Responders, Chain(a.send) = Chain(b.send)
        PROVE  a = b
    <3>1. Pub(a.local - 1) = Pub(b.local - 1)
      BY <2>4 DEF RespondersInv, RespEph
    <3>2. a.local - 1 = b.local - 1
      BY <3>1, PubParts
    <3>3. a.local \in 0 .. fresh /\ b.local \in 0 .. fresh
      BY DEF RespondersInv
    <3>4. a.local = b.local
      BY <3>2, <3>3, SMT
    <3> QED
      BY <3>4 DEF RespondersInv
  <2>5. ASSUME NEW a \in Initiators, NEW b \in Initiators, Chain(a.send) = Chain(b.send)
        PROVE  a = b
    BY <2>5 DEF InitiatorsInv, InitEph, HsChain
  <2>6. ASSUME NEW a \in Initiators, NEW b \in Responders, Chain(a.send) = Chain(b.send)
        PROVE  a.role # b.role /\ a.local = b.remote /\ a.remote = b.local
    <3>1. PICK r \in shared : /\ r.role = "responder" /\ r.send = a.recv
                              /\ r.local = a.remote /\ r.remote = a.local
      BY DEF KeysAgree, PeerHasKeys, InitiatorsInv, Initiators
    <3>2. r \in Responders /\ Chain(r.send) = Chain(b.send)
      BY <2>2, <2>6, <3>1 DEF Responders, Initiators
    <3>3. r = b
      BY <2>4, <3>2
    <3> QED
      BY <3>1, <3>3 DEF Responders, Initiators
  <2> QED
    BY <2>1, <2>3, <2>4, <2>5, <2>6
<1> QED
  BY <1>1, NoiseInvariant, PTL

\* A mac2 that wg_handshake_init or wg_handshake_init_peer writes is made over the
\* message up to mac1 with a cookie that was sent to node 1, by the tunnel's own peer
\* as long as no unknown initiator has replaced peer_public.
THEOREM CookieAccepted == NoiseSpec => []Mac2Accepted
<1>1. NoiseInv => Mac2Accepted
  BY DEF NoiseInv
<1> QED
  BY <1>1, NoiseInvariant, PTL
==============================================================================
