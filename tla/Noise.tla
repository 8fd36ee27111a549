-------------------------------- MODULE Noise --------------------------------
(***************************************************************************)
(* The Noise_IKpsk2 handshake of src/wg_noise.c with the key derivation of *)
(* src/wg_crypto.c: what the messages contain, which keys come out, what a *)
(* cookie is for.  Hashes, ciphers and curve points are terms: two are the *)
(* same exactly when they were made the same way, except that X25519       *)
(* commutes.  Tunnel and Peers model when these functions are called.      *)
(*                                                                         *)
(* Node 1 is this program, with Peer in its peer table (wg_add_peer) and   *)
(* Peer or Stranger as the tunnel's own peer (wg_init).  The other nodes   *)
(* run the same responder code and initiate too.  A message once sent may  *)
(* arrive any number of times, late, or never.                             *)
(***************************************************************************)
EXTENDS Integers, Sequences, FiniteSets

CONSTANTS Peer, Stranger,   \* the numbers of two other nodes
          Psks,             \* assignments of a preshared key (0: none) to the nodes
          Budgets           \* records: how many initiations of node 1 (init) and of others
                            \* (other), responses of each node (answer), damaged
                            \* messages (damage) and cookie replies (cookie) there are

VARIABLES psk,        \* has_psk / preshared_key of every node
          slot,       \* tun and the WgPeer of Peer: hs, last_mac1 and session
          peerPublic, \* tun->peer_public
          cookie,     \* tun->has_cookie, cookie, and whether it is old
          net,        \* every message sent so far
          shared,     \* sessions that exist: who, with whom, indices and keys
          fresh,      \* the last secret or index chosen
          left,       \* what remains of the budget
          refused,    \* some response did not decrypt
          replaced    \* some initiator's key has replaced another peer_public

noiseVars == <<psk, slot, peerPublic, cookie, net, shared, fresh, left, refused, replaced>>

-----------------------------------------------------------------------------
(* Terms. *)

Pub(n) == <<"pub", n>>
Zero == <<"zero">>
Empty == <<"empty">>
X25519(private, public) ==
  LET n == public[2] IN IF private < n THEN <<"dh", private, n>> ELSE <<"dh", n, private>>
WgHash(a) == <<"hash", a>>
WgHash2(a, b) == <<"hash2", a, b>>
WgMac(key, data) == <<"mac", key, data>>
WgHmac(key, data) == <<"hmac", key, data>>
Seal(key, plain, ad) == <<"seal", key, plain, ad>>
Opens(key, cipher, ad) == cipher[1] = "seal" /\ cipher[2] = key /\ cipher[4] = ad

\* wg_kdf1, wg_kdf2 and wg_kdf3 have their outputs in common.
Kdf1(key, input) == WgHmac(WgHmac(key, input), <<"byte", 1>>)
Kdf2(key, input) == WgHmac(WgHmac(key, input), <<"cat", Kdf1(key, input), 2>>)
Kdf3(key, input) == WgHmac(WgHmac(key, input), <<"cat", Kdf2(key, input), 3>>)

MixHash(s, data) == [s EXCEPT !.hash = WgHash2(s.hash, data)]
MixKey(s, input) == [s EXCEPT !.ck = Kdf1(s.ck, input)]

InitState(public, eph) ==
  LET ck == WgHash(<<"construction">>)
  IN  MixHash([ck |-> ck, hash |-> WgHash2(ck, <<"identifier">>), eph |-> eph, on |-> TRUE], public)
NoHs == [ck |-> Zero, hash |-> Zero, eph |-> 0, on |-> FALSE]
\* A state a refused response was mixed into: it fits no message any more.
Spoiled == [NoHs EXCEPT !.on = TRUE]

Mac1(public, body) == WgMac(WgHash2(<<"mac1----">>, public), body)
CookieKey(public) == WgHash2(<<"cookie--">>, public)

-----------------------------------------------------------------------------
(* Messages. *)

\* The part wg_handshake_init and wg_handshake_init_peer share: message
\* (without mac2) and state of an initiation by node me.
Initiation(me, public, eph, index) ==
  LET s1 == MixKey(MixHash(InitState(public, eph), Pub(eph)), Pub(eph))
      es == X25519(eph, public)
      static == Seal(Kdf2(s1.ck, es), Pub(me), s1.hash)
      s2 == MixHash(MixKey(s1, es), static)
      ss == X25519(me, public)
      stamp == Seal(Kdf2(s2.ck, ss), <<"time", eph>>, s2.hash)
      body == <<index, Pub(eph), static, stamp>>
  IN  [msg |-> [type |-> "init", sender |-> index, eph |-> Pub(eph), static |-> static, stamp |-> stamp,
                mac1 |-> Mac1(public, body)],
       state |-> MixHash(MixKey(s2, ss), stamp)]

\* The tokens e, ee, se and psk of the response, from either end; eph is the
\* responder's ephemeral, ee and se what this end computes.  key seals.
Answered(s, eph, ee, se, preshared) ==
  LET s1 == MixKey(MixKey(MixKey(MixHash(s, eph), eph), ee), se)
      input == IF preshared = 0 THEN Zero ELSE <<"psk", preshared>>
  IN  [state |-> MixHash(MixKey(s1, input), Kdf2(s1.ck, input)), key |-> Kdf3(s1.ck, input)]

\* wg_handshake_init_process at node me, up to the keys: what it decrypts,
\* and the response it builds with ephemeral eph and index.
Processed(me, m, eph, index) ==
  LET s1 == MixKey(MixHash(InitState(Pub(me), 0), m.eph), m.eph)
      es == X25519(me, m.eph)
      static == m.static[3]
      s2 == MixHash(MixKey(s1, es), m.static)
      ss == X25519(me, static)
      s3 == MixHash(MixKey(s2, ss), m.stamp)
      ans == Answered(s3, Pub(eph), X25519(eph, m.eph), X25519(eph, static), psk[me])
      nothing == Seal(ans.key, Empty, ans.state.hash)
      body == <<index, m.sender, Pub(eph), nothing>>
  IN  [macOk |-> m.mac1 = Mac1(Pub(me), <<m.sender, m.eph, m.static, m.stamp>>),
       ok |-> /\ Opens(Kdf2(s1.ck, es), m.static, s1.hash)
              /\ Opens(Kdf2(s2.ck, ss), m.stamp, s2.hash),
       from |-> static,
       msg |-> [type |-> "response", sender |-> index, receiver |-> m.sender, eph |-> Pub(eph),
                nothing |-> nothing, mac1 |-> Mac1(static, body)],
       recv |-> Kdf1(ans.state.ck, Empty), send |-> Kdf2(ans.state.ck, Empty)]

\* Mutation of Process: the responder takes its keys in the initiator's order.
ProcessNoSwap(me, m, eph, index) ==
  LET p == Processed(me, m, eph, index) IN [p EXCEPT !.recv = p.send, !.send = p.recv]
\* Mutation of Process: the responder's ephemeral is its static key.
ProcessSameEphemeral(me, m, eph, index) == Processed(me, m, me, index)
Process(me, m, eph, index) == Processed(me, m, eph, index)

-----------------------------------------------------------------------------
(* Node 1. *)

NoSlot == [hs |-> NoHs, last_mac1 |-> Zero, local |-> 0, remote |-> 0, valid |-> FALSE,
           send |-> Zero, recv |-> Zero, toward |-> Zero]
NoCookie == [has |-> FALSE, value |-> Zero, old |-> FALSE]

NoiseInit ==
  /\ psk \in Psks
  /\ slot = [w \in {"tun", "peer"} |-> NoSlot]
  /\ peerPublic \in {Pub(Peer), Pub(Stranger)}
  /\ cookie = NoCookie
  /\ net = {} /\ shared = {} /\ refused = FALSE /\ replaced = FALSE
  /\ fresh = 10
  /\ \E b \in Budgets : left = [b EXCEPT !.answer = [n \in {1, Peer, Stranger} |-> b.answer]]

\* Mutation of Mac2: it covers only part of the message.
Mac2Short(init) == WgMac(cookie.value, init.static)
\* mac2 of an initiation: under a cookie younger than WG_COOKIE_SECRET_MAX_AGE.
Mac2(init) == WgMac(cookie.value, init.mac1)

\* wg_handshake_init ("tun", which also wipes an old cookie) and
\* wg_handshake_init_peer ("peer", which leaves it).
Initiate(w) ==
  LET public == IF w = "tun" THEN peerPublic ELSE Pub(Peer)
      new == Initiation(1, public, fresh + 1, fresh + 2)
      mac2 == IF cookie.has /\ ~cookie.old THEN Mac2(new.msg) ELSE Zero
  IN  /\ left.init > 0
      /\ left' = [left EXCEPT !.init = @ - 1]
      /\ fresh' = fresh + 2
      /\ slot' = [slot EXCEPT ![w].hs = new.state, ![w].last_mac1 = new.msg.mac1,
                              ![w].local = fresh + 2, ![w].toward = public]
      /\ cookie' = IF w = "tun" /\ cookie.old THEN NoCookie ELSE cookie
      /\ net' = net \cup {[type |-> "init", from |-> 1, to |-> public, msg |-> new.msg, mac2 |-> mac2]}
      /\ UNCHANGED <<psk, peerPublic, replaced, shared, refused>>

\* wg_handshake_response and wg_handshake_init_process_response.  The caller of
\* the first wipes the state after any failure, of the second after none.
Completed(w, m, ans) ==
  [slot[w] EXCEPT !.hs = NoHs, !.remote = m.sender, !.valid = TRUE,
                  !.send = Kdf1(ans.state.ck, Empty), !.recv = Kdf2(ans.state.ck, Empty)]

\* The receiver index is checked before anything is written.
Misdirected(w, m) == [slot EXCEPT ![w].hs = NoHs]

HandleResponse(w) ==
  \E x \in net :
    LET m == x.msg
        hs == slot[w].hs
        ans == Answered(hs, m.eph, X25519(hs.eph, m.eph), X25519(1, m.eph), psk[1])
        done == Completed(w, m, ans)
    IN  /\ x.type = "response" /\ hs.on
        /\ w = "peer" => m.receiver = slot[w].local /\ ~slot[w].valid
        /\ IF m.receiver # slot[w].local
           THEN slot' = Misdirected(w, m) /\ UNCHANGED <<shared, refused>>
           ELSE IF Opens(ans.key, m.nothing, ans.state.hash)
           THEN /\ slot' = [slot EXCEPT ![w] = done]
                /\ shared' = shared \cup {[who |-> 1, role |-> "initiator", with |-> done.toward,
                     local |-> done.local, remote |-> done.remote, send |-> done.send, recv |-> done.recv]}
                /\ UNCHANGED refused
           ELSE /\ slot' = [slot EXCEPT ![w].remote = m.sender,
                                        ![w].hs = IF w = "tun" THEN NoHs ELSE Spoiled]
                /\ refused' = TRUE
                /\ UNCHANGED shared
        /\ UNCHANGED <<psk, peerPublic, replaced, cookie, net, fresh, left>>

\* wg_handshake_init_process.  The session of an unknown initiator replaces
\* the tunnel's, and its key the tunnel's peer_public.  An initiation that does
\* not decrypt leaves its mac1 in last_mac1.
HandleInit ==
  \E x \in net :
    LET m == x.msg
        p == Process(1, m, fresh + 1, fresh + 2)
        w == IF p.from = Pub(Peer) THEN "peer" ELSE "tun"
        mac1 == IF p.ok THEN p.msg.mac1 ELSE m.mac1
        new == [slot EXCEPT !["tun"].last_mac1 = mac1]
    IN  /\ x.type = "init" /\ p.macOk
        /\ left.answer[1] > 0
        /\ left' = [left EXCEPT !.answer[1] = @ - 1]
        /\ fresh' = fresh + 2
        /\ IF p.ok
           THEN /\ slot' = [new EXCEPT ![w] = [@ EXCEPT !.last_mac1 = mac1, !.local = fresh + 2,
                              !.remote = m.sender, !.valid = TRUE, !.send = p.send, !.recv = p.recv]]
                /\ peerPublic' = IF w = "tun" THEN p.from ELSE peerPublic
                /\ replaced' = (replaced \/ peerPublic' # peerPublic)
                /\ shared' = shared \cup {[who |-> 1, role |-> "responder", with |-> p.from,
                     local |-> fresh + 2, remote |-> m.sender, send |-> p.send, recv |-> p.recv]}
                /\ net' = net \cup {[type |-> "response", from |-> 1, to |-> p.from, msg |-> p.msg, mac2 |-> Zero]}
           ELSE slot' = new /\ UNCHANGED <<peerPublic, replaced, shared, net>>
        /\ UNCHANGED <<psk, cookie, refused>>

\* wg_process_cookie_reply.
HandleCookie ==
  \E x \in net :
    /\ x.type = "cookie"
    /\ x.msg.receiver = slot["tun"].local
    /\ Opens(CookieKey(peerPublic), x.msg.sealed, slot["tun"].last_mac1)
    /\ cookie' = [has |-> TRUE, value |-> x.msg.sealed[3], old |-> FALSE]
    /\ UNCHANGED <<psk, slot, peerPublic, replaced, net, shared, fresh, left, refused>>

\* WG_COOKIE_SECRET_MAX_AGE passes.
CookieAges ==
  /\ cookie.has /\ ~cookie.old
  /\ cookie' = [cookie EXCEPT !.old = TRUE]
  /\ UNCHANGED <<psk, slot, peerPublic, replaced, net, shared, fresh, left, refused>>

-----------------------------------------------------------------------------
(* The other nodes and the network. *)

OtherInitiates(n) ==
  LET new == Initiation(n, Pub(1), fresh + 1, fresh + 2)
  IN  /\ left.other > 0
      /\ left' = [left EXCEPT !.other = @ - 1]
      /\ fresh' = fresh + 2
      /\ net' = net \cup {[type |-> "init", from |-> n, to |-> Pub(1), msg |-> new.msg, mac2 |-> Zero]}
      /\ UNCHANGED <<psk, slot, peerPublic, replaced, cookie, shared, refused>>

OtherAnswers(n) ==
  \E x \in net :
    LET p == Process(n, x.msg, fresh + 1, fresh + 2)
    IN  /\ x.type = "init" /\ p.macOk /\ p.ok
        /\ left.answer[n] > 0
        /\ left' = [left EXCEPT !.answer[n] = @ - 1]
        /\ fresh' = fresh + 2
        /\ shared' = shared \cup {[who |-> n, role |-> "responder", with |-> p.from, local |-> fresh + 2,
                                   remote |-> x.msg.sender, send |-> p.send, recv |-> p.recv]}
        /\ net' = net \cup {[type |-> "response", from |-> n, to |-> p.from, msg |-> p.msg, mac2 |-> Zero]}
        /\ UNCHANGED <<psk, slot, peerPublic, replaced, cookie, refused>>

\* A node under load answers a message of node 1 with a cookie.
OtherSendsCookie(n) ==
  \E x \in net :
    /\ x.from = 1 /\ x.type # "cookie" /\ x.to = Pub(n)
    /\ left.cookie > 0
    /\ left' = [left EXCEPT !.cookie = @ - 1]
    /\ fresh' = fresh + 1
    /\ net' = net \cup {[type |-> "cookie", from |-> n, to |-> Pub(1), mac2 |-> Zero,
                         msg |-> [receiver |-> x.msg.sender,
                                  sealed |-> Seal(CookieKey(Pub(n)), <<"cookie", fresh + 1>>, x.msg.mac1)]]}
    /\ UNCHANGED <<psk, slot, peerPublic, replaced, cookie, shared, refused>>

\* A message of another node reaches node 1 with contents that do not decrypt, and
\* with a mac1 that fits them (its key is a hash of a public key).
Damage ==
  \E x \in net :
    LET m == x.msg
        bad == Seal(Zero, Empty, Zero)
    IN  /\ x.from # 1
        /\ left.damage > 0
        /\ left' = [left EXCEPT !.damage = @ - 1]
        /\ \/ /\ x.type = "response"
              /\ net' = net \cup {[x EXCEPT !.msg.nothing = bad, !.msg.sender = 0]}
           \/ /\ x.type = "init"
              /\ net' = net \cup {[x EXCEPT !.msg.stamp = bad,
                                            !.msg.mac1 = Mac1(Pub(1), <<m.sender, m.eph, m.static, bad>>)]}
        /\ UNCHANGED <<psk, slot, peerPublic, replaced, cookie, shared, fresh, refused>>

NoiseNext ==
  \/ \E w \in {"tun", "peer"} : Initiate(w) \/ HandleResponse(w)
  \/ HandleInit \/ HandleCookie \/ CookieAges \/ Damage
  \/ \E n \in {Peer, Stranger} : OtherInitiates(n) \/ OtherAnswers(n) \/ OtherSendsCookie(n)

NoiseSpec == NoiseInit /\ [][NoiseNext]_noiseVars

-----------------------------------------------------------------------------
\* When node 1 completes a handshake it started, the node it addressed has the
\* same two keys, swapped, took the initiation to be node 1's, and each end
\* knows the other's index: wg_handshake_init, _init_process and _response
\* agree, with and without preshared key, whatever is lost, late or repeated.
PeerHasKeys ==
  \A s \in shared : (s.who = 1 /\ s.role = "initiator") =>
    \E r \in shared : /\ r.role = "responder" /\ s.with = Pub(r.who) /\ r.with = Pub(1)
                      /\ r.send = s.recv /\ r.recv = s.send
                      /\ r.local = s.remote /\ r.remote = s.local

\* A valid session has the remote index that came with its keys, unless a
\* response was refused: remote_index is written before the response is
\* known to decrypt.
RemoteOfKeys ==
  \A w \in {"tun", "peer"} : (slot[w].valid /\ ~refused) =>
    \E s \in shared : s.who = 1 /\ s.send = slot[w].send /\ s.remote = slot[w].remote

\* A handshake that node 1 completes has given its peer the same keys, and its
\* session has the remote index these keys came with.
KeysAgree == PeerHasKeys /\ RemoteOfKeys

\* Two sessions have a key in common only if they are the two ends of one
\* handshake; so no counter starts again from 0 under a key already used
\* (session.sending_counter = 0 in every one of the three functions).
KeysFresh ==
  \A s, t \in shared :
    (s # t /\ {s.send, s.recv} \cap {t.send, t.recv} # {}) =>
      s.role # t.role /\ s.local = t.remote /\ s.remote = t.local

\* A mac2 that node 1 puts on an initiation is made over the message up to mac1,
\* with a cookie that some node sent it; until the key of an unknown initiator
\* replaces peer_public, with one of the tunnel's own peer, who so accepts the
\* initiations of wg_handshake_init.  wg_handshake_init_peer uses the same cookie,
\* so a table peer that is another node than the tunnel's gets a mac2 it did not
\* ask for; and a cookie outlives the peer_public it came from.
Mac2Accepted ==
  \A x \in net : x.mac2 # Zero =>
    \E c \in net : /\ c.type = "cookie" /\ x.mac2 = WgMac(c.msg.sealed[3], x.msg.mac1)
                   /\ ~replaced => Pub(c.from) = peerPublic
=============================================================================
