------------------------------- MODULE Tunnel -------------------------------
(***************************************************************************)
(* The session of a tunnel with one peer: wg_connect and wg_rekey          *)
(* (src/wireguard.c) and the handshake functions they call                 *)
(* (src/wg_noise.c) on the application's control thread, the receive       *)
(* thread that matches a packet to a session, decrypts it and checks its   *)
(* counter, an application thread in wg_send, and the keepalive thread     *)
(* that wipes an old session.  None of the writers of tun->session holds a *)
(* lock the others take, so each function is cut into steps wherever       *)
(* another thread reads or writes the same fields.                         *)
(*                                                                         *)
(* A handshake is named by the index of its initiation and the index of    *)
(* its response, both fresh; the network loses, duplicates, delays and     *)
(* reorders: net only grows and any message of it may be received.         *)
(***************************************************************************)
EXTENDS Integers, FiniteSets

CONSTANTS WG_MAX_TIMER_HANDSHAKES,   \* attempts per call
          WG_REJECT_AFTER_MESSAGES,  \* wg_send refuses from this counter on
          MaxIndex,                  \* bound: indices when an initiation comes in
          Scenarios                  \* records: the bounds max on calls of wg_connect and
                                     \* wg_rekey and data on packets the peer sends per
                                     \* key, and env, what else happens

\* "send": another thread is in wg_send while wg_connect or wg_rekey runs;
\* "initiate": the peer starts handshakes too; "cookie": it may answer with a
\* cookie reply; "refuse": its response may be one that does not decrypt;
\* "foreign": an initiation arrives that does not decrypt (a peer configured with
\* other keys); "age": time passes; "stop": wg_stop and a further wg_connect.
Behaviours == {"send", "initiate", "cookie", "refuse", "foreign", "age", "stop"}

ASSUME TunnelAssumption ==
  /\ WG_MAX_TIMER_HANDSHAKES \in Nat \ {0}
  /\ WG_REJECT_AFTER_MESSAGES \in Nat \ {0}
  /\ MaxIndex \in Nat
  /\ Scenarios \subseteq [env : SUBSET Behaviours, max : Nat, data : Nat]

VARIABLES
  session, prev,   \* tun->session and tun->prev_session
  started,         \* tun->running: the two threads exist
  pending,         \* pending_response, NoMsg when pending_response_len is 0
  cookie,          \* pending_cookie
  pc,              \* the control, receive and sending threads
  call,            \* the control thread's call: its locals
  hs,              \* the handshake a thread is completing: its two indices
  rx,              \* the receive thread's packet and its pointer sess
  tx,              \* receiver index, counter (and ghost owner) of a packet
                   \* between loading the counter and encrypting, per thread
  net,             \* every message sent so far
  nextId,          \* the next random index
  peerKey,         \* the key the peer sends with
  peerSent,        \* and its counter
  scene,           \* the scenario and the calls made so far: [env, max, data, calls]
  delivered,       \* history: packets handed over
  reused,          \* history: a key and counter encrypted twice
  duplicated,      \* history: a packet handed over twice
  raced            \* history: what two threads have done at the same time, see below

vars == <<session, prev, started, pending, cookie, pc, call, hs, rx, tx, net,
          nextId, peerKey, peerSent, scene, delivered, reused, duplicated, raced>>

Threads == {"ctl", "recv", "app"}
peerVars == <<peerKey, peerSent>>
history  == <<delivered, reused, duplicated, raced>>

\* The members of raced.  The name of a call: its keepalive and a wg_send were both
\* between the load and the store of sending_counter++.  "key": a packet was
\* encrypted with another key than the one its counter was counted for.
\* "window": a packet was checked against another window than its key's.
Races == {"wg_connect", "wg_rekey", "key", "window"}

-----------------------------------------------------------------------------
(* Keys, sessions and messages. *)

\* wg_kdf2 of the final chaining key: its first (d = 1) and second (d = 2)
\* output for the handshake <<i, r>>.
Kdf2(i, r, d) == [i |-> i, r |-> r, d |-> d]
NoKey == Kdf2(0, 0, 0)

\* A wiped WgSession.  age is the time since last_handshake: 1 from
\* WG_REJECT_AFTER_TIME, 2 from three times that; replay is the set of
\* counters the window has seen.  owner and counted are ghosts: the receiving
\* key for which replay, respectively sending_counter, was last reset; NoKey from
\* the copy to prev_session, respectively the change of keys, to the next reset.
ZeroSession ==
  [sending_key |-> NoKey, receiving_key |-> NoKey, sending_counter |-> 0,
   local_index |-> 0, old_local_index |-> 0, remote_index |-> 0, age |-> 2,
   valid |-> FALSE, rekey_in_progress |-> FALSE, replay |-> {},
   owner |-> NoKey, counted |-> NoKey]

\* Handshake messages; ok says that it decrypts under the receiver's keys.
InitMsg(from, s, ok) == [type |-> "init", from |-> from, sender |-> s, ok |-> ok]
ResponseMsg(from, s, to, ok) ==
  [type |-> "response", from |-> from, sender |-> s, receiver |-> to, ok |-> ok]
CookieMsg(to) == [type |-> "cookie", from |-> "peer", receiver |-> to]

\* A transport packet; owner is the ghost counted taken along with the counter.
DataMsg(from, to, key, ctr, owner) ==
  [type |-> "data", from |-> from, receiver |-> to, key |-> key,
   counter |-> ctr, owner |-> owner]
NoMsg == [type |-> "none"]

\* The locals of a thread that is building or reading no packet.
NoTx == [receiver |-> 0, counter |-> 0, owner |-> NoKey]
NoRx == [msg |-> NoMsg, sess |-> "none"]

ToTunnel == {m \in net : m.from = "peer"}

\* The ghosts after thread t's reset: its key, unless the other thread's
\* handshake has replaced that key in the meantime.
OwnerAfter(t) ==
  LET k == session.receiving_key
  IN IF <<k.i, k.r>> = hs[t] THEN k ELSE NoKey

\* The other half of a key: what the peer of a session uses it with.
Pair(k) == Kdf2(k.i, k.r, 3 - k.d)

\* The index this side gave to the handshake whose receiving key is k, and
\* the peer's.
LocalOf(k)  == IF k.d = 2 THEN k.i ELSE k.r
RemoteOf(k) == IF k.d = 2 THEN k.r ELSE k.i

Init ==
  /\ session = ZeroSession /\ prev = ZeroSession
  /\ started = FALSE
  /\ pending = NoMsg /\ cookie = FALSE
  /\ pc = [t \in Threads |-> IF t = "recv" THEN "off" ELSE "idle"]
  /\ call = [name |-> "none", attempt |-> 0, err |-> "WG_OK", state |-> 0,
             saved_local_index |-> 0, key |-> NoKey]
  /\ hs = [t \in Threads |-> <<0, 0>>]
  /\ rx = NoRx
  /\ tx = [t \in Threads |-> NoTx]
  /\ net = {} /\ nextId = 1
  /\ peerKey = NoKey /\ peerSent = 0
  /\ \E sc \in Scenarios :
       scene = [env |-> sc.env, max |-> sc.max, data |-> sc.data, calls |-> 0]
  /\ delivered = {} /\ reused = FALSE /\ duplicated = FALSE /\ raced = {}

Goto(t, l) == pc' = [pc EXCEPT ![t] = l]

-----------------------------------------------------------------------------
(* The control thread: the loops of wg_connect and wg_rekey. *)

\* wg_connect, before its loop; the tunnel's threads are not running.
Connect ==
  /\ pc["ctl"] = "idle" /\ ~started /\ scene.calls < scene.max
  /\ session.valid => "stop" \in scene.env
  /\ "send" \in scene.env \/ pc["app"] = "idle"
  /\ scene' = [scene EXCEPT !.calls = @ + 1]
  /\ call' = [call EXCEPT !.name = "wg_connect", !.attempt = 0, !.err = "WG_ERR"]
  /\ Goto("ctl", "attempt")
  /\ UNCHANGED <<session, prev, started, pending, cookie, hs, rx, tx, net, nextId,
                 peerVars, history>>

\* wg_rekey, before its loop.  call.key is a ghost: the key it starts from.
Rekey ==
  /\ pc["ctl"] = "idle" /\ started /\ scene.calls < scene.max
  /\ "send" \in scene.env \/ pc["app"] = "idle"
  /\ scene' = [scene EXCEPT !.calls = @ + 1]
  /\ call' = [call EXCEPT !.name = "wg_rekey", !.attempt = 0, !.err = "WG_ERR",
                          !.saved_local_index = session.local_index,
                          !.key = session.receiving_key]
  /\ pending' = NoMsg
  /\ Goto("ctl", "attempt")
  /\ UNCHANGED <<session, prev, started, cookie, hs, rx, tx, net, nextId,
                 peerVars, history>>

\* The head of either loop and wg_handshake_init.
HandshakeInit ==
  /\ pc["ctl"] = "attempt"
  /\ IF call.name = "wg_rekey"
       THEN pending' = NoMsg /\ cookie' = FALSE
       ELSE UNCHANGED <<pending, cookie>>
  /\ session' = [session EXCEPT !.old_local_index = session.local_index,
                                !.local_index = nextId,
                                !.rekey_in_progress = TRUE]
  /\ call' = [call EXCEPT !.state = nextId, !.err = "WG_OK"]
  /\ nextId' = nextId + 1
  /\ Goto("ctl", "send")
  /\ UNCHANGED <<prev, started, hs, rx, tx, net, peerVars, scene, history>>

\* The initiation goes out, or sending fails and the loop ends.
SendInit ==
  /\ pc["ctl"] = "send"
  /\ call.name = "wg_rekey" => pc["app"] \notin {"store", "encrypt"}
  /\ \/ /\ net' = net \cup {InitMsg("tun", call.state, TRUE)}
        /\ cookie' = (call.name = "wg_rekey" /\ cookie)
        /\ UNCHANGED call
        /\ Goto("ctl", "wait")
     \/ /\ call' = [call EXCEPT !.err = "WG_ERR"]
        /\ Goto("ctl", "finish")
        /\ UNCHANGED <<net, cookie>>
  /\ UNCHANGED <<session, prev, started, pending, hs, rx, tx, nextId, peerVars,
                 scene, history>>

\* Mutant of Continue: the loop is left instead.
Break(err) ==
  /\ call' = [call EXCEPT !.err = err]
  /\ Goto("ctl", "finish")

\* "continue": the next attempt, or the end of the loop after the last one.
Continue(err) ==
  /\ call' = [call EXCEPT !.attempt = @ + 1, !.err = err]
  /\ Goto("ctl", IF call.attempt + 1 < WG_MAX_TIMER_HANDSHAKES
                   THEN "attempt" ELSE "finish")

\* No answer within WG_REKEY_TIMEOUT.
Timeout ==
  /\ pc["ctl"] = "wait"
  /\ call.name = "wg_rekey" => pending = NoMsg /\ ~cookie
  /\ Continue("WG_ERR")
  /\ UNCHANGED <<session, prev, started, pending, cookie, hs, rx, tx, net, nextId,
                 peerVars, scene, history>>

\* wg_connect reads the socket itself; its recv_buf stands in pending.  An
\* initiation of the peer is processed here; if it does not decrypt, err keeps
\* the WG_OK of wg_handshake_init.  A cookie reply is too short, a data packet
\* has the wrong type.
ConnectReceive(m) ==
  /\ pc["ctl"] = "wait" /\ call.name = "wg_connect"
  /\ \/ /\ m.type = "response"
        /\ pending' = m
        /\ Goto("ctl", "check")
        /\ UNCHANGED <<call, hs, nextId>>
     \/ /\ m.type = "init" /\ m.ok /\ nextId <= MaxIndex
        /\ hs' = [hs EXCEPT !["ctl"] = <<m.sender, nextId>>]
        /\ nextId' = nextId + 1
        /\ Goto("ctl", "passive_rotate")
        /\ UNCHANGED <<call, pending>>
     \/ /\ m.type = "init" /\ ~m.ok
        /\ Continue(call.err)
        /\ UNCHANGED <<hs, nextId, pending>>
     \/ /\ m.type \in {"cookie", "data"}
        /\ Continue("WG_ERR")
        /\ UNCHANGED <<hs, nextId, pending>>
  /\ UNCHANGED <<session, prev, started, cookie, rx, tx, net, peerVars, scene, history>>

\* wg_rekey sees what the receive thread left for it, a cookie first; after a
\* cookie err keeps the WG_OK of wg_handshake_init.
RekeyWake ==
  /\ pc["ctl"] = "wait" /\ call.name = "wg_rekey"
  /\ \/ /\ cookie
        /\ cookie' = FALSE
        /\ Continue(call.err)
     \/ /\ ~cookie /\ pending # NoMsg
        /\ Goto("ctl", "check")
        /\ UNCHANGED <<cookie, call>>
  /\ UNCHANGED <<session, prev, started, pending, hs, rx, tx, net, nextId, peerVars,
                 scene, history>>

-----------------------------------------------------------------------------
(* wg_handshake_response, on the control thread. *)

\* The index is compared, remote_index is set, and only then is the message
\* decrypted.
ResponseCheck ==
  /\ pc["ctl"] = "check"
  /\ \/ /\ pending.receiver # session.local_index
        /\ Continue("WG_ERR")
        /\ UNCHANGED <<session, hs>>
     \/ /\ pending.receiver = session.local_index
        /\ session' = [session EXCEPT !.remote_index = pending.sender]
        /\ IF pending.ok /\ pending.receiver = call.state
             THEN /\ hs' = [hs EXCEPT !["ctl"] = <<call.state, pending.sender>>]
                  /\ Goto("ctl", "rotate")
                  /\ UNCHANGED call
             ELSE Continue("WG_ERR") /\ UNCHANGED hs
  /\ UNCHANGED <<prev, started, pending, cookie, rx, tx, net, nextId, peerVars,
                 scene, history>>

\* Mutant of ResponseRotate: the old session loses its window.
ResponseRotateClears ==
  /\ pc["ctl"] = "rotate"
  /\ prev' = IF session.valid
               THEN [session EXCEPT !.local_index = session.old_local_index,
                                    !.replay = {}]
               ELSE prev
  /\ session' = [session EXCEPT !.owner = NoKey]
  /\ Goto("ctl", "keys")
  /\ UNCHANGED <<started, pending, cookie, call, hs, rx, tx, net, nextId, peerVars,
                 scene, history>>

\* A valid session becomes prev_session, under old_local_index.
ResponseRotate ==
  /\ pc["ctl"] = "rotate"
  /\ prev' = IF session.valid
               THEN [session EXCEPT !.local_index = session.old_local_index]
               ELSE prev
  /\ session' = [session EXCEPT !.owner = NoKey]
  /\ Goto("ctl", "keys")
  /\ UNCHANGED <<started, pending, cookie, call, hs, rx, tx, net, nextId, peerVars,
                 scene, history>>

ResponseKeys ==
  /\ pc["ctl"] = "keys"
  /\ session' = [session EXCEPT !.sending_key = Kdf2(hs["ctl"][1], hs["ctl"][2], 1),
                                !.receiving_key = Kdf2(hs["ctl"][1], hs["ctl"][2], 2),
                                !.counted = NoKey]
  /\ Goto("ctl", "reset")
  /\ UNCHANGED <<prev, started, pending, cookie, call, hs, rx, tx, net, nextId,
                 peerVars, scene, history>>

\* Mutant of ResponseReset: sending_counter goes on from the old session's.
ResponseResetKeepsCounter ==
  /\ pc["ctl"] = "reset"
  /\ session' = [session EXCEPT !.age = 0, !.valid = TRUE, !.replay = {},
                                !.rekey_in_progress = FALSE]
  /\ call' = [call EXCEPT !.err = "WG_OK"]
  /\ hs' = [hs EXCEPT !["ctl"] = <<0, 0>>]
  /\ Goto("ctl", "finish")
  /\ UNCHANGED <<prev, started, pending, cookie, rx, tx, net, nextId, peerVars,
                 scene, history>>

\* Counters, time, valid, replay and rekey_in_progress; the loop ends.
ResponseReset ==
  /\ pc["ctl"] = "reset"
  /\ session' = [session EXCEPT !.sending_counter = 0, !.age = 0, !.valid = TRUE,
                                !.replay = {}, !.rekey_in_progress = FALSE,
                                !.owner = OwnerAfter("ctl"), !.counted = OwnerAfter("ctl")]
  /\ call' = [call EXCEPT !.err = "WG_OK"]
  /\ hs' = [hs EXCEPT !["ctl"] = <<0, 0>>]
  /\ Goto("ctl", "finish")
  /\ UNCHANGED <<prev, started, pending, cookie, rx, tx, net, nextId, peerVars,
                 scene, history>>

-----------------------------------------------------------------------------
(* wg_handshake_init_process with no peer table, on the control thread in  *)
(* wg_connect and on the receive thread otherwise.                         *)

PassiveRotate(t) ==
  /\ pc[t] = "passive_rotate"
  /\ prev' = IF session.valid THEN session ELSE prev
  /\ session' = [session EXCEPT !.owner = NoKey]
  /\ Goto(t, "passive_keys")
  /\ UNCHANGED <<started, pending, cookie, call, hs, rx, tx, net, nextId, peerVars,
                 scene, history>>

\* The responder swaps the outputs of wg_kdf2.
PassiveKeys(t) ==
  /\ pc[t] = "passive_keys"
  /\ session' = [session EXCEPT !.receiving_key = Kdf2(hs[t][1], hs[t][2], 1),
                                !.sending_key = Kdf2(hs[t][1], hs[t][2], 2),
                                !.counted = NoKey]
  /\ Goto(t, "passive_reset")
  /\ UNCHANGED <<prev, started, pending, cookie, call, hs, rx, tx, net, nextId,
                 peerVars, scene, history>>

\* Counters, both indices, time, valid, rekey_in_progress and replay; then the
\* response is sent.  wg_connect leaves its loop with WG_OK.
PassiveReset(t) ==
  /\ pc[t] = "passive_reset"
  /\ session' = [session EXCEPT !.sending_counter = 0, !.local_index = hs[t][2],
                                !.remote_index = hs[t][1], !.age = 0, !.valid = TRUE,
                                !.rekey_in_progress = FALSE, !.replay = {},
                                !.owner = OwnerAfter(t), !.counted = OwnerAfter(t)]
  /\ net' = net \cup {ResponseMsg("tun", hs[t][2], hs[t][1], TRUE)}
  /\ IF t = "ctl" THEN call' = [call EXCEPT !.err = "WG_OK"] ELSE UNCHANGED call
  /\ hs' = [hs EXCEPT ![t] = <<0, 0>>]
  /\ Goto(t, IF t = "ctl" THEN "finish" ELSE "recv")
  /\ UNCHANGED <<prev, started, pending, cookie, rx, tx, nextId, peerVars, scene,
                 history>>

-----------------------------------------------------------------------------
(* The end of wg_connect and wg_rekey, and wg_send. *)

\* Mutants of ReturnError: the index of the failed attempt stays; the flag stays.
ReturnErrorKeepsIndex ==
  /\ pc["ctl"] = "finish" /\ call.err # "WG_OK"
  /\ session' = [session EXCEPT !.rekey_in_progress = FALSE]
  /\ Goto("ctl", "idle")
  /\ UNCHANGED <<prev, started, pending, cookie, call, hs, rx, tx, net, nextId,
                 peerVars, scene, history>>

ReturnErrorKeepsFlag ==
  /\ pc["ctl"] = "finish" /\ call.err # "WG_OK"
  /\ session' = [session EXCEPT !.local_index = IF call.name = "wg_rekey"
                                                  THEN call.saved_local_index ELSE @]
  /\ Goto("ctl", "idle")
  /\ UNCHANGED <<prev, started, pending, cookie, call, hs, rx, tx, net, nextId,
                 peerVars, scene, history>>

\* An error ends the call: wg_rekey puts the saved index back.
ReturnError ==
  /\ pc["ctl"] = "finish" /\ call.err # "WG_OK"
  /\ session' = [session EXCEPT !.rekey_in_progress = FALSE,
                                !.local_index = IF call.name = "wg_rekey"
                                                  THEN call.saved_local_index ELSE @]
  /\ Goto("ctl", "idle")
  /\ UNCHANGED <<prev, started, pending, cookie, call, hs, rx, tx, net, nextId,
                 peerVars, scene, history>>

\* The receiver index of a packet thread t is building, and the load of
\* sending_counter++.
TakeCounter(t) ==
  /\ tx' = [tx EXCEPT ![t] = [receiver |-> session.remote_index,
                              counter |-> session.sending_counter,
                              owner |-> session.counted]]
  /\ raced' = IF \E u \in Threads \ {t} : pc[u] = "store"
                THEN raced \cup {call.name} ELSE raced

\* The store of sending_counter++.
StoreCounter(t) ==
  /\ pc[t] = "store"
  /\ session' = [session EXCEPT !.sending_counter = tx[t].counter + 1]

Encrypted(key, ctr) ==
  \E m \in net : /\ m.type = "data" /\ m.from = "tun"
                 /\ m.key = key /\ m.counter = ctr

\* Encrypt under the current sending key and send.  The zero key protects nothing,
\* with any counter.
Encrypt(t) ==
  LET key == session.sending_key
      owner == IF Pair(key) = tx[t].owner THEN tx[t].owner ELSE NoKey
  IN /\ net' = net \cup {DataMsg("tun", tx[t].receiver, key, tx[t].counter, owner)}
     /\ reused' = (reused \/ (key # NoKey /\ Encrypted(key, tx[t].counter)))
     /\ raced' = IF key # NoKey /\ Pair(key) # tx[t].owner THEN raced \cup {"key"} ELSE raced
     /\ tx' = [tx EXCEPT ![t] = NoTx]

\* Mutant of KeepaliveCounter: wg_rekey does not take send_mutex either.
KeepaliveCounterUnlocked ==
  /\ pc["ctl"] = "finish" /\ call.err = "WG_OK"
  /\ TakeCounter("ctl")
  /\ Goto("ctl", "store")
  /\ UNCHANGED <<session, prev, started, pending, cookie, call, hs, rx, net, nextId,
                 peerVars, scene, delivered, reused, duplicated>>

\* WG_OK: wg_send_keepalive, under send_mutex in wg_rekey only.
KeepaliveCounter ==
  /\ pc["ctl"] = "finish" /\ call.err = "WG_OK"
  /\ call.name = "wg_rekey" => pc["app"] \notin {"store", "encrypt"}
  /\ TakeCounter("ctl")
  /\ Goto("ctl", "store")
  /\ UNCHANGED <<session, prev, started, pending, cookie, call, hs, rx, net, nextId,
                 peerVars, scene, delivered, reused, duplicated>>

KeepaliveStore ==
  /\ StoreCounter("ctl")
  /\ Goto("ctl", "keepalive")
  /\ UNCHANGED <<prev, started, pending, cookie, call, hs, rx, tx, net, nextId, peerVars,
                 scene, history>>

KeepaliveEncrypt ==
  /\ pc["ctl"] = "keepalive"
  /\ Encrypt("ctl")
  /\ Goto("ctl", "idle")
  /\ UNCHANGED <<session, prev, started, pending, cookie, call, hs, rx, nextId,
                 peerVars, scene, delivered, duplicated>>

\* wg_send: valid and wg_session_expired are read before the lock is taken.
SendCheck ==
  /\ pc["app"] = "idle"
  /\ "send" \in scene.env \/ pc["ctl"] = "idle"
  /\ session.valid /\ session.age = 0
  /\ session.sending_counter < WG_REJECT_AFTER_MESSAGES
  /\ Goto("app", "lock")
  /\ UNCHANGED <<session, prev, started, pending, cookie, call, hs, rx, tx, net,
                 nextId, peerVars, scene, history>>

SendCounter ==
  /\ pc["app"] = "lock"
  /\ call.name = "wg_rekey" => pc["ctl"] \notin {"store", "keepalive"}
  /\ TakeCounter("app")
  /\ Goto("app", "store")
  /\ UNCHANGED <<session, prev, started, pending, cookie, call, hs, rx, net, nextId,
                 peerVars, scene, delivered, reused, duplicated>>

SendStore ==
  /\ StoreCounter("app")
  /\ Goto("app", "encrypt")
  /\ UNCHANGED <<prev, started, pending, cookie, call, hs, rx, tx, net, nextId, peerVars,
                 scene, history>>

SendEncrypt ==
  /\ pc["app"] = "encrypt"
  /\ Encrypt("app")
  /\ Goto("app", "idle")
  /\ UNCHANGED <<session, prev, started, pending, cookie, call, hs, rx, nextId,
                 peerVars, scene, delivered, duplicated>>

-----------------------------------------------------------------------------
(* wg_start and wg_stop, the receive thread and the keepalive thread. *)

Start ==
  /\ pc["ctl"] = "idle" /\ ~started /\ session.valid
  /\ started' = TRUE
  /\ Goto("recv", "recv")
  /\ UNCHANGED <<session, prev, pending, cookie, call, hs, rx, tx, net, nextId,
                 peerVars, scene, history>>

\* wg_stop returns once the receive thread has finished its packet.
Stop ==
  /\ "stop" \in scene.env
  /\ pc["ctl"] = "idle" /\ started /\ pc["recv"] = "recv"
  /\ started' = FALSE
  /\ Goto("recv", "off")
  /\ UNCHANGED <<session, prev, pending, cookie, call, hs, rx, tx, net, nextId,
                 peerVars, scene, history>>

\* A handshake message on the receive thread.  A response is kept only while
\* rekey_in_progress is set; every cookie reply sets pending_cookie, whether
\* wg_process_cookie_reply accepted it or not.
RecvHandshake(m) ==
  /\ pc["recv"] = "recv"
  /\ \/ /\ m.type = "response" /\ session.rekey_in_progress
        /\ pending' = m
        /\ UNCHANGED <<cookie, hs, nextId, pc>>
     \/ /\ m.type = "cookie"
        /\ cookie' = TRUE
        /\ UNCHANGED <<pending, hs, nextId, pc>>
     \/ /\ m.type = "init" /\ m.ok /\ nextId <= MaxIndex
        /\ hs' = [hs EXCEPT !["recv"] = <<m.sender, nextId>>]
        /\ nextId' = nextId + 1
        /\ Goto("recv", "passive_rotate")
        /\ UNCHANGED <<pending, cookie>>
  /\ UNCHANGED <<session, prev, started, call, rx, tx, net, peerVars, scene, history>>

\* The session a receiver index selects.
MatchSession(idx) ==
  CASE idx \in {session.local_index, session.old_local_index} -> "session"
    [] /\ idx \notin {session.local_index, session.old_local_index}
       /\ prev.valid /\ idx = prev.local_index -> "prev"
    [] OTHER -> "none"

Sess(s) == IF s = "prev" THEN prev ELSE session

\* A transport packet: find the session; drop the packet when there is none or
\* when it has expired, wiping an expired prev_session.
RecvMatch(m) ==
  LET s == MatchSession(m.receiver)
  IN /\ pc["recv"] = "recv" /\ m.type = "data" /\ s # "none"
     /\ IF Sess(s).age > 0
          THEN /\ s = "prev"
               /\ prev' = ZeroSession
               /\ UNCHANGED <<rx, pc>>
          ELSE /\ rx' = [msg |-> m, sess |-> s]
               /\ Goto("recv", "decrypt")
               /\ UNCHANGED prev
     /\ UNCHANGED <<session, started, pending, cookie, call, hs, tx, net, nextId,
                    peerVars, scene, history>>

RecvDecrypt ==
  /\ pc["recv"] = "decrypt"
  /\ IF rx.msg.key = Sess(rx.sess).receiving_key
       THEN Goto("recv", "validate") /\ UNCHANGED rx
       ELSE Goto("recv", "recv") /\ rx' = NoRx
  /\ UNCHANGED <<session, prev, started, pending, cookie, call, hs, tx, net, nextId,
                 peerVars, scene, history>>

\* Packet m is handed over after passing the window of s.
Deliver(m, s) ==
  /\ delivered' = delivered \cup {<<m.key, m.counter>>}
  /\ duplicated' = (duplicated \/ <<m.key, m.counter>> \in delivered)
  /\ raced' = IF Sess(s).owner = m.key THEN raced ELSE raced \cup {"window"}
  /\ UNCHANGED reused

\* wg_counter_validate and the hand-over.
RecvValidate ==
  LET c == rx.msg.counter
  IN /\ pc["recv"] = "validate"
     /\ IF c \in Sess(rx.sess).replay
          THEN UNCHANGED <<session, prev, history>>
          ELSE /\ IF rx.sess = "prev"
                    THEN prev' = [prev EXCEPT !.replay = @ \cup {c}] /\ UNCHANGED session
                    ELSE session' = [session EXCEPT !.replay = @ \cup {c}] /\ UNCHANGED prev
               /\ Deliver(rx.msg, rx.sess)
     /\ rx' = NoRx
     /\ Goto("recv", "recv")
     /\ UNCHANGED <<started, pending, cookie, call, hs, tx, net, nextId, peerVars,
                    scene>>

\* wg_recv, for an application that does not start the threads.
Recv(m) ==
  /\ ~started /\ pc["ctl"] = "idle" /\ session.valid
  /\ m.type = "data" /\ m.receiver = session.local_index
  /\ m.key = session.receiving_key /\ m.counter \notin session.replay
  /\ session' = [session EXCEPT !.replay = @ \cup {m.counter}]
  /\ Deliver(m, "session")
  /\ UNCHANGED <<prev, started, pending, cookie, pc, call, hs, rx, tx, net, nextId,
                 peerVars, scene>>

\* The keepalive thread wipes both sessions of a tunnel that is too old.
ZeroKeys ==
  /\ started /\ session.valid /\ session.age = 2
  /\ session' = ZeroSession /\ prev' = ZeroSession
  /\ UNCHANGED <<started, pending, cookie, pc, call, hs, rx, tx, net, nextId,
                 peerVars, scene, history>>

-----------------------------------------------------------------------------
(* The environment: time (wg_time_now) and the peer, which is external. *)

Older(s) == [s EXCEPT !.age = IF @ < 2 THEN @ + 1 ELSE @]

Tick ==
  /\ "age" \in scene.env
  /\ session' = Older(session) /\ prev' = Older(prev)
  /\ session' # session \/ prev' # prev
  /\ UNCHANGED <<started, pending, cookie, pc, call, hs, rx, tx, net, nextId,
                 peerVars, scene, history>>

\* The peer answers an initiation once: a response, or a cookie reply.
PeerAnswer(m) ==
  /\ m.type = "init" /\ m.from = "tun"
  /\ ~\E a \in ToTunnel : a.type = "response" /\ a.receiver = m.sender
  /\ \/ \E ok \in IF "refuse" \in scene.env THEN BOOLEAN ELSE {TRUE} :
          /\ net' = net \cup {ResponseMsg("peer", nextId, m.sender, ok)}
          /\ nextId' = nextId + 1
     \/ /\ "cookie" \in scene.env
        /\ CookieMsg(m.sender) \notin net
        /\ net' = net \cup {CookieMsg(m.sender)}
        /\ UNCHANGED nextId
  /\ UNCHANGED <<session, prev, started, pending, cookie, pc, call, hs, rx, tx,
                 peerVars, scene, history>>

\* The peer starts a handshake of its own, or a foreign one does, one in each
\* instance.
PeerInitiate ==
  /\ ~\E m \in ToTunnel : m.type = "init"
  /\ \E ok \in BOOLEAN :
       /\ (IF ok THEN "initiate" ELSE "foreign") \in scene.env
       /\ net' = net \cup {InitMsg("peer", nextId, ok)}
  /\ nextId' = nextId + 1
  /\ UNCHANGED <<session, prev, started, pending, cookie, pc, call, hs, rx, tx,
                 peerVars, scene, history>>

\* When a key was made; the peer moves to newer keys only.
Born(k) == IF k.i > k.r THEN k.i ELSE k.r

\* The peer starts to send with a key: as responder when a packet under the
\* key has reached it, as initiator when the response has.
PeerAdopt(m) ==
  /\ m.from = "tun"
  /\ \E k \in CASE m.type = "data" -> {Pair(m.key)}
                [] m.type = "response" -> {Kdf2(m.receiver, m.sender, 1)}
                [] OTHER -> {} :
       /\ k.d \in {1, 2}
       /\ m.type = "data" => m.receiver = RemoteOf(k)
       /\ Born(k) > Born(peerKey)
       /\ peerKey' = k
  /\ peerSent' = 0
  /\ UNCHANGED <<session, prev, started, pending, cookie, pc, call, hs, rx, tx, net,
                 nextId, scene, history>>

PeerSend ==
  /\ peerKey # NoKey /\ peerSent < scene.data
  /\ net' = net \cup {DataMsg("peer", LocalOf(peerKey), peerKey, peerSent, peerKey)}
  /\ peerSent' = peerSent + 1
  /\ UNCHANGED <<session, prev, started, pending, cookie, pc, call, hs, rx, tx,
                 nextId, peerKey, scene, history>>

-----------------------------------------------------------------------------
ControlStep ==
  \/ HandshakeInit \/ SendInit \/ Timeout \/ RekeyWake
  \/ (\E m \in ToTunnel : ConnectReceive(m))
  \/ ResponseCheck \/ ResponseRotate \/ ResponseKeys \/ ResponseReset
  \/ PassiveRotate("ctl") \/ PassiveKeys("ctl") \/ PassiveReset("ctl")
  \/ ReturnError \/ KeepaliveCounter \/ KeepaliveStore \/ KeepaliveEncrypt

RecvStep ==
  \/ (\E m \in ToTunnel : RecvHandshake(m) \/ RecvMatch(m))
  \/ RecvDecrypt \/ RecvValidate
  \/ PassiveRotate("recv") \/ PassiveKeys("recv") \/ PassiveReset("recv")

SenderStep == SendCheck \/ SendCounter \/ SendStore \/ SendEncrypt

Peer ==
  \/ \E m \in net : PeerAnswer(m) \/ PeerAdopt(m)
  \/ PeerInitiate \/ PeerSend

Next ==
  \/ Connect \/ Rekey \/ Start \/ Stop \/ ControlStep
  \/ RecvStep \/ (\E m \in ToTunnel : Recv(m))
  \/ SenderStep \/ ZeroKeys \/ Tick \/ Peer

Spec == Init /\ [][Next]_vars

\* The control thread runs: it is the application's own thread inside a call,
\* its waits are bounded by WG_REKEY_TIMEOUT and send_mutex is held briefly.
FairSpec == Spec /\ WF_vars(ControlStep) /\ WF_vars(SendStore \/ SendEncrypt)

-----------------------------------------------------------------------------
(* Properties. *)

Ids == 0 .. nextId - 1
KeySet == [i : Ids, r : Ids, d : 0 .. 2]
Session ==
  [sending_key : KeySet, receiving_key : KeySet, sending_counter : Nat,
   local_index : Ids, old_local_index : Ids, remote_index : Ids, age : 0 .. 2,
   valid : BOOLEAN, rekey_in_progress : BOOLEAN, replay : SUBSET Nat,
   owner : KeySet, counted : KeySet]

CallSet ==
  [name : {"none", "wg_connect", "wg_rekey"}, attempt : 0 .. WG_MAX_TIMER_HANDSHAKES,
   err : {"WG_OK", "WG_ERR"}, state : Ids, saved_local_index : Ids, key : KeySet]
TxSet == [receiver : Ids, counter : Nat, owner : KeySet]

\* Where a thread is in a handshake: the control thread with an attempt whose
\* response it has not taken, a thread that has a handshake's two indices and has
\* not written its keys, and one that has not reset the counters.
Awaiting == {"send", "wait", "check"}
Mixing == {"rotate", "keys", "passive_rotate", "passive_keys"}
Completing == Mixing \cup {"reset", "passive_reset"}
Installing == {"passive_rotate", "passive_keys", "passive_reset"}
Looping == Awaiting \cup {"attempt"} \cup Completing

TunData == {m \in net : m.type = "data" /\ m.from = "tun"}

MsgOK(m) ==
  /\ m.from \in {"tun", "peer"} /\ m.type \in {"init", "response", "cookie", "data"}
  /\ m.type \in {"init", "response"} =>
       m.sender \in Ids /\ m.ok \in BOOLEAN /\ (m.from = "peer" => m.sender # 0)
  /\ m.type = "response" => m.receiver \in Ids
  /\ m.type = "data" => m.key \in KeySet /\ m.counter \in Nat /\ m.owner \in KeySet
  /\ m.type = "data" /\ m.from = "peer" => m.key # NoKey
  /\ m.type = "data" /\ m.from = "tun" => m.owner \in {NoKey, Pair(m.key)}

SessionOK == session \in Session /\ prev \in Session

PcOK ==
  /\ pc \in [Threads -> Looping \cup {"idle", "finish", "store", "keepalive", "off", "recv",
                                      "decrypt", "validate", "lock", "encrypt"}]
  /\ pc["ctl"] \in Looping \cup {"idle", "finish", "store", "keepalive"}
  /\ pc["recv"] \in {"off", "recv", "decrypt", "validate"} \cup Installing
  /\ pc["app"] \in {"idle", "lock", "store", "encrypt"}
  /\ started = (pc["recv"] # "off")

LocalsOK ==
  /\ cookie \in BOOLEAN
  /\ pending = NoMsg \/ (pending \in ToTunnel /\ pending.type = "response")
  /\ pc["ctl"] = "check" => pending # NoMsg
  /\ call \in CallSet
  /\ pc["ctl"] \in Looping => call.attempt < WG_MAX_TIMER_HANDSHAKES
  /\ hs \in [Threads -> Ids \X Ids]
  /\ pc["recv"] \in {"decrypt", "validate"} =>
       rx.msg \in ToTunnel /\ rx.msg.type = "data" /\ rx.sess \in {"session", "prev"}
  /\ tx \in [Threads -> TxSet]

NetOK ==
  /\ nextId \in Nat \ {0}
  /\ \A m \in net : MsgOK(m)
  /\ peerKey \in KeySet /\ peerSent \in Nat
  /\ scene \in [env : SUBSET Behaviours, max : Nat, data : Nat, calls : Nat]
  /\ delivered \subseteq KeySet \X Nat /\ raced \subseteq Races

\* Every field of tun->session and tun->prev_session, the messages and the
\* threads' locals stay in their ranges.
TypeOK == SessionOK /\ PcOK /\ LocalsOK /\ NetOK

\* The control thread has yet to load a counter.
BeforeLoad == pc["ctl"] \notin {"idle", "store", "keepalive"}

\* sending_counter passes the limit that wg_send tests by no more than two for each
\* call of wg_connect or wg_rekey, although the test is made before the lock is
\* taken and a reset may fall between the load and the store of an increment.
CounterLimit ==
  LET limit == WG_REJECT_AFTER_MESSAGES + 2 * scene.calls
      due == IF BeforeLoad THEN 2 ELSE 0
  IN /\ session.sending_counter + due + (IF pc["app"] = "lock" THEN 1 ELSE 0) <= limit
     /\ pc["ctl"] = "store" => tx["ctl"].counter + 2 <= limit
     /\ pc["app"] = "store" => tx["app"].counter + 1 + due <= limit

\* k is a key of none of the handshakes that a thread is at one of the places P
\* with, nor of one that the control thread may yet complete.
NotOf(k, P) ==
  /\ \A t \in Threads : pc[t] \in P => ~(k.i = hs[t][1] /\ k.r = hs[t][2])
  /\ pc["ctl"] \in Awaiting => k.i # call.state

\* The handshakes under way are new ones, and different ones.
HandshakesFresh ==
  /\ \A t \in Threads : pc[t] \in Completing => hs[t][1] # 0 /\ hs[t][2] # 0
  /\ pc["ctl"] \in Awaiting =>
       /\ call.state # 0
       /\ \A m \in ToTunnel : m.type \in {"init", "response"} => m.sender # call.state
       /\ pc["recv"] \in Completing => hs["recv"][1] # call.state
  /\ pc["ctl"] \in Completing /\ pc["recv"] \in Completing => hs["ctl"] # hs["recv"]

\* No counter was used, and no window filled, for a handshake before its reset;
\* and no session has its keys before they are written.
OwnersPast ==
  /\ NotOf(session.owner, Completing) /\ NotOf(prev.owner, Completing)
  /\ NotOf(session.counted, Completing)
  /\ \A t \in Threads : NotOf(tx[t].owner, Completing)
  /\ \A m \in TunData : NotOf(m.owner, Completing)
  /\ "window" \notin raced => \A x \in delivered : NotOf(x[1], Completing)
KeysPast == \A k \in {session.receiving_key, prev.receiving_key, call.key} : NotOf(k, Mixing)

\* wg_rekey's keepalive and wg_send exclude each other by send_mutex.
MutexInv ==
  /\ pc["ctl"] \in {"store", "keepalive"} /\ call.name = "wg_rekey" =>
       pc["app"] \notin {"store", "encrypt"}
  /\ "wg_rekey" \notin raced

\* No two threads have been in each other's way with a counter.
CountersClean == raced \cap {"wg_connect", "key"} = {}

\* The counters of a key that were taken or used are below sending_counter, and not
\* above one that is about to be stored; none is taken or used twice.
CountersInv ==
  CountersClean =>
    /\ \A m \in TunData : m.key # NoKey => m.owner = Pair(m.key)
    /\ \A t, u \in Threads : ~(t # u /\ pc[t] = "store" /\ pc[u] = "store")
    /\ session.counted # NoKey =>
         /\ \A m \in TunData : m.owner = session.counted =>
              /\ m.counter < session.sending_counter
              /\ \A t \in Threads : pc[t] = "store" => m.counter <= tx[t].counter
         /\ \A u \in Threads : tx[u].owner = session.counted /\ pc[u] # "store" =>
              /\ tx[u].counter < session.sending_counter
              /\ \A t \in Threads : pc[t] = "store" => tx[u].counter <= tx[t].counter
    /\ \A t \in Threads : tx[t].owner # NoKey =>
         /\ \A m \in TunData : ~(m.owner = tx[t].owner /\ m.counter = tx[t].counter)
         /\ \A u \in Threads \ {t} : ~(tx[u].owner = tx[t].owner /\ tx[u].counter = tx[t].counter)
    /\ ~reused

\* What was handed over under a key is in the window of the session that has it,
\* of which there is one.
WindowInv ==
  /\ session.owner # NoKey => session.owner # prev.owner
  /\ "window" \notin raced =>
       /\ \A x \in delivered : x[1] # NoKey
            /\ (x[1] = session.owner => x[2] \in session.replay)
            /\ (x[1] = prev.owner => x[2] \in prev.replay)
       /\ ~duplicated

\* prev_session has other keys than the session, except while those are replaced.
PrevInv ==
  /\ prev.valid => session.valid
  /\ prev.valid /\ prev.receiving_key = session.receiving_key =>
       \E t \in Threads : pc[t] \in {"keys", "passive_keys"}

-----------------------------------------------------------------------------
Quiet == pc["ctl"] = "idle" /\ pc["recv"] \notin Installing

\* Between calls a valid session is of one piece: its two keys, the index the
\* peer addresses it by and the peer's index all come from the same handshake,
\* also after a wg_rekey that timed out and put the saved index back.  It may not
\* be when the peer initiates, when a message is refused after remote_index is
\* written, when the session was wiped meanwhile, when wg_rekey returns WG_OK for a
\* cookie reply, and after a second wg_connect that fails.
SessionCoherent ==
  scene.env \subseteq {"send"} /\ Quiet /\ session.valid =>
    /\ session.sending_key = Pair(session.receiving_key)
    /\ session.local_index = LocalOf(session.receiving_key)
    /\ session.remote_index = RemoteOf(session.receiving_key)

\* prev_session never holds the keys of the current session: a packet has one
\* replay window to pass, not two.
PrevIsOlder ==
  Quiet /\ prev.valid /\ session.valid => prev.receiving_key # session.receiving_key

\* No key and counter are used for two packets, unless one of two overlaps came
\* before, which the code leaves open: the keepalive of wg_connect, which holds no
\* send_mutex, with the sending_counter++ of a wg_send, or a change of the session's
\* key while a packet is built with the old counter.  The keepalive of wg_rekey does
\* not lead there, nor a lost or repeated message, a retry, an expiry or a reconnect.
NonceUnique == reused => raced \cap {"wg_connect", "key"} # {}

\* Every packet is encrypted with a counter of its own key, when the thread that
\* sends is the one that connects and rekeys: wg_handshake_response changes key
\* and counter in two steps without send_mutex.  The zero key is used only after a
\* wipe, or after a refused initiation that wg_connect returns WG_OK for.
CounterOfItsKey ==
  scene.env \cap {"send", "initiate"} = {} =>
    \A m \in TunData :
      /\ m.key # NoKey => m.owner = Pair(m.key)
      /\ scene.env \cap {"foreign", "age"} = {} => m.key # NoKey

\* A packet is handed over once, across rekeys and whichever of the two sessions it
\* is matched to, unless a packet was checked against a window that is not its
\* key's: the receive thread matches, decrypts and checks in separate steps, and
\* the session may be replaced or wiped in between.
PacketOnce == duplicated => "window" \in raced

\* wg_connect or wg_rekey returned WG_OK for want of an error: its last attempt
\* ended on a message that leaves err as wg_handshake_init set it.
OkByDefault == call.err = "WG_OK" /\ call.attempt = WG_MAX_TIMER_HANDSHAKES

\* rekey_in_progress is cleared when wg_connect or wg_rekey returns, by the
\* handshake, by the error path or by the wipe of an old session, whatever came in
\* meanwhile.  There is one way out that leaves it set, WG_OK by default: a cookie
\* reply to the last attempt of wg_rekey, or an initiation that does not decrypt in
\* the last attempt of wg_connect.
RekeyEnds ==
  session.rekey_in_progress ~>
    (~session.rekey_in_progress \/ (pc["ctl"] = "idle" /\ OkByDefault))

\* wg-tester's index-matching test: "The recv thread must accept transport
\* packets addressed to ANY of: [...] prev_session.local_index".
PrevReachable == Quiet /\ prev.valid => MatchSession(prev.local_index) = "prev"

\* The keepalive that follows WG_OK.
AfterOk == {"store", "keepalive"}

\* wg_connect and wg_rekey return WG_OK with a new session, also when earlier
\* attempts were answered by a cookie reply or a message that was refused.  WG_OK
\* without one is by default, after the last attempt: wg_rekey was sent a cookie
\* reply, wg_connect an initiation that does not decrypt.  (A session wiped while
\* it was installed has the zero key.)
OkMeansHandshake ==
  pc["ctl"] \in AfterOk =>
    IF call.attempt < WG_MAX_TIMER_HANDSHAKES
      THEN /\ call.name = "wg_connect" => session.valid
           /\ call.name = "wg_rekey" /\ session.valid /\ session.receiving_key # NoKey =>
                session.receiving_key # call.key
      ELSE \E m \in ToTunnel : IF call.name = "wg_rekey" THEN m.type = "cookie"
                                                      ELSE m.type = "init" /\ ~m.ok

-----------------------------------------------------------------------------
(* The rest of the invariant: what the calls have reached, and what holds  *)
(* in a session at each of their steps in the scenarios that leave it      *)
(* whole.                                                                  *)

\* The loop was left with WG_OK.
LeftWithOk == pc["ctl"] \in AfterOk \/ (pc["ctl"] = "finish" /\ call.err = "WG_OK")

\* It was, before the attempts ran out.
Established == LeftWithOk /\ call.attempt < WG_MAX_TIMER_HANDSHAKES

CallInv ==
  /\ pc["ctl"] # "idle" =>
       scene.calls > 0 /\ call.name = IF started THEN "wg_rekey" ELSE "wg_connect"
  /\ pc["ctl"] \in Installing => call.name = "wg_connect"
  /\ Established /\ call.name = "wg_connect" => session.valid
  /\ (Established \/ pc["ctl"] = "reset") /\ call.name = "wg_rekey"
       /\ session.receiving_key # NoKey => session.receiving_key # call.key

\* What WG_OK by default comes from, and that it alone leaves rekey_in_progress set.
DefaultInv ==
  /\ cookie => \E m \in ToTunnel : m.type = "cookie"
  /\ LeftWithOk /\ ~Established =>
       \E m \in ToTunnel : IF call.name = "wg_rekey" THEN m.type = "cookie"
                                                   ELSE m.type = "init" /\ ~m.ok
  /\ pc["ctl"] = "idle" \/ LeftWithOk =>
       (session.rekey_in_progress => OkByDefault)

\* The call has not replaced the session's keys.
KeysBefore ==
  \/ pc["ctl"] \in Awaiting \cup {"attempt", "rotate", "keys"}
  \/ pc["ctl"] = "finish" /\ call.err = "WG_ERR"

CoherentInv ==
  scene.env \subseteq {"send"} =>
    /\ \A m \in ToTunnel : /\ m.type \notin {"init", "cookie"}
                           /\ m.type = "response" => m.ok
    /\ ~cookie /\ pc["ctl"] \notin Installing /\ pc["recv"] \notin Installing
    /\ session.valid => session.age = 0
    /\ pc["ctl"] \in Awaiting => session.local_index = call.state
    /\ pc["ctl"] \in {"rotate", "keys", "reset"} =>
         session.local_index = hs["ctl"][1] /\ session.remote_index = hs["ctl"][2]
    /\ pc["ctl"] = "reset" => /\ session.receiving_key = Kdf2(hs["ctl"][1], hs["ctl"][2], 2)
                              /\ session.sending_key = Kdf2(hs["ctl"][1], hs["ctl"][2], 1)
    /\ session.valid =>
         /\ session.sending_key = Pair(session.receiving_key) /\ session.receiving_key.d = 2
         /\ pc["ctl"] \notin {"rotate", "keys", "reset"} =>
              session.remote_index = session.receiving_key.r
         /\ KeysBefore => /\ call.name = "wg_rekey"
                          /\ call.saved_local_index = session.receiving_key.i
         /\ pc["ctl"] # "reset" /\ ~KeysBefore =>
              session.local_index = session.receiving_key.i

\* A counter counted for owner fits the key k.
Fits(owner, k) == k = NoKey \/ owner = Pair(k)

SerialInv ==
  scene.env \cap {"send", "initiate"} = {} =>
    /\ \A m \in ToTunnel : m.type = "init" => ~m.ok
    /\ pc["ctl"] \notin Installing /\ pc["recv"] \notin Installing
    /\ pc["app"] # "idle" => pc["ctl"] = "idle"
    /\ pc["ctl"] # "reset" => Fits(session.counted, session.sending_key)
    /\ pc["ctl"] = "reset" =>
         \/ session.receiving_key = NoKey /\ session.sending_key = NoKey
         \/ /\ session.receiving_key = Kdf2(hs["ctl"][1], hs["ctl"][2], 2)
            /\ session.sending_key = Kdf2(hs["ctl"][1], hs["ctl"][2], 1)
    /\ pc["app"] \in {"store", "encrypt"} => Fits(tx["app"].owner, session.sending_key)
    /\ pc["ctl"] \in AfterOk => Fits(tx["ctl"].owner, session.sending_key)
    /\ CountersClean
    /\ scene.env \cap {"foreign", "age"} = {} =>
         /\ \A m \in ToTunnel : m.type # "init"
         /\ started \/ pc["app"] # "idle" => session.valid
         /\ LeftWithOk => session.valid
         /\ session.valid => session.age = 0
         /\ session.valid \/ pc["ctl"] = "reset" => session.sending_key # NoKey

\* The invariant of the session: types and the limit of its counter; every
\* handshake's keys, counters and window are new; between calls it is of one piece.
SafeInv ==
  /\ TypeOK /\ CounterLimit /\ HandshakesFresh /\ OwnersPast /\ KeysPast
  /\ MutexInv /\ CountersInv /\ WindowInv /\ PrevInv
TunnelInv == SafeInv /\ CallInv /\ DefaultInv /\ CoherentInv /\ SerialInv /\ CounterOfItsKey

\* What an application may rely on between its calls.
SessionInv == TypeOK /\ CounterLimit /\ SessionCoherent /\ PrevIsOlder
=============================================================================
