------------------------------- MODULE Peers --------------------------------
(***************************************************************************)
(* The peer table of a tunnel (src/wireguard.c, src/wg_noise.c): packets   *)
(* routed to a peer by wg_netif_output (lwip-relay/src/wg_netif.c) on the  *)
(* relay's loop thread, which starts a handshake when the peer has no      *)
(* session; the receive thread, which answers initiations, completes the   *)
(* loop thread's handshakes and finds the session of a packet; and the     *)
(* keepalive thread, which wipes old sessions.  The two senders share      *)
(* send_mutex; the receive thread writes a peer without it, and so does    *)
(* the wipe.                                                               *)
(***************************************************************************)
EXTENDS Integers

CONSTANTS WG_MAX_PEERS,
          MaxIndex,   \* bound: a handshake is started below this index
          MaxSend     \* bound: packets sent per counter run

ASSUME PeersAssumption == {WG_MAX_PEERS, MaxIndex, MaxSend} \subseteq Nat \ {0}

VARIABLES
  peer_count,
  peer,     \* tun->peers: connected, pending_hs, session and prev_session
  mutex,    \* the holder of send_mutex, or "free"
  pc, who,  \* each thread, and the entry of the table it works on
  hs,       \* the handshake in the thread's locals: its two indices
  tx,       \* the counter a thread has taken from its peer's session
  rx,       \* the receive thread's pointer sess: "session" or "prev"
  net,      \* every message sent so far, any of which may be received, or never
  nextId,   \* the next random index
  reused,   \* history: a key and counter encrypted two packets
  raced     \* history: a peer was written without send_mutex, in use elsewhere

vars == <<peer_count, peer, mutex, pc, who, hs, tx, rx, net, nextId, reused, raced>>

Threads == {"recv", "loop", "ka"}
Ids == 1 .. WG_MAX_PEERS
Configured == 1 .. peer_count

\* The outputs of wg_kdf2 for the handshake with the indices i and r; their user
\* sends with d.
Kdf2(i, r, d) == [i |-> i, r |-> r, d |-> d]
NoKey == Kdf2(0, 0, 0)

ZeroSession ==
  [sending_key |-> NoKey, receiving_key |-> NoKey, sending_counter |-> 0,
   local_index |-> 0, remote_index |-> 0, age |-> 2, valid |-> FALSE]
ZeroPeer ==
  [connected |-> FALSE, pending_hs |-> 0, session |-> ZeroSession, prev |-> ZeroSession]

Msg(type, p, sender, receiver) ==
  [type |-> type, peer |-> p, sender |-> sender, receiver |-> receiver]
Data(p, key, ctr) == [type |-> "data", peer |-> p, key |-> key, counter |-> ctr]

Init ==
  /\ peer_count = 0 /\ peer = [p \in Ids |-> ZeroPeer]
  /\ mutex = "free"
  /\ pc = [t \in Threads |-> "idle"] /\ who = [t \in Threads |-> 0]
  /\ hs = [t \in Threads |-> <<0, 0>>] /\ tx = [t \in Threads |-> 0]
  /\ rx = "session" /\ net = {} /\ nextId = 1
  /\ reused = FALSE /\ raced = FALSE

Goto(t, l) ==
  /\ pc' = [pc EXCEPT ![t] = l]
  /\ who' = IF l = "idle" THEN [who EXCEPT ![t] = 0] ELSE who
Call(t, l, p) == pc' = [pc EXCEPT ![t] = l] /\ who' = [who EXCEPT ![t] = p]

\* The loops over the table stop at its first entry that qualifies.
First(S) == {p \in S : \A q \in S : p <= q}

\* Another thread than t is at one of the places ls with the peer p.
Elsewhere(t, p, ls) == \E u \in Threads \ {t} : who[u] = p /\ pc[u] \in ls
Installing == {"rotate", "keys", "reset", "r_keys", "r_reset"}
Sending == {"lock", "store", "encrypt"}
Unsettled == {"store", "reset", "r_reset"}

\* wg_add_peer
AddPeer ==
  /\ peer_count < WG_MAX_PEERS
  /\ peer_count' = peer_count + 1
  /\ UNCHANGED <<peer, mutex, pc, who, hs, tx, rx, net, nextId, reused, raced>>

-----------------------------------------------------------------------------
(* Sending: wg_send_to_peer on the loop thread, wg_send_keepalive_to_peer  *)
(* on the other two.  sending_counter++ is a load and a store.             *)

\* Mutation of TakeCounter: the senders do not lock send_mutex.
TakeCounterUnlocked(t) ==
  /\ tx' = [tx EXCEPT ![t] = peer[who'[t]].session.sending_counter]
  /\ raced' = (raced \/ (t = "recv" /\ Elsewhere(t, who'[t], {"store"}))
                     \/ (t # "recv" /\ who["recv"] = who'[t] /\ pc["recv"] \in Unsettled))
  /\ UNCHANGED mutex

\* The receive thread takes a counter without locking send_mutex, and a sender may
\* take one while the receive thread has set the key of the session but not yet
\* its counter.
TakeCounter(t) ==
  /\ IF t = "recv" THEN UNCHANGED mutex ELSE mutex = "free" /\ mutex' = t
  /\ tx' = [tx EXCEPT ![t] = peer[who'[t]].session.sending_counter]
  /\ raced' = (raced \/ Elsewhere(t, who'[t], Unsettled))

StoreCounter(t) ==
  /\ pc[t] = "store"
  /\ peer' = [peer EXCEPT ![who[t]].session.sending_counter = tx[t] + 1]
  /\ Goto(t, "encrypt")
  /\ UNCHANGED <<peer_count, mutex, hs, tx, rx, net, nextId, reused, raced>>

\* Mutation of Encrypt: the keepalive thread does not unlock send_mutex.
EncryptKeepsLock(t) ==
  LET m == Data(who[t], peer[who[t]].session.sending_key, tx[t]) IN
  /\ pc[t] = "encrypt"
  /\ net' = net \cup {m}
  /\ reused' = (reused \/ (m \in net /\ m.key # NoKey))
  /\ mutex' = IF t = "loop" THEN "free" ELSE mutex
  /\ tx' = [tx EXCEPT ![t] = 0]
  /\ Goto(t, "idle")
  /\ UNCHANGED <<peer_count, peer, hs, rx, nextId, raced>>

\* The packet is encrypted under the peer's key of now, and sent.
Encrypt(t) ==
  LET m == Data(who[t], peer[who[t]].session.sending_key, tx[t]) IN
  /\ pc[t] = "encrypt"
  /\ net' = net \cup {m}
  /\ reused' = (reused \/ (m \in net /\ m.key # NoKey))
  /\ mutex' = IF t = "recv" THEN mutex ELSE "free"
  /\ tx' = [tx EXCEPT ![t] = 0]
  /\ Goto(t, "idle")
  /\ UNCHANGED <<peer_count, peer, hs, rx, nextId, raced>>

-----------------------------------------------------------------------------
(* The loop thread: wg_netif_output to the address of peer d. *)

Ready(p) == peer[p].connected /\ peer[p].session.valid

\* Mutation of NetifOutput: connected alone is tested, as in the other direction.
NetifOutputAnyConnected(d) ==
  /\ pc["loop"] = "idle" /\ d \in Configured
  /\ \/ peer[d].connected /\ Call("loop", "lock", d)
     \/ ~peer[d].connected /\ nextId < MaxIndex /\ Call("loop", "init", d)
  /\ UNCHANGED <<peer_count, peer, mutex, hs, tx, rx, net, nextId, reused, raced>>

\* Without a session a handshake is started; a packet for no peer is refused.
NetifOutput(d) ==
  /\ pc["loop"] = "idle" /\ d \in Configured
  /\ \/ Ready(d) /\ Call("loop", "check", d)
     \/ ~Ready(d) /\ nextId < MaxIndex /\ Call("loop", "init", d)
  /\ UNCHANGED <<peer_count, peer, mutex, hs, tx, rx, net, nextId, reused, raced>>

\* wg_handshake_init_peer writes the new index into the peer's session.
HandshakeInitPeer ==
  LET p == who["loop"] IN
  /\ pc["loop"] = "init"
  /\ peer' = [peer EXCEPT ![p].session.local_index = nextId]
  /\ raced' = (raced \/ peer[p].session.valid \/ Elsewhere("loop", p, Installing))
  /\ hs' = [hs EXCEPT !["loop"] = <<nextId, 0>>]
  /\ nextId' = nextId + 1
  /\ Goto("loop", "init_send")
  /\ UNCHANGED <<peer_count, mutex, tx, rx, net, reused>>

\* The initiation is sent first ...
InitSend ==
  /\ pc["loop"] = "init_send"
  /\ net' = net \cup {Msg("init_out", who["loop"], hs["loop"][1], 0)}
  /\ Goto("loop", "init_save")
  /\ UNCHANGED <<peer_count, peer, mutex, hs, tx, rx, nextId, reused, raced>>

\* ... and then its state is saved for the response.
InitSave ==
  /\ pc["loop"] = "init_save"
  /\ peer' = [peer EXCEPT ![who["loop"]].pending_hs = hs["loop"][1]]
  /\ hs' = [hs EXCEPT !["loop"] = <<0, 0>>]
  /\ Goto("loop", "idle")
  /\ UNCHANGED <<peer_count, mutex, tx, rx, net, nextId, reused, raced>>

\* wg_send_to_peer tests again, before it locks.
SendCheck ==
  /\ pc["loop"] = "check"
  /\ Goto("loop", IF Ready(who["loop"]) THEN "lock" ELSE "idle")
  /\ UNCHANGED <<peer_count, peer, mutex, hs, tx, rx, net, nextId, reused, raced>>

\* Every sender then takes a counter, the receive thread without the lock.
SendLock(t) ==
  /\ pc[t] = "lock"
  /\ Goto(t, "store")
  /\ TakeCounter(t)
  /\ UNCHANGED <<peer_count, peer, hs, rx, net, nextId, reused>>

-----------------------------------------------------------------------------
(* The keepalive thread, for one entry of the table. *)

\* A session three times WG_REJECT_AFTER_TIME old is wiped, any other valid one
\* gets a keepalive when nothing was sent for long enough.
KaCheck(p) ==
  /\ pc["ka"] = "idle" /\ p \in Configured /\ peer[p].session.valid
  /\ IF peer[p].session.age = 2
     THEN Call("ka", "wipe", p)
     ELSE peer[p].session.sending_counter < MaxSend /\ Call("ka", "lock", p)
  /\ UNCHANGED <<peer_count, peer, mutex, hs, tx, rx, net, nextId, reused, raced>>

KaWipe ==
  LET p == who["ka"] IN
  /\ pc["ka"] = "wipe"
  /\ peer' = [peer EXCEPT ![p].session = ZeroSession, ![p].prev = ZeroSession,
                          ![p].connected = FALSE]
  /\ raced' = (raced \/ Elsewhere("ka", p, Installing \cup Sending))
  /\ Goto("ka", "idle")
  /\ UNCHANGED <<peer_count, mutex, hs, tx, rx, net, nextId, reused>>

-----------------------------------------------------------------------------
(* The receive thread: wg_handshake_init_process for a peer of the table. *)

\* The initiation of a peer is decrypted and its entry found by public key.
RecvInit(m) ==
  /\ pc["recv"] = "idle" /\ m.type = "init" /\ m.peer \in Configured /\ nextId < MaxIndex
  /\ hs' = [hs EXCEPT !["recv"] = <<m.sender, nextId>>]
  /\ nextId' = nextId + 1
  /\ Call("recv", "rotate", m.peer)
  /\ UNCHANGED <<peer_count, peer, mutex, tx, rx, net, reused, raced>>

\* Writes of the receive thread to a session another thread is using.
Overwrites == raced' = (raced \/ Elsewhere("recv", who["recv"], {"store", "encrypt", "wipe"}))

PassiveRotate ==
  LET p == who["recv"] IN
  /\ pc["recv"] = "rotate"
  /\ peer' = IF peer[p].session.valid THEN [peer EXCEPT ![p].prev = peer[p].session] ELSE peer
  /\ Goto("recv", "keys")
  /\ UNCHANGED <<peer_count, mutex, hs, tx, rx, net, nextId, reused, raced>>

\* The responder swaps the outputs of wg_kdf2; the initiator does not.
SetKeys ==
  LET p == who["recv"]
      d == IF pc["recv"] = "keys" THEN 2 ELSE 1
  IN
  /\ pc["recv"] \in {"keys", "r_keys"}
  /\ peer' = [peer EXCEPT
       ![p].session.sending_key = Kdf2(hs["recv"][1], hs["recv"][2], d),
       ![p].session.receiving_key = Kdf2(hs["recv"][1], hs["recv"][2], 3 - d)]
  /\ Overwrites
  /\ Goto("recv", IF pc["recv"] = "keys" THEN "reset" ELSE "r_reset")
  /\ UNCHANGED <<peer_count, mutex, hs, tx, rx, net, nextId, reused>>

\* Mutation of PassiveReset: the index the peer addresses is not stored.
PassiveResetKeepsIndex ==
  LET p == who["recv"] IN
  /\ pc["recv"] = "reset"
  /\ peer' = [peer EXCEPT ![p].connected = TRUE, ![p].session =
       [@ EXCEPT !.sending_counter = 0, !.remote_index = hs["recv"][1], !.age = 0,
                 !.valid = TRUE]]
  /\ Overwrites
  /\ net' = net \cup {Msg("response_out", p, hs["recv"][2], hs["recv"][1])}
  /\ hs' = [hs EXCEPT !["recv"] = <<0, 0>>]
  /\ Goto("recv", "keepalive")
  /\ UNCHANGED <<peer_count, mutex, tx, rx, nextId, reused>>

\* Counter, indices, time and valid; the peer is connected, the response sent.
PassiveReset ==
  LET p == who["recv"] IN
  /\ pc["recv"] = "reset"
  /\ peer' = [peer EXCEPT ![p].connected = TRUE, ![p].session =
       [@ EXCEPT !.sending_counter = 0, !.local_index = hs["recv"][2],
                 !.remote_index = hs["recv"][1], !.age = 0, !.valid = TRUE]]
  /\ Overwrites
  /\ net' = net \cup {Msg("response_out", p, hs["recv"][2], hs["recv"][1])}
  /\ hs' = [hs EXCEPT !["recv"] = <<0, 0>>]
  /\ Goto("recv", "keepalive")
  /\ UNCHANGED <<peer_count, mutex, tx, rx, nextId, reused>>

\* A keepalive follows, to the first connected peer of the table.
RecvKeepalive ==
  LET ready == {p \in Configured : Ready(p)} IN
  /\ pc["recv"] = "keepalive"
  /\ \/ ready = {} /\ Goto("recv", "idle")
     \/ \E p \in First(ready) : Call("recv", "lock", p)
  /\ UNCHANGED <<peer_count, peer, mutex, hs, tx, rx, net, nextId, reused, raced>>

-----------------------------------------------------------------------------
(* The receive thread: a response, and transport packets. *)

\* The entries whose initiation the receive thread takes m for an answer to.
Answered(m) ==
  {p \in Configured : /\ peer[p].connected /\ ~peer[p].session.valid
                      /\ peer[p].session.local_index = m.receiver}

\* wg_handshake_init_process_response: remote_index is set and pending_hs is mixed
\* with the message; if it does not decrypt then, pending_hs is spoiled.  A response
\* that arrives while the tunnel's own rekey is in progress goes to wg_rekey
\* instead: for the table it is one that is never received.
RecvResponse(m) ==
  /\ pc["recv"] = "idle" /\ m.type = "response" /\ Answered(m) # {}
  /\ \E p \in First(Answered(m)) :
     LET ok == peer[p].pending_hs = m.receiver
     IN /\ peer' = [peer EXCEPT ![p].session.remote_index = m.sender, ![p].pending_hs = 0]
        /\ hs' = IF ok THEN [hs EXCEPT !["recv"] = <<m.receiver, m.sender>>] ELSE hs
        /\ IF ok THEN Call("recv", "r_keys", p) ELSE Goto("recv", "idle")
  /\ UNCHANGED <<peer_count, mutex, tx, rx, net, nextId, reused, raced>>

ResponseReset ==
  /\ pc["recv"] = "r_reset"
  /\ peer' = [peer EXCEPT ![who["recv"]].session =
                [@ EXCEPT !.sending_counter = 0, !.age = 0, !.valid = TRUE]]
  /\ hs' = [hs EXCEPT !["recv"] = <<0, 0>>]
  /\ Overwrites
  /\ Goto("recv", "idle")
  /\ UNCHANGED <<peer_count, mutex, tx, rx, net, nextId, reused>>

\* The sessions of p that the receiver index idx selects.
Matches(p, idx) ==
  {s \in {"session", "prev"} : peer[p][s].valid /\ peer[p][s].local_index = idx}

\* wg_find_peer_by_local_index, then the session; a packet for an expired one is
\* dropped, and an expired prev_session wiped.
RecvMatch(idx) ==
  LET found == {p \in Configured : Matches(p, idx) # {}} IN
  /\ pc["recv"] = "idle" /\ found # {}
  /\ \E p \in First(found) :
     LET s == IF peer[p].session.local_index = idx THEN "session" ELSE "prev"
     IN IF peer[p][s].age = 0
        THEN Call("recv", "accept", p) /\ rx' = s /\ UNCHANGED peer
        ELSE /\ s = "prev"
             /\ peer' = [peer EXCEPT ![p].prev = ZeroSession]
             /\ UNCHANGED <<pc, who, rx>>
  /\ UNCHANGED <<peer_count, mutex, hs, tx, net, nextId, reused, raced>>

\* A keepalive packet, or data that decrypts and is no replay, marks the peer
\* connected; other data is dropped.
RecvAccept ==
  /\ pc["recv"] = "accept"
  /\ peer' \in {peer, [peer EXCEPT ![who["recv"]].connected = TRUE]}
  /\ rx' = "session"
  /\ Goto("recv", "idle")
  /\ UNCHANGED <<peer_count, mutex, hs, tx, net, nextId, reused, raced>>

-----------------------------------------------------------------------------
(* Time (wg_time_now) and the peers, which are external. *)

Older(s) == [s EXCEPT !.age = IF @ < 2 THEN @ + 1 ELSE @]

Tick(p) ==
  /\ peer[p].session.valid
  /\ peer' = [peer EXCEPT ![p].session = Older(@), ![p].prev = Older(@)]
  /\ peer' # peer
  /\ UNCHANGED <<peer_count, mutex, pc, who, hs, tx, rx, net, nextId, reused, raced>>

PeerInitiate(p) ==
  /\ nextId < MaxIndex
  /\ net' = net \cup {Msg("init", p, nextId, 0)}
  /\ nextId' = nextId + 1
  /\ UNCHANGED <<peer_count, peer, mutex, pc, who, hs, tx, rx, reused, raced>>

PeerAnswer(m) ==
  /\ m.type = "init_out"
  /\ ~\E r \in net : r.type = "response" /\ r.receiver = m.sender
  /\ net' = net \cup {Msg("response", m.peer, nextId, m.sender)}
  /\ nextId' = nextId + 1
  /\ UNCHANGED <<peer_count, peer, mutex, pc, who, hs, tx, rx, reused, raced>>

\* The index a peer sends to, once it holds a handshake's key.
SendsTo(m) ==
  CASE m.type = "response_out" -> {m.sender}
    [] m.type = "response" -> {m.receiver}
    [] OTHER -> {}

-----------------------------------------------------------------------------
LoopStep ==
  \/ HandshakeInitPeer \/ InitSend \/ InitSave \/ SendCheck
  \/ SendLock("loop") \/ StoreCounter("loop") \/ Encrypt("loop")
KaStep == KaWipe \/ SendLock("ka") \/ StoreCounter("ka") \/ Encrypt("ka")
RecvStep ==
  \/ PassiveRotate \/ SetKeys \/ PassiveReset \/ RecvKeepalive \/ ResponseReset \/ RecvAccept
  \/ SendLock("recv") \/ StoreCounter("recv") \/ Encrypt("recv")

\* What a race leads to is not followed further.
Next ==
  /\ ~raced
  /\ \/ AddPeer \/ LoopStep \/ KaStep \/ RecvStep
     \/ \E p \in Ids : KaCheck(p) \/ Tick(p) \/ PeerInitiate(p)
     \/ \E d \in Ids : (peer[d].session.sending_counter < MaxSend \/ ~Ready(d)) /\ NetifOutput(d)
     \/ \E m \in net : \/ RecvInit(m) \/ RecvResponse(m) \/ PeerAnswer(m)
                       \/ \E idx \in SendsTo(m) : RecvMatch(idx)

Spec == Init /\ [][Next]_vars

\* The three threads run, and send_mutex is held briefly.
FairSpec ==
  Spec /\ WF_vars(~raced /\ LoopStep) /\ WF_vars(~raced /\ KaStep) /\ WF_vars(~raced /\ RecvStep)

-----------------------------------------------------------------------------
(* Properties. *)

Index == 0 .. nextId - 1
Key == [i : Index, r : Index, d : 0 .. 2]
Session == [sending_key : Key, receiving_key : Key, sending_counter : Nat,
            local_index : Index, remote_index : Index, age : 0 .. 2, valid : BOOLEAN]
Entry == [connected : BOOLEAN, pending_hs : Index, session : Session, prev : Session]

MsgOK(m) ==
  /\ m.type \in {"init", "init_out", "response", "response_out", "data"} /\ m.peer \in Ids
  /\ m.type # "data" => m.sender \in Index /\ m.receiver \in Index
  /\ m.type = "init_out" => m.sender # 0
  /\ m.type = "response" => m.receiver # 0
  /\ m.type = "data" => m.key \in Key /\ m.counter \in Nat

Counted == {"store", "encrypt"}

\* A thread works on an entry of the table exactly while it is busy, and a sender
\* holds send_mutex from taking a counter to sending the packet.
PlacesOK ==
  /\ pc \in [Threads -> {"idle", "check", "lock", "init", "init_send", "init_save", "wipe",
                         "keepalive", "accept"} \cup Counted \cup Installing]
  /\ pc["loop"] \notin Installing \cup {"wipe", "keepalive", "accept"}
  /\ pc["ka"] \in {"idle", "lock", "wipe"} \cup Counted
  /\ pc["recv"] \in {"idle", "keepalive", "accept", "lock"} \cup Counted \cup Installing
  /\ who \in [Threads -> 0 .. peer_count]
  /\ \A t \in Threads : who[t] = 0 <=> pc[t] = "idle"
  /\ mutex \in {"free", "loop", "ka"}
  /\ \A t \in {"loop", "ka"} : mutex = t <=> pc[t] \in Counted

\* Type invariant.
TypeOK ==
  /\ peer_count \in 0 .. WG_MAX_PEERS /\ nextId \in Nat \ {0}
  /\ peer \in [Ids -> Entry]
  /\ PlacesOK
  /\ hs \in [Threads -> Index \X Index] /\ tx \in [Threads -> Nat]
  /\ pc["loop"] \in {"init_send", "init_save"} => hs["loop"][1] # 0
  /\ rx \in {"session", "prev"}
  /\ \A m \in net : MsgOK(m)
  /\ raced \in BOOLEAN

DataOf(p) == {m \in net : m.type = "data" /\ m.peer = p}

\* No handshake of p that has keys was started with the index x, nor will the one
\* be that the receive thread is completing or one whose initiation has arrived.
Unused(p, x) ==
  /\ \A m \in DataOf(p) : m.key.i # x
  /\ peer[p].session.sending_key.i # x
  /\ who["recv"] = p /\ pc["recv"] \in Installing => hs["recv"][1] # x
  /\ \A m \in net : m.type = "init" => m.sender # x

\* Every handshake is a new one: those this side has started and not completed, and
\* the one the receive thread is completing, under whose keys nothing was sent.
HandshakesFresh ==
  /\ \A p \in Ids : peer[p].pending_hs # 0 => Unused(p, peer[p].pending_hs)
  /\ pc["loop"] \in {"init_send", "init_save"} =>
       /\ hs["loop"][1] # peer[who["loop"]].pending_hs
       /\ Unused(who["loop"], hs["loop"][1])
  /\ pc["recv"] \in Installing =>
       \A m \in DataOf(who["recv"]) : <<m.key.i, m.key.r>> # hs["recv"]
  /\ pc["recv"] \in {"rotate", "keys", "r_keys"} =>
       LET k == peer[who["recv"]].session.sending_key IN <<k.i, k.r>> # hs["recv"]

\* The counters taken from a session are its own, below sending_counter or about to
\* be, and each is used once.
CountersInv ==
  /\ \A p \in Ids : \A m \in DataOf(p) :
       m.key = peer[p].session.sending_key /\ m.key # NoKey =>
         m.counter < peer[p].session.sending_counter
  /\ \A t \in Threads :
       LET s == peer[who[t]].session IN
       /\ pc[t] = "store" => tx[t] = s.sending_counter
       /\ pc[t] = "encrypt" =>
            /\ tx[t] < s.sending_counter
            /\ \A m \in DataOf(who[t]) : m.key = s.sending_key => m.counter # tx[t]
       /\ pc[t] \in Counted => \A u \in Threads \ {t} : who[u] = who[t] =>
            /\ pc[u] \notin {"reset", "r_reset"}
            /\ pc[u] \in Counted => tx[u] # tx[t]
       /\ pc[t] \in Sending => s.sending_key # NoKey

\* The session of p is of one piece.
Whole(s) ==
  LET k == s.receiving_key
      own == IF k.d = 2 THEN k.i ELSE k.r
  IN /\ k # NoKey /\ s.sending_key = Kdf2(k.i, k.r, 3 - k.d)
     /\ s.local_index = own /\ s.remote_index = k.i + k.r - own

\* What the receive thread has of a handshake is in the session it installs, and a
\* valid session has a key.
InstallInv ==
  LET s == peer[who["recv"]].session
      i == hs["recv"][1]
      r == hs["recv"][2]
  IN /\ \A p \in Ids : peer[p].session.valid => peer[p].session.sending_key # NoKey
     /\ pc["recv"] \in {"r_keys", "r_reset"} => s.local_index = i /\ s.remote_index = r
     /\ pc["recv"] = "r_reset" => s.sending_key = Kdf2(i, r, 1) /\ s.receiving_key = Kdf2(i, r, 2)
     /\ pc["recv"] = "reset" => s.sending_key = Kdf2(i, r, 2) /\ s.receiving_key = Kdf2(i, r, 1)

\* The session of a peer is of one piece whenever no thread is installing it, its
\* index the one the peer addresses, unless wg_netif_output or the wipe hit it in
\* the middle of its use.
PeerCoherent ==
  \A p \in Ids :
    peer[p].session.valid /\ ~raced /\ ~Elsewhere("loop", p, Installing) => Whole(peer[p].session)

\* The invariant of the table: its entries in their ranges and of one piece; until
\* two threads have overlapped, every handshake and every counter a new one.
PeersInv ==
  /\ TypeOK /\ PeerCoherent
  /\ ~raced => HandshakesFresh /\ CountersInv /\ InstallInv

\* No key and counter of a peer are used twice, unless the receive thread's
\* keepalive or its install, neither of which locks send_mutex, overlapped with a
\* sender on the same peer.
NonceUnique == reused => raced

\* No packet goes out under a wiped key, unless the keepalive thread wiped the
\* session after the sender had tested it.
NoZeroKey == \A m \in net : m.type = "data" /\ m.key = NoKey => raced

\* wg_netif_output returns: the loop thread is not held up for good by the other
\* threads' use of send_mutex.
OutputReturns == pc["loop"] # "idle" ~> pc["loop"] = "idle" \/ raced

\* lwip-relay/src/wg_netif.c:48-49, "By the time lwIP retransmits (~1s RTO), the WG
\* handshake should be complete": the response to an initiation of wg_netif_output
\* that is still open is taken by the receive thread.
AnswerIsTaken ==
  \A m \in net :
    m.type = "response" /\ ~peer[m.peer].session.valid
      /\ peer[m.peer].session.local_index = m.receiver => Answered(m) # {}
=============================================================================
