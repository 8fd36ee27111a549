# A TLA+ model of wg-nx

wg-nx is a userland WireGuard for the Nintendo Switch: a C library that keeps
a tunnel (`src/`), a C++ relay that runs lwIP on top of it (`lwip-relay/`), and a
test program (`wg-tester/`). This directory holds a model of the library and the
relay, model-checked with TLC, and proofs checked with TLAPS about every part of it
but the algorithms of the cryptography and the text form of keys. `PROJECT.json` lists for every definition the lines it
models, for every run its properties, for every property a mutation of the model
that breaks it, and the hazards of the code, each at its line.

## 1. The system and its modules

| Part | Threads | What is hard | Module |
|---|---|---|---|
| Replay window (`wg_counter.c`) | receive thread, or the caller of `wg_recv` | words are reused; jumps larger than the bitmap | `ReplayWindow`, `ReplayWindow_proof` |
| Slot pool, receive callback (`wireguard.c` 15-67, 258-263, 711-716), LwipRelay's incoming path (`wg_lwip_relay.cpp` 58-204, 267-378) | receive, loop and application threads | each slot released once; a wake only for an empty queue; stop with packets in flight | `RecvPath`, `RecvPath_proof` |
| Relay ring (`platform_switch.c` 22-65, 117-150) | relay receiver, receive thread | no lock; wrap of `uint32_t` | `RelayRing`, `RelayChannel`, `RelayRing_proof` |
| Session with one peer (`wireguard.c`, `wg_noise.c`) | caller, receive, sending and keepalive threads | no lock on the session; late and duplicated messages; retries | `Tunnel`, `MCTunnel`, `Tunnel_proof` |
| Peer table (`wireguard.c` 165-256, 560-790, `wg_noise.c`), `wg_netif_output` | loop, receive and keepalive threads | entries written and wiped without a lock | `Peers`, `Peers_proof` |
| Lifecycle (`wireguard.c` 99-163, 792-828, 916-930), UDP relay (`wg_relay.c`), stop conditions (`wg_thread.c`) | application and the three threads | every allocation may fail; restarts; lost wake-ups | `Lifecycle`, `Lifecycle_proof` |
| TCP and UDP forwarding (`wg_lwip_relay.cpp` 206-265, 380-690) | loop thread, lwIP's callbacks | descriptors reused; records and pcbs pointing at each other | `Forwarding`, `Forwarding_proof` |
| Noise handshake, key derivation, cookies (`wg_noise.c`, `wg_crypto.c`) | none | both roles, preshared key, refused and repeated messages | `Noise`, `Noise_proof` |
| ChaCha20 and AEAD, Poly1305, BLAKE2s, scalar and NEON | none | lanes, carries, partial blocks | `ChaCha20`, `Poly1305`, `Blake2s`, `Words32` |
| Keys as text (`wireguard.c` 932-983) | none | padding | `Base64` |

`Crypto` puts the last three rows into one specification and `MCCrypto` gives it its
cases. A module `M_proof` holds the theorems about `M` and their proofs.

Parts meet in four places. The relay's receiver fills the ring, from which the
receive thread takes packets (RelayRing). The receive thread matches a packet
to a session, decrypts it and checks its counter (Tunnel for the session of
`wg_connect`, Peers for the table; ReplayWindow for the check). It then hands the
slot to the callback, from where lwIP owns it until it is released (RecvPath).
What lwIP sends goes to a peer through `wg_netif_output` (Peers) and comes from the
sockets of Forwarding.

## 2. Modules

### ReplayWindow

`wg_counter_validate` is the operator of the same name: the verdict and the
structure it leaves. A word is the set of its bits that are 1. `Validate(c)` is
the check of one authenticated packet; any counter may come at any time. History
variables record what was accepted, what was accepted twice (`replayed`),
what was accepted from a word already reused (`late`) and which new counters of
the window were refused.

The age test of the code admits counters down to `mark - 8192`, but the 128
words hold only the 128 most recent words, so up to one word of counters passes
the test although its bits have been replaced. What holds instead, and is proved,
is `ReplaysOnlyInWrappedWord` and `FreshRefusedOnlyByAlias`.

### RecvPath

Three threads. The receive thread acquires a slot (`RecvAcquire`), drops the
packet on any early exit (`RecvDrop`), or tests the callback, then loads it again with
its argument for the call, tests `running_`, pushes under `queueMutex_` and signals, one step each. The loop
thread polls, drains the wake socket, takes a batch, injects its packets one
by one and serves the other sockets; lwIP may free a pbuf whenever the loop thread
is inside lwIP. The application thread runs `start` and `stop`, cut at each store
another thread reads; `stop` may be called again on a stopped relay. A call of a NULL
callback or with a NULL relay ends the process; `NullCallOutsideRun` says when it
cannot happen: while `start` and `stop` store the two words it can.

A callback that passed the test of `running_` may push its slot after `stop` has
drained the queue; `StopLeavesAtMostOne` says that no more than this one slot stays
behind, and `SlotsInv` that it is then still in the queue. The holders
(128) are fewer than the slots (256), so a batch may find none free: its packets
are dropped and their slots go back to the pool.

### RelayRing and RelayChannel

The producer writes a slot in two steps and the consumer copies it in two, so
overlapping copies are torn. Sequence numbers wrap at `SEQ_MOD`, a multiple of
`RING_SLOTS` as 2^32 is of 256. `written`, `committed` and `taken` are the positions
the wrapping numbers stand for. The model takes stores to become visible in
program order; the code's commit has a compiler barrier only.

`RelayChannel` is what the ring promises: a first-in-first-out channel that
publishes a burst at a time, leaves out empty packets, and may break once.
`ImplementsChannel` is the refinement: `InputDone` puts, `Commit` publishes, `RecvSkip`
and `RecvDone` take, an `InputWrite` into an unread slot breaks the channel, every
other step is a stutter. A packet returned torn maps to a packet nobody put, so
the refinement also says that packets are whole.

The waiting loop compares the producer with its own last commit, not with the
consumer. Hence a consumer that lags is overtaken (`LapNeedsBacklog` says how far
behind it must be), and a burst longer than `RING_SLOTS - RESERVE` waits for a commit
only the same thread can make (`InputReturns` excepts it). The consumer compares
`rseq >= w` without regard to the wrap: once `g_wseq` has wrapped it waits, and a
consumer that has reached the largest sequence number waits for good
(`CommittedIsTaken` is stated up to the wrap).

### Tunnel

One peer, no peer table. The control thread runs `wg_connect` and `wg_rekey` with
their attempts; the receive thread takes handshake messages and transport packets;
an application thread is in `wg_send`; the keepalive thread wipes sessions.
`tun->session` has no lock, so an install is cut at the points where it is visible:
the rotation, the keys, and the counters with everything behind them. Stores
inside one of those steps are not interleaved with other threads.

A key names its handshake by the two indices, both fresh; `Kdf2` is injective, a
message decrypts when its key is equal. Time is the age class of a session. The
replay window is the set of counters it has seen: exact for the few counters of
the instances, which all lie in the window's first words, where ReplayBound and
RefusalBound exclude both kinds of error. `net` only grows, so every message may be
lost, delayed, duplicated and reordered.

`sending_counter++` is a load (`TakeCounter`) and a store (`StoreCounter`). `wg_send` and
the keepalive of `wg_rekey` do both under `send_mutex`, the keepalive of `wg_connect` does
not, and neither does the install, which replaces the keys before it resets the
counter. The receive thread matches, decrypts and checks a packet in three steps
without a lock. So threads can meet in three ways, and `raced` records which have:

- `"wg_connect"`: its keepalive and a `wg_send` (of a session that an earlier connection
  left) are both between load and store;
- `"key"`: a packet is encrypted with another key than the one its counter was
  counted for;
- `"window"`: a packet is checked against another window than its key's.

TLC finds a nonce used twice after each of the first two, and a packet handed over
twice after the third. `NonceUnique` and `PacketOnce` say that there are no other
ways; in particular the keepalive of `wg_rekey` is not one (`MutexInv`). `owner` and
`counted` are ghosts, the keys for which the window and the counter were last reset.
`CounterOfItsKey` says that an application that sends and rekeys on one thread never
gets to `"key"`. The zero key appears only after a wipe, or after a refused initiation
that `wg_connect` returns `WG_OK` for.

A call ends in one of three ways: with a handshake, with an error, or with `WG_OK` by
default (`OkByDefault`). The last is what a cookie reply to the last attempt of `wg_rekey`
comes to, and an initiation that does not decrypt in the last attempt of `wg_connect`:
the loop is left with `err` as `wg_handshake_init` set it, without a handshake and with
`rekey_in_progress` set. `OkMeansHandshake` and `RekeyEnds` say that this happens then and
only then: with attempts left both calls go on.

Other behaviours the properties are worded around: `old_local_index` selects the session
also when no rekey is in progress; a session may be wiped while it is
installed. `SessionCoherent` is therefore about behaviours in which only a concurrent
`wg_send` is added to `wg_connect` and `wg_rekey`. `CounterLimit` allows two counters per
call above `WG_REJECT_AFTER_MESSAGES`: `wg_connect` and `wg_rekey` send their keepalive
without the test that `wg_send` makes, and `wg_send` makes it before it takes the lock.

`scene` selects what else happens in a behaviour: a concurrent `wg_send`, handshakes
started by the peer, cookie replies, handshake messages that do not decrypt, time,
`wg_stop` and reconnection. `MCTunnel` defines the scenarios of the runs. The peer
is external: it answers each initiation once, starts one handshake of its own, and
moves to newer keys only.

### Peers

The table of `WG_MAX_PEERS` entries and the three threads that use it. The loop thread
is in `wg_netif_output`: it starts a handshake for an entry without a session
(`HandshakeInitPeer`, `InitSend`, `InitSave`) or sends through `wg_send_to_peer`. The
receive thread answers initiations (`RecvInit`, then the install in the steps
`PassiveRotate`, `SetKeys`, `PassiveReset`, then the keepalive), takes responses and
finds the session of a packet. The keepalive thread wipes old sessions or sends.
The keepalive goes to the first peer that qualifies; the receive thread tests
the peer in one step and takes its counter in the next. A counter is taken and stored
in two steps, which is what `send_mutex` protects. While the tunnel's own `wg_rekey` is in
progress the receive thread gives every response to it (`wireguard.c` 564): for the table
such a response is lost.

Two writers do not take the mutex: the receive thread (install and keepalive) and
the wipe. When one of them touches an entry that another thread is using, `raced`
is set and the behaviour is not followed further: the fields are then whatever the
two left. The properties say that everything outside such an overlap is right, and
so list the overlaps: `NonceUnique`, `NoZeroKey` and `PeersInv` would fail for a lock
not taken, a test left out or a field not stored anywhere else.

### Lifecycle

One application thread calls `wg_init`, `wg_add_peer`, `wg_start`, `wg_stop`, `wg_close`,
`wg_relay_create`, `wg_relay_start`, `wg_relay_stop` and `wg_relay_destroy` in any order
the API allows (a relay is destroyed before its tunnel). A call is a sequence of steps
in `todo`; a step that gets something knows what to release when it fails. The
receive, keepalive and relay threads test their stop condition, work and wait; the
keepalive thread's timed wait is cut at the test, the wait and the wake-up, because
the signaller may come between them. `badfree` and `dangling` record a release of
something not held and a callback through a destroyed relay.

### Forwarding

Listeners, connections and bindings, each with its descriptor, and the lwIP pcb of
each connection with its states. Descriptors are a small set and a closed number goes
to the next socket. The handlers run one after the other under `mutex_`, so each is
one action, from `poll` to the removal at its end: accept and connect with all
their failures, data, end of file and error of a client, connected, received, closed
and error from lwIP, `startTcpRelay`, `startUdpRelay`, `stop`. `freed` records a callback
through a deleted connection, which ends the behaviour; `PcbInv` says in which two
situations lwIP still has such a pointer.

### Noise

Messages, chaining keys and hashes are terms. Node 1 runs both roles of `wg_noise.c`
for the tunnel and for a peer of the table; the tunnel's own peer (`peer_public`) and the
peer of the table are two nodes or the same one, since `wg_init` and `wg_add_peer` take
independent keys; both nodes answer, initiate and send cookies. Messages are repeated, late and lost, and one may arrive with contents
that do not decrypt. The model writes what the functions write before they have
authenticated the message (`remote_index`, `last_mac1`, the peer's `pending_hs`). A
session in `shared` is one end's keys and indices, so that agreement, freshness and
the use of cookies are statements about what both ends hold.

The tunnel has one cookie. It is taken from the node that `peer_public` names, and
`wg_handshake_init_peer` puts it on initiations to every peer of the table
(`wg_noise.c` 163-165), so a peer that is another node gets a mac2 it does not accept.
`Mac2Accepted` says what is still true: a mac2 covers the message it is on, with a cookie
that was issued, and by the node of `peer_public` until an initiator's key replaces that
(`replaced`); so the initiations of `wg_handshake_init` are accepted.

### ChaCha20, Poly1305, Blake2s, Base64

Both implementations of each algorithm, translated line by line, against each other,
against a definition and against the vectors of wg-tester. ChaCha20 and the
compression of BLAKE2s have their real width (`Words32`: a word is its two halves). Poly1305
is scaled: words of 7 bits and limbs of 6 instead of 32 and 26, with the same
relation between them, and limbs and sums of products cut to their width, so that carries, overflow bounds and the final reduction are
those of the code; its definition is the polynomial modulo 2^30 - 5. The streaming of
BLAKE2s is checked with blocks of 4 bytes: the chaining value is the list of the
compressions that made it. Base64 works on keys of 5 bytes, which like 32 leave a
last group of two. `call` and `poly` follow one message through the functions, split
in every way; the results are compared at the end.

## 3. Runs

Passing runs:

| Run | Bounds | Shows |
|---|---|---|
| replay_window | words of 2 bits, 3 words, counters to 21 | the inductive invariant and the two bounds, for every order of counters, over three turns of the bitmap |
| recv_path | 3 slots, 2 holders, batches of 1, 2 starts | the inductive invariant (`RecvInv`: one owner per slot, none lost, sockets outlive the thread), no lost wake, queued slots are taken, `stop` returns |
| relay_ring | 4 slots, 2 in reserve, 10 packets in bursts up to 3, wrap at 8 | the ring implements the channel; what a lap needs; committed packets are taken before the wrap; `wg_relay_input` returns |
| tunnel | 2 calls of 2 attempts, counter limit 1, indices to 5; four scenarios: cookie replies, refused responses, refused initiations, time and wipe | how calls end: `WG_OK` means a session, `rekey_in_progress` is cleared, each with the one exception named above; counters of their keys |
| tunnel_faults | 1 attempt per call, counter limit 1, indices to 5; five scenarios: two rekeys; a `wg_send` on another thread with time, wipe, stop and reconnection, or with refused messages, stop and reconnection; the peer initiates, without and with that `wg_send` | the inductive invariant (`TunnelInv`: among others coherent sessions, also after timeouts and late responses), nonces and duplicates |
| peers | 2 peers, indices to 4, 1 packet per key | the inductive invariant (`PeersInv`: among others entries of one piece), nonces, no wiped key in use, `wg_netif_output` returns |
| lifecycle | one tunnel, one relay, 2 clients, any number of calls | the inductive invariant (`LifecycleInv`: each call at one of its steps, threads as flagged with what they use), all or nothing under every failure, no stop withdrawn, every call returns |
| forwarding | 1 port with TCP and UDP, 4 descriptors, 2 connections | descriptors and pcb pointers are what they were, no socket leaks, a client's end is noticed |
| crypto | see `MCCrypto`: block edges, full words, wrapping counters; messages to 40 bytes; 5 budgets of handshake messages, the table's peer and the tunnel's the same node or two; with and without a preshared key, without when there are cookies | the algorithms are their definitions, the handshake agrees on fresh keys |

In the bounds three things must happen: a resource runs out (slots, holders, ring,
counter limit, table, descriptors), something is reused (a word, a ring position, an
index after a second attempt, a descriptor), and two threads are inside the same
section. Each instance is the smallest in which all of its own do. Deadlock is not
an error in these instances: the application may stop calling, the peer may stop
sending, and packets are bounded.

Runs that are violated state what a comment or a test of the repository says, and
show where the code does otherwise; `findings` in `PROJECT.json` quotes each line.

| Run | The code |
|---|---|
| relay_ring_silent_loss | overwrites unread slots |
| tunnel_prev_reachable | matches the index of `prev_session` to the new session |
| peers_answer | does not take the response to a handshake that `wg_netif_output` started |

### Fairness

- RecvPath: the loop thread is a thread whose `poll` has a timeout, and the code of
  `start` and `stop` runs on once called. Neither the receive thread, nor lwIP's
  frees, nor the application's decision to call is fair.
- RelayRing: the receive thread calls `wg_socket_recv` in a loop; a call of
  `wg_relay_input` runs on when its loop lets it; a burst is followed by its commit.
- Tunnel: the control thread inside a call (its waits end after `WG_REKEY_TIMEOUT`)
  and a sender holding `send_mutex`. Messages, time and the peer are not fair.
- Peers: each of the three threads runs on inside a call; the mutex is held for one
  packet at a time.
- Lifecycle: the application inside a call and the three threads, strongly: each
  waits for a mutex the others hold for a few instructions only. The wait of the
  keepalive thread may time out, but need not: a stop must reach it by its signal.
- Forwarding: the loop calls every handler in every iteration. Clients and targets
  are not fair.

## 4. Proofs

Each theorem is about every value of the constants that satisfies the assumption named with
its module, and about behaviours of any length. Every invariant and every action property
that a passing run checks is proved, except the four about algorithms listed at the end.
The shape is always the same: an inductive invariant (`...Inv`), one lemma per action and
conjunct it can disturb, and a short step from the invariant to the property. TLC checks the inductive
invariants on the instances too, `ForwardingInv` by its three conjuncts; of `NoiseInv` it
checks `KeysAgree` and `Mac2Accepted` only. Proof modules begin with `USE ZenonT(30)`: a
leaf is for Zenon unless it cites `SMT`.

| Module | Assumption | Theorems (property) |
|---|---|---|
| `ReplayWindow_proof` | `WordsAssumption`, `CounterAssumption` | `InvariantHolds` (`IndInv`), `TypeCorrect`, `ReplayBound` (`ReplaysOnlyInWrappedWord`), `RefusalBound` (`FreshRefusedOnlyByAlias`) |
| `RelayRing_proof` | `RingAssumption` | `RingInvariant` (`RingInv`), `RingTypeCorrect`, `RingNeverAhead`, `RingLapNeedsBacklog`, `RingImplementsChannel` (`ImplementsChannel`) |
| `RecvPath_proof` | `SlotAssumption`, `BoundAssumption` | `RecvInvariant` (`RecvInv`), `SlotsHaveOneOwner`, `WakeNeverLost` (`NoLostWake`), `StopKeepsAtMostOne` (`StopLeavesAtMostOne`), `NullCallOnlyOutsideRun` |
| `Forwarding_proof` | `NoneAssumption` | `ForwardingInvariant`, `SocketsStayTheirs` (`SocketsInv`), `NoSocketIsLost` (`NoSocketLeak`), `PcbPointersHold` (`PcbInv`) |
| `Lifecycle_proof` | none | `LifecycleInvariant`, `ThreadsAreAccounted`, `CreatedWholeOrNotAtAll` (`AllOrNothing`), `CallbackNeedsOwnStart` (`CallbackHasRelay`), `StopIsNeverWithdrawn` (`StopNotWithdrawn`) |
| `Tunnel_proof` | `TunnelAssumption` | `TunnelInvariant`, `NoncesAreUnique`, `PacketsOnlyOnce`, `CountersFitTheirKey`, `OkIsAHandshake`, `SessionOfOnePiece` (`SessionInv`) |
| `Peers_proof` | `PeersAssumption` | `PeersInvariant`, `PeersOfOnePiece`, `NoncesAreUnique`, `NothingUnderWipedKey` |
| `Noise_proof` | none | `NoiseInvariant`, `HandshakeAgreement` (`KeysAgree`), `HandshakeFreshness` (`KeysFresh`), `CookieAccepted` (`Mac2Accepted`) |

The assumptions say that bounds are natural numbers, that sizes are not zero, and that "none" is
not a member of the set it stands apart from; the largest counter is larger than the window, the ring
larger than its reserve and the range of sequence numbers a larger multiple of it, as in the
code.

**Replay window.** `ReplaysOnlyInWrappedWord` is not inductive: that a counter of a live word is not
accepted again needs its bit to be still set (`AcceptedStaysSet`). In the same way
`FreshRefusedOnlyByAlias` needs to know why a bit is set (`SetBitsExplained`).
`IndInv` is the conjunction of the five. The argument: two counters fewer than 128
words apart that share word index and bit are equal (`SameBit`); `Advance` zeroes
exactly the words it enters (`AdvanceBits`); a late counter shares its bit
with the counter one window later.

**Relay ring.** What makes `RingInv` inductive is `RingHolds`: while nothing was overwritten, each position
from `taken` to `written - 1` has its packet, whole, in its slot, and the receive
thread's copy is of the packet at `taken`. It needs the order of the three positions
(`Positions`) and that fewer than `RING_SLOTS` consecutive positions have different
slots (`ModDistinct`). The refinement then goes step by step: each action of the ring
is one lemma `Step...`, on what it does to the sequences `PacketsOf` maps the positions to.
All division and remainder facts are proved from the definition of quotient and
remainder.

**Receive path.** `RecvInv` adds to the ownership of slots (`SlotsInv`: free list, queue, batch
and holders are disjoint, without repetitions, and with the receive thread's slot all slots) where the
threads can be together (`ControlInv`), why a sleeping loop thread has its wake (`WakeInv`), and
that from the drain of `stop()` on only a callback past its test of `running_` can queue
(`DrainedInv`). The facts about sequences without repetitions come first.

**Forwarding.** `ForwardingInv` is `SocketsInv`, `NoSocketLeak` and `PcbInv`: they need each other, since a
descriptor is closed by whoever finds it in a table, and each handler is a lemma.

**Lifecycle.** What is inductive is `CallAtStep`: for each call, the steps that remain are
a suffix of the call (or of its clean-up), and each suffix goes with the resources, threads and flags at that
point. The proof follows every call from step to step and the threads beside it.

**Tunnel.** No nonce and no packet is used twice because the indices that name a handshake are fresh: until the
reset that goes with its keys, no counter, window, packet or session belongs to it (`HandshakesFresh`,
`OwnersPast`, `KeysPast`, then `CountersInv`, `WindowInv`, `PrevInv`), and because no two threads are between
load and store of a counter: `send_mutex` sees to it for `wg_rekey` (`MutexInv`), for the rest `CountersInv` holds until
`raced` says otherwise (`CountersClean`). `CallInv` says what
`wg_connect` and `wg_rekey` have reached at each step, `DefaultInv` what `WG_OK` by default comes from and that it alone
leaves `rekey_in_progress` set, `CoherentInv` and `SerialInv` what that means for
the session in the scenarios that leave it whole.

**Peers.** `PeersInv`: until two threads have overlapped on an entry, handshakes in progress are new
(`HandshakesFresh`), a counter taken is used once (`CountersInv`), and the receive thread has in the
session what it has of the handshake (`InstallInv`).

**Noise.** A key is a term that remembers what was mixed into it, and `Chain` and `Mixed` take it apart:
a transport key names the ephemerals of both ends. `AnswersInv`: a response is damaged, or
its sender has the session it announces. `HsInv`: a state that waits is the one
`wg_handshake_init` left for the public key it was addressed to. If a response opens, key and hash of the two
ends are equal, hence the chaining keys, and the hash names the responder, the initiator and the initiation
(`OpenedResponse`); the properties of X25519 are not even needed, since what does not agree does not open. Freshness:
no two responders have one ephemeral (`RespondersInv`), and the ephemeral of an initiator's session waits in no slot
any more (`InitiatorsInv`). Cookies: one that opens under the key of `peer_public` comes from that
node, and until the first replacement `peer_public` is still that node's when the cookie is used (`CookieInv`).

Only model-checked, on the instances above:

- liveness, out of the prover's reach: `QueuedIsTaken`, `StopReturns`, `CommittedIsTaken`,
  `InputReturns`, `RekeyEnds`, `OutputReturns`, `CallsReturn`, `EndIsNoticed`;
- the algorithms: `TagIsDefined`, `OpensWhatWasSealed`, `HashIsDefined`, `KeyTextIsKey`. What their
  recursive definitions compute would need induction over the message, and the bit operations of `Words32`
  have no prover.

## 5. What the code does that the properties are worded around

Replay window, ring, receive path:

- A counter whose word was reused can be accepted a second time (`wg_counter.c` 10).
- `stop()` may leave one slot in the queue; `recv_cb` may be NULL when it is called, or
  called with a NULL relay, while `start()` or `stop()` stores the two words.

Session and peers:

- A nonce may be used twice: by `wg_connect`'s keepalive, which takes no `send_mutex`
  (`wireguard.c` 398), and a `wg_send` on another thread; or by a `wg_send` that meets
  the new keys of an install and the old counter (`wg_noise.c` 422).
- A packet may be handed over twice when the session is replaced between its match and
  the check of its counter (`wireguard.c` 640-696).
- `wg_connect` and `wg_rekey` may return `WG_OK` without a handshake and leave
  `rekey_in_progress` set (`wireguard.c` 369, 441-447).
- When the peer's handshake is installed while `wg_rekey` waits, a `wg_rekey` that times
  out puts its saved index over the new session's (`wireguard.c` 479).
- After several attempts `prev_session` has the index of the attempt before the last.
- `wg_send_to_peer` tests neither age nor counter limit.
- After a passive handshake the keepalive goes to the first connected peer of the table,
  not to the one that initiated (`wireguard.c` 597-600).
- A response that does not decrypt has already replaced `remote_index`, and for a peer also
  the handshake state, so that the right response is refused after it.
- `last_mac1` is overwritten by passive handshakes; the cookie of the tunnel's peer is used
  towards every peer of the table, and not cleared when `peer_public` is replaced; timestamps of initiations are not compared.

Lifecycle and forwarding:

- `wg_relay_stop` and `wg_relay_destroy` leave their callback registered; `client_addr`
  is overwritten without a lock while the callback may read it.
- `startTcpRelay` does not use its `targetPort`.
- An entry of `tcpConnections_` whose target has closed stays under the closed number until a
  client's connection gets that number or `stop()`; connections never established stay
  until `stop()`.
- lwIP keeps a pointer to a deleted connection after `tcp_close` and after the target has
  closed, and its next callback uses it.
- The vector and the scalar ChaCha20 differ when the 32-bit block counter wraps; the
  library starts it at 0 and a packet is short. The third and fourth character of a
  base64 group are not checked for being in the alphabet.

## 6. Not modelled

- Memory ordering weaker than program order, and stores inside one step of an install
  seen one by one; a `pending_response` overwritten while it is read (it does not
  decrypt).
- Behaviours of Peers after two threads have overlapped on an entry without the mutex.
- Socket calls and name resolution of the platform, and the bytes that Forwarding and the
  UDP relay copy: I/O without state of its own.
- X25519: a term that commutes. The field arithmetic of Monocypher has 255-bit
  numbers; its Argon2, BLAKE2b, EdDSA and Elligator are not called by the library.
- wg-tester: a test program; its vectors and comments are used.
