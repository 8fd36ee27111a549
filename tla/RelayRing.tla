----------------------------- MODULE RelayRing ------------------------------
(***************************************************************************)
(* The ring between the relay's receiver and the tunnel's receive thread   *)
(* (src/platform_switch.c).  The producer thread calls wg_relay_input for  *)
(* each packet of a burst and wg_relay_commit after the burst; the         *)
(* receive thread takes packets in wg_socket_recv.  The two threads share  *)
(* no lock: writing and reading a slot take two steps each.                *)
(***************************************************************************)
EXTENDS Integers, Sequences, FiniteSets

CONSTANTS RING_SLOTS,   \* 256 in the code
          RESERVE,      \* the 4 of RING_SLOTS - 4
          SEQ_MOD,      \* the sequence numbers' range, 2^32 in the code
          MaxPackets,   \* bound: packets handed to wg_relay_input
          MaxBurst,     \* bound: packets between two commits
          MaxEmpty      \* bound: zero-length packets

ASSUME RingAssumption ==
  /\ RING_SLOTS \in Nat \ {0}
  /\ RESERVE \in 1 .. (RING_SLOTS - 1)
  /\ SEQ_MOD \in Nat \ {0}
  /\ SEQ_MOD % RING_SLOTS = 0
  /\ SEQ_MOD > RING_SLOTS
  /\ MaxPackets \in Nat /\ MaxBurst \in Nat /\ MaxEmpty \in Nat

VARIABLES
  ring,         \* g_ring: the packet in each slot, its length class, whole or not
  g_wseq_local, g_wseq,
  rseq,         \* the static rseq of wg_socket_recv
  prodPc,       \* the producer, inside wg_relay_input
  consPc,       \* the receive thread, inside wg_socket_recv
  len,          \* the length of the packet being input
  copied,       \* the packet memcpy started from
  burst,        \* packets since the last commit
  written, committed, taken,  \* history: the three positions, never wrapping
  empties,      \* history: positions of zero-length packets
  lapped,       \* history: an unread slot was overwritten
  delivered     \* history: what wg_socket_recv returned, until then

seqVars  == <<g_wseq_local, g_wseq, rseq>>
histVars == <<written, committed, taken, empties, delivered, lapped>>
vars == <<ring, g_wseq_local, g_wseq, rseq, prodPc, consPc, len, copied, burst,
          written, committed, taken, empties, delivered, lapped>>

Lengths == {"empty", "data"}
NoPacket == [n |-> 0, len |-> "empty", whole |-> TRUE]
Slot(seq) == seq % RING_SLOTS

\* Subtraction of uint32_t values.
Minus(a, b) == (a + SEQ_MOD - b) % SEQ_MOD
Plus(a, b)  == (a + b) % SEQ_MOD

Init ==
  /\ ring = [i \in 0 .. (RING_SLOTS - 1) |-> NoPacket]
  /\ g_wseq_local = 0 /\ g_wseq = 0 /\ rseq = 0
  /\ prodPc = "idle" /\ consPc = "look"
  /\ len = "empty" /\ copied = NoPacket /\ burst = 0
  /\ written = 0 /\ committed = 0 /\ taken = 0
  /\ empties = {} /\ delivered = <<>> /\ lapped = FALSE

-----------------------------------------------------------------------------
(* The producer. *)

\* wg_relay_input is called; a packet longer than RING_DATA_MAX changes nothing.
InputCall(l) ==
  /\ prodPc = "idle" /\ written < MaxPackets /\ burst < MaxBurst
  /\ l = "empty" => Cardinality(empties) < MaxEmpty
  /\ len' = l
  /\ prodPc' = "wait"
  /\ UNCHANGED <<ring, seqVars, consPc, copied, burst, histVars>>

\* Mutation of RingFull: the whole ring may be uncommitted.
RingFullNoReserve == Minus(g_wseq_local, g_wseq) >= RING_SLOTS

\* Mutation of RingFull: one slot more is held back.
RingFullEarly == Minus(g_wseq_local, g_wseq) >= RING_SLOTS - RESERVE - 1

\* The condition of the waiting loop.
RingFull == Minus(g_wseq_local, g_wseq) >= RING_SLOTS - RESERVE

\* The loop is left and the slot's length and first bytes are written.
InputWrite ==
  /\ prodPc = "wait" /\ ~RingFull
  /\ ring' = [ring EXCEPT ![Slot(g_wseq_local)] =
                [n |-> written, len |-> len, whole |-> FALSE]]
  /\ lapped' = (lapped \/ written - taken >= RING_SLOTS)
  /\ delivered' = IF lapped' THEN <<>> ELSE delivered
  /\ empties' = IF len = "empty" THEN empties \cup {written} ELSE empties
  /\ prodPc' = "copy"
  /\ UNCHANGED <<seqVars, consPc, len, copied, burst, written, committed, taken>>

\* memcpy is done and g_wseq_local advances.
InputDone ==
  /\ prodPc = "copy"
  /\ ring' = [ring EXCEPT ![Slot(g_wseq_local)] =
                [n |-> written, len |-> len, whole |-> TRUE]]
  /\ g_wseq_local' = Plus(g_wseq_local, 1)
  /\ written' = written + 1
  /\ burst' = burst + 1
  /\ len' = "empty" /\ prodPc' = "idle"
  /\ UNCHANGED <<g_wseq, rseq, consPc, copied, committed, taken, empties,
                 delivered, lapped>>

\* wg_relay_commit.
Commit ==
  /\ prodPc = "idle" /\ burst > 0
  /\ g_wseq' = g_wseq_local
  /\ committed' = written
  /\ burst' = 0
  /\ UNCHANGED <<ring, g_wseq_local, rseq, prodPc, consPc, len, copied, written,
                 taken, empties, delivered, lapped>>

-----------------------------------------------------------------------------
(* The receive thread, in the relay branch of wg_socket_recv. *)

\* Mutation of CatchUp: the thread skips when the ring is exactly full.
CatchUpEarly(w) ==
  IF Minus(w, rseq) >= RING_SLOTS THEN Plus(Minus(w, RING_SLOTS), 1) ELSE rseq

\* if (w - rseq > RING_SLOTS) rseq = w - RING_SLOTS + 1
CatchUp(w) ==
  IF Minus(w, rseq) > RING_SLOTS THEN Plus(Minus(w, RING_SLOTS), 1) ELSE rseq

\* Mutation of RecvLook: the test is rseq > w.
RecvLookAtEnd ==
  /\ consPc = "look" /\ rseq <= g_wseq
  /\ rseq' = CatchUp(g_wseq)
  /\ taken' = taken + Minus(CatchUp(g_wseq), rseq)
  /\ consPc' = "read"
  /\ UNCHANGED <<ring, g_wseq_local, g_wseq, prodPc, len, copied, burst, written,
                 committed, empties, delivered, lapped>>

\* Mutation of RecvLook: the last committed packet is left in the ring.
RecvLookShort ==
  /\ consPc = "look" /\ rseq + 1 < g_wseq
  /\ rseq' = CatchUp(g_wseq)
  /\ taken' = taken + Minus(CatchUp(g_wseq), rseq)
  /\ consPc' = "read"
  /\ UNCHANGED <<ring, g_wseq_local, g_wseq, prodPc, len, copied, burst, written,
                 committed, empties, delivered, lapped>>

\* g_wseq is loaded; with rseq >= w the thread sleeps and tries again, or times
\* out.
RecvLook ==
  /\ consPc = "look" /\ rseq < g_wseq
  /\ rseq' = CatchUp(g_wseq)
  /\ taken' = taken + Minus(CatchUp(g_wseq), rseq)
  /\ consPc' = "read"
  /\ UNCHANGED <<ring, g_wseq_local, g_wseq, prodPc, len, copied, burst, written,
                 committed, empties, delivered, lapped>>

\* slot_len is zero: the slot is skipped.
RecvSkip ==
  /\ consPc = "read" /\ ring[Slot(rseq)].len = "empty"
  /\ rseq' = Plus(rseq, 1)
  /\ taken' = taken + 1
  /\ consPc' = "look"
  /\ UNCHANGED <<ring, g_wseq_local, g_wseq, prodPc, len, copied, burst, written,
                 committed, empties, delivered, lapped>>

\* memcpy from the slot starts.
RecvCopy ==
  /\ consPc = "read" /\ ring[Slot(rseq)].len = "data"
  /\ copied' = ring[Slot(rseq)]
  /\ consPc' = "copy"
  /\ UNCHANGED <<ring, seqVars, prodPc, len, burst, histVars>>

\* memcpy ends; the copy is whole if the slot was whole and is still the same.
RecvDone ==
  /\ consPc = "copy"
  /\ delivered' = IF lapped THEN <<>> ELSE Append(delivered,
       [n |-> copied.n, whole |-> copied.whole /\ ring[Slot(rseq)] = copied])
  /\ rseq' = Plus(rseq, 1)
  /\ taken' = taken + 1
  /\ copied' = NoPacket /\ consPc' = "look"
  /\ UNCHANGED <<ring, g_wseq_local, g_wseq, prodPc, len, burst, written, committed,
                 empties, lapped>>

Producer == (\E l \in Lengths : InputCall(l)) \/ InputWrite \/ InputDone \/ Commit
Consumer == RecvLook \/ RecvSkip \/ RecvCopy \/ RecvDone

Next == Producer \/ Consumer

Spec == Init /\ [][Next]_vars

\* Both are running threads: the receive thread keeps calling wg_socket_recv,
\* a call of wg_relay_input runs on when its loop lets it, and the burst is
\* followed by its commit.
Fairness ==
  /\ WF_vars(Consumer)
  /\ WF_vars(InputWrite \/ InputDone)
  /\ WF_vars(Commit)

FairSpec == Spec /\ Fairness

-----------------------------------------------------------------------------
(* Properties. *)

Packets == [n : Nat, len : Lengths, whole : BOOLEAN]

\* Type invariant: sequence numbers stay in their range, and the wrapping ones
\* agree with the positions they stand for.
TypeOK ==
  /\ ring \in [0 .. (RING_SLOTS - 1) -> Packets]
  /\ {g_wseq_local, g_wseq, rseq} \subseteq 0 .. (SEQ_MOD - 1)
  /\ prodPc \in {"idle", "wait", "copy"} /\ consPc \in {"look", "read", "copy"}
  /\ len \in Lengths /\ copied \in Packets /\ burst \in 0 .. MaxBurst
  /\ {written, committed, taken} \subseteq Nat
  /\ empties \subseteq Nat
  /\ delivered \in Seq([n : Nat, whole : BOOLEAN])
  /\ lapped \in BOOLEAN
  /\ g_wseq_local = written % SEQ_MOD /\ g_wseq = committed % SEQ_MOD
  /\ rseq = taken % SEQ_MOD

\* The receive thread never takes a position that was not committed, not even
\* when it skips ahead to catch up or when g_wseq has wrapped.
NeverAhead == taken + (IF consPc = "look" THEN 0 ELSE 1) <= committed

\* The packets at positions from .. to - 1, as the channel has them, when the
\* positions in E are those of the empty ones.
PacketsOf(from, to, E) ==
  [i \in 1 .. (to - from) |-> [n |-> from + i - 1, empty |-> (from + i - 1) \in E]]
Span(from, to) == IF lapped THEN <<>> ELSE PacketsOf(from, to, empties)

\* What d, packets returned by wg_socket_recv, is to the channel: a packet that is
\* not whole is none of those put in.
Returned(d) == [i \in DOMAIN d |-> IF d[i].whole THEN d[i].n ELSE -1]

Channel == INSTANCE RelayChannel WITH
  count <- IF lapped THEN 0 ELSE written,
  batch <- Span(committed, written),
  queue <- Span(taken, committed),
  out <- Returned(delivered),
  broken <- lapped

\* The ring implements the channel: until an unread slot is overwritten,
\* wg_socket_recv returns what wg_relay_input got, once each, whole, in
\* order and without gaps, nothing before its burst is committed, and no empty
\* packet.
ImplementsChannel == Channel!Spec

\* The reserve is what protects the ring: an unread slot is overwritten only
\* when the receive thread is more than RESERVE committed packets behind.
LapNeedsBacklog ==
  [][lapped' /\ ~lapped => committed - taken > RESERVE]_vars

\* Every committed packet is taken from the ring, or overwritten and skipped,
\* as long as g_wseq has not wrapped: from then on rseq >= w holds the receive
\* thread up, for good if rseq has reached the largest sequence number.
CommittedIsTaken ==
  \A k \in 1 .. (SEQ_MOD - 1) : committed = k ~> taken >= k \/ committed >= SEQ_MOD

\* A call of wg_relay_input returns, whatever the receive thread does, unless the
\* burst it belongs to fills the ring up to the reserve: that wait ends only
\* with a commit of the waiting thread itself.
InputReturns == prodPc = "wait" ~> prodPc = "idle" \/ burst >= RING_SLOTS - RESERVE

\* What is in the ring, as long as nothing was overwritten: every position from
\* taken to written - 1 has its packet in its slot, and the receive thread's
\* copy is of the packet at taken.
PacketAt(p) == [n |-> p, len |-> IF p \in empties THEN "empty" ELSE "data", whole |-> TRUE]
RingHolds ==
  ~lapped =>
    /\ written - taken <= RING_SLOTS
    /\ prodPc = "copy" => written - taken < RING_SLOTS
    /\ \A p \in taken .. (written - 1) : ring[p % RING_SLOTS] = PacketAt(p)
    /\ consPc = "copy" => copied = PacketAt(taken) /\ taken \notin empties

\* The order of the positions: the producer never has more than the ring less
\* the reserve uncommitted, and has room for the packet it is inputting.
Positions ==
  /\ committed <= written /\ written - committed <= RING_SLOTS - RESERVE
  /\ prodPc = "copy" => written - committed < RING_SLOTS - RESERVE
  /\ prodPc # "idle" => burst < MaxBurst

\* The positions known to be empty, that of the packet being written included.
Writing ==
  /\ prodPc = "copy" => (written \in empties <=> len = "empty")
  /\ \A p \in empties : p < written \/ (p = written /\ prodPc = "copy")

\* The invariant that the proofs rest on.
RingInv ==
  /\ TypeOK
  /\ NeverAhead
  /\ Positions
  /\ Writing
  /\ lapped => delivered = <<>>
  /\ RingHolds

\* src/platform_switch.c:23, "Producer blocks when full, eliminating silent
\* packet loss": no unread packet is ever overwritten.
NoSilentLoss == ~lapped
=============================================================================
