--------------------------- MODULE RelayRing_proof ---------------------------
(***************************************************************************)
(* Proofs about RelayRing, for every size of ring, reserve and sequence    *)
(* number: the invariant behind it, and that it implements RelayChannel.   *)
(***************************************************************************)
EXTENDS RelayRing, SequenceTheorems, TLAPS

USE ZenonT(30)

-----------------------------------------------------------------------------
(* Remainders. *)

\* What % and \div are.
LEMMA ModDef ==
  ASSUME NEW a \in Nat, NEW m \in Nat \ {0}
  PROVE  a \div m \in Nat /\ a % m \in 0 .. (m - 1) /\ a = m * (a \div m) + (a % m)
BY SMT

\* A remainder is determined by its number being a multiple of m away.
LEMMA ModUnique ==
  ASSUME NEW m \in Nat \ {0}, NEW q \in Nat, NEW r \in 0 .. (m - 1), NEW a \in Nat,
         a = m * q + r
  PROVE  a % m = r
<1> DEFINE p == a \div m
<1>1. p \in Nat /\ a % m \in 0 .. (m - 1) /\ a = m * p + (a % m)
  BY ModDef
<1> HIDE DEF p
<1>2. CASE p >= q + 1
  <2>1. m * p >= m * (q + 1)
    BY SMT, <1>1, <1>2
  <2>2. m * (q + 1) = m * q + m
    BY SMT
  <2> QED
    BY SMT, <2>1, <2>2, <1>1
<1>3. CASE q >= p + 1
  <2>1. m * q >= m * (p + 1)
    BY SMT, <1>1, <1>3
  <2>2. m * (p + 1) = m * p + m
    BY SMT, <1>1
  <2> QED
    BY SMT, <2>1, <2>2, <1>1
<1>4. CASE p = q
  BY SMT, <1>1, <1>4
<1> QED
  BY SMT, <1>1, <1>2, <1>3, <1>4

\* A number below m is its own remainder.
LEMMA ModSmall ==
  ASSUME NEW m \in Nat \ {0}, NEW a \in Nat, a < m
  PROVE  a % m = a
<1>1. a = m * 0 + a
  BY SMT
<1> QED
  BY SMT, <1>1, ModUnique

\* Adding a multiple of m changes no remainder.
LEMMA ModShift ==
  ASSUME NEW m \in Nat \ {0}, NEW a \in Nat, NEW k \in Nat
  PROVE  (a + m * k) % m = a % m
<1> DEFINE p == a \div m
<1>1. p \in Nat /\ a % m \in 0 .. (m - 1) /\ a = m * p + (a % m)
  BY ModDef
<1> HIDE DEF p
<1>2. m * p + m * k = m * (p + k) /\ m * k \in Nat
  BY SMT, <1>1
<1> DEFINE b == a + m * k
<1> DEFINE r == a % m
<1> DEFINE q == p + k
<1>3. b \in Nat /\ q \in Nat /\ r \in 0 .. (m - 1) /\ b = m * q + r
  BY SMT, <1>1, <1>2
<1> HIDE DEF b, r, q
<1>4. b % m = r
  BY SMT, <1>3, ModUnique
<1> QED
  BY <1>4 DEF b, r

\* Fewer than m consecutive numbers have different remainders.
LEMMA ModDistinct ==
  ASSUME NEW m \in Nat \ {0}, NEW a \in Nat, NEW b \in Nat, a < b, b < a + m
  PROVE  a % m # b % m
<1> SUFFICES ASSUME a % m = b % m
             PROVE  FALSE
  OBVIOUS
<1> DEFINE p == a \div m
<1> DEFINE q == b \div m
<1>1. p \in Nat /\ q \in Nat /\ a % m \in 0 .. (m - 1) /\ a = m * p + (a % m) /\ b = m * q + (b % m)
  BY ModDef
<1> HIDE DEF p, q
<1>2. CASE q >= p + 1
  <2>1. m * q >= m * (p + 1)
    BY SMT, <1>1, <1>2
  <2>2. m * (p + 1) = m * p + m
    BY SMT, <1>1
  <2> QED
    BY SMT, <2>1, <2>2, <1>1
<1>3. CASE p >= q
  <2>1. m * p >= m * q
    BY SMT, <1>1, <1>3
  <2> QED
    BY SMT, <2>1, <1>1
<1> QED
  BY SMT, <1>1, <1>2, <1>3

\* A remainder modulo a multiple of m keeps the remainder modulo m.
LEMMA ModMod ==
  ASSUME NEW m \in Nat \ {0}, NEW n \in Nat \ {0}, n % m = 0, NEW a \in Nat
  PROVE  (a % n) % m = a % m
<1> DEFINE p == a \div n
<1> DEFINE k == n \div m
<1>1. p \in Nat /\ a % n \in Nat /\ a = n * p + (a % n)
  BY SMT, ModDef
<1>2. k \in Nat /\ n = m * k
  BY SMT, ModDef
<1> HIDE DEF p, k
<1>3. n * p = m * (k * p) /\ k * p \in Nat
  BY SMT, <1>1, <1>2
<1>4. a = (a % n) + m * (k * p)
  BY SMT, <1>1, <1>3
<1>5. ((a % n) + m * (k * p)) % m = (a % n) % m
  BY <1>1, <1>3, ModShift
<1> QED
  BY <1>4, <1>5

-----------------------------------------------------------------------------
(* Sequence numbers and positions. *)

\* The constants, as numbers.
LEMMA Sizes ==
  /\ RING_SLOTS \in Nat \ {0} /\ SEQ_MOD \in Nat \ {0} /\ RESERVE \in Nat
  /\ RESERVE >= 1 /\ RESERVE < RING_SLOTS /\ RING_SLOTS < SEQ_MOD
  /\ MaxPackets \in Nat /\ MaxBurst \in Nat /\ MaxEmpty \in Nat
BY SMT, RingAssumption

\* The next sequence number is that of the next position.
LEMMA PlusOne ==
  ASSUME NEW a \in Nat
  PROVE  Plus(a % SEQ_MOD, 1) = (a + 1) % SEQ_MOD
<1> DEFINE M == SEQ_MOD
<1> DEFINE p == a \div M
<1> DEFINE r == a % M
<1>1. M \in Nat \ {0} /\ p \in Nat /\ r \in 0 .. (M - 1) /\ a = M * p + r
  BY Sizes, ModDef
<1> HIDE DEF p, r, M
<1>2. CASE r + 1 < M
  <2>1. (r + 1) % M = r + 1
    BY SMT, <1>1, <1>2, ModSmall
  <2>2. a + 1 = M * p + (r + 1)
    BY SMT, <1>1
  <2>3. (a + 1) % M = r + 1
    BY SMT, <1>1, <1>2, <2>2, ModUnique
  <2> QED
    BY <2>1, <2>3 DEF Plus, r, M
<1>3. CASE r + 1 = M
  <2>1. r + 1 = M * 1 + 0
    BY SMT, <1>1, <1>3
  <2>2. (r + 1) % M = 0
    BY SMT, <1>1, <2>1, ModUnique
  <2>3. M * (p + 1) = M * p + M
    BY SMT, <1>1
  <2>4. a + 1 = M * (p + 1) + 0
    BY SMT, <1>1, <1>3, <2>3
  <2>5. (a + 1) % M = 0
    BY SMT, <1>1, <2>4, ModUnique
  <2> QED
    BY <2>2, <2>5 DEF Plus, r, M
<1> QED
  BY SMT, <1>1, <1>2, <1>3

\* Subtraction of uint32_t values that does not wrap.
LEMMA MinusPlain ==
  ASSUME NEW x \in 0 .. (SEQ_MOD - 1), NEW y \in 0 .. (SEQ_MOD - 1), y <= x
  PROVE  Minus(x, y) = x - y
<1>1. x + SEQ_MOD - y = SEQ_MOD * 1 + (x - y)
  BY SMT, Sizes
<1>2. x - y \in 0 .. (SEQ_MOD - 1) /\ x + SEQ_MOD - y \in Nat
  BY SMT, Sizes
<1> QED
  BY SMT, <1>1, <1>2, Sizes, ModUnique DEF Minus

\* The difference of two sequence numbers is that of their positions, when
\* these are less than 2^32 apart.
LEMMA MinusPositions ==
  ASSUME NEW a \in Nat, NEW b \in Nat, b <= a, a - b < SEQ_MOD
  PROVE  Minus(a % SEQ_MOD, b % SEQ_MOD) = a - b
<1> DEFINE M == SEQ_MOD
<1> DEFINE p == a \div M
<1> DEFINE q == b \div M
<1> DEFINE ra == a % M
<1> DEFINE rb == b % M
<1>1. /\ M \in Nat \ {0} /\ p \in Nat /\ q \in Nat
      /\ ra \in 0 .. (M - 1) /\ rb \in 0 .. (M - 1)
      /\ a = M * p + ra /\ b = M * q + rb
  BY Sizes, ModDef
<1>m. a - b < M
  OBVIOUS
<1> HIDE DEF p, q, ra, rb, M
<1>2. CASE p = q
  <2>1. ra + M - rb = M * 1 + (a - b) /\ ra + M - rb \in Nat /\ a - b \in 0 .. (M - 1)
    BY SMT, <1>1, <1>2, <1>m
  <2>2. (ra + M - rb) % M = a - b
    BY SMT, <1>1, <2>1, ModUnique
  <2> QED
    BY <2>2 DEF Minus, ra, rb, M
<1>3. CASE p = q + 1
  <2>1. M * p = M * q + M
    BY SMT, <1>1, <1>3
  <2>2. ra + M - rb = a - b /\ a - b \in Nat
    BY SMT, <1>1, <2>1
  <2>3. (ra + M - rb) % M = a - b
    BY <1>1, <1>m, <2>2, ModSmall
  <2> QED
    BY <2>3 DEF Minus, ra, rb, M
<1>4. CASE p >= q + 2
  <2>1. M * p >= M * (q + 2)
    BY SMT, <1>1, <1>4
  <2>2. M * (q + 2) = M * q + M + M
    BY SMT, <1>1
  <2> QED
    BY SMT, <1>1, <1>m, <2>1, <2>2
<1>5. CASE q >= p + 1
  <2>1. M * q >= M * (p + 1)
    BY SMT, <1>1, <1>5
  <2>2. M * (p + 1) = M * p + M
    BY SMT, <1>1
  <2> QED
    BY SMT, <1>1, <2>1, <2>2
<1> QED
  BY SMT, <1>1, <1>2, <1>3, <1>4, <1>5

\* The slot of a sequence number is that of its position.
LEMMA SlotOf ==
  ASSUME NEW a \in Nat
  PROVE  Slot(a % SEQ_MOD) = a % RING_SLOTS /\ a % RING_SLOTS \in 0 .. (RING_SLOTS - 1)
<1>1. (a % SEQ_MOD) % RING_SLOTS = a % RING_SLOTS
  BY RingAssumption, ModMod
<1>2. a % RING_SLOTS \in 0 .. (RING_SLOTS - 1)
  BY Sizes, ModDef
<1> QED
  BY <1>1, <1>2 DEF Slot

-----------------------------------------------------------------------------
(* The invariant. *)

\* Where RecvLook leaves the receive thread: at a committed position, and where
\* it was unless the backlog was longer than the ring.
LEMMA LookPositions ==
  ASSUME TypeOK, taken <= committed, rseq < g_wseq
  PROVE  /\ CatchUp(g_wseq) \in 0 .. (SEQ_MOD - 1)
         /\ Minus(CatchUp(g_wseq), rseq) \in Nat
         /\ CatchUp(g_wseq) = (taken + Minus(CatchUp(g_wseq), rseq)) % SEQ_MOD
         /\ taken + Minus(CatchUp(g_wseq), rseq) + 1 <= committed
         /\ committed - taken <= RING_SLOTS => Minus(CatchUp(g_wseq), rseq) = 0
<1> DEFINE M == SEQ_MOD
<1> DEFINE R == RING_SLOTS
<1> DEFINE p == committed \div M
<1> DEFINE q == taken \div M
<1> DEFINE d == g_wseq - rseq
<1>1. /\ M \in Nat \ {0} /\ p \in Nat /\ q \in Nat /\ taken \in Nat /\ committed \in Nat
      /\ g_wseq \in 0 .. (M - 1) /\ rseq \in 0 .. (M - 1)
      /\ committed = M * p + g_wseq /\ taken = M * q + rseq
  BY Sizes, ModDef DEF TypeOK
<1>2. R \in Nat /\ R >= 2 /\ R < M
  BY SMT, Sizes
<1>3. rseq < g_wseq /\ taken <= committed
  OBVIOUS
<1>4. Minus(g_wseq, rseq) = d /\ d \in Nat /\ d >= 1
  BY SMT, <1>1, <1>3, MinusPlain
<1>5. p >= q
  <2>1. SUFFICES ASSUME p + 1 <= q PROVE FALSE
    BY SMT, <1>1
  <2> HIDE DEF p, q, M
  <2>2. M * (p + 1) <= M * q
    BY SMT, <1>1, <2>1
  <2>3. M * (p + 1) = M * p + M
    BY SMT, <1>1
  <2> QED
    BY SMT, <1>1, <1>3, <2>2, <2>3
<1>6. d <= committed - taken
  <2> HIDE DEF p, q, M
  <2>1. M * q <= M * p
    BY SMT, <1>1, <1>5
  <2> QED
    BY SMT, <1>1, <2>1
<1>7. CASE d > R
  <2>1. Minus(g_wseq, R) = g_wseq - R
    BY SMT, <1>1, <1>2, <1>7, MinusPlain
  <2>2. g_wseq - R + 1 \in 0 .. (M - 1)
    BY SMT, <1>1, <1>2, <1>7
  <2>3. CatchUp(g_wseq) = g_wseq - R + 1
    BY SMT, <1>1, <1>2, <1>4, <1>7, <2>1, <2>2, ModSmall DEF CatchUp, Plus
  <2>4. Minus(CatchUp(g_wseq), rseq) = d - R + 1
    BY SMT, <1>1, <1>2, <1>7, <2>2, <2>3, MinusPlain
  <2>5. taken + (d - R + 1) = M * q + (g_wseq - R + 1)
    BY SMT, <1>1, <1>2
  <2>6. taken + (d - R + 1) \in Nat
    BY SMT, <1>1, <1>2, <1>7
  <2>7. (taken + (d - R + 1)) % M = g_wseq - R + 1
    <3> DEFINE t == taken + (d - R + 1)
    <3> DEFINE c == g_wseq - R + 1
    <3>1. t \in Nat /\ c \in 0 .. (M - 1) /\ t = M * q + c /\ M \in Nat \ {0} /\ q \in Nat
      BY <1>1, <2>2, <2>5, <2>6
    <3> HIDE DEF q, M, t, c
    <3>2. t % M = c
      BY SMT, <3>1, ModUnique
    <3> QED
      BY <3>2 DEF t, c
  <2>8. taken + (d - R + 1) + 1 <= committed /\ d - R + 1 \in Nat
    BY SMT, <1>1, <1>2, <1>6, <1>7
  <2>9. committed - taken > R
    BY SMT, <1>1, <1>2, <1>6, <1>7
  <2> QED
    BY SMT, <1>1, <1>2, <2>2, <2>3, <2>4, <2>7, <2>8, <2>9
<1>8. CASE d <= R
  <2>1. CatchUp(g_wseq) = rseq
    BY SMT, <1>1, <1>2, <1>4, <1>8 DEF CatchUp
  <2>2. Minus(rseq, rseq) = 0
    BY SMT, <1>1, MinusPlain
  <2>3. taken + 1 <= committed
    BY SMT, <1>1, <1>4, <1>6
  <2>4. rseq = taken % SEQ_MOD
    BY DEF TypeOK
  <2> QED
    BY SMT, <1>1, <2>1, <2>2, <2>3, <2>4
<1> QED
  BY SMT, <1>1, <1>2, <1>4, <1>7, <1>8

\* RingInv holds initially: the ring is empty.
LEMMA InvInit == Init => RingInv
<1> SUFFICES ASSUME Init PROVE RingInv
  OBVIOUS
<1> USE DEF Init
<1>1. 0 % SEQ_MOD = 0
  BY SMT, Sizes, ModSmall
<1>2. TypeOK
  <2>1. NoPacket \in Packets
    BY DEF Packets, Lengths, NoPacket
  <2>2. ring \in [0 .. (RING_SLOTS - 1) -> Packets]
    BY <2>1
  <2>3. delivered \in Seq([n : Nat, whole : BOOLEAN])
    BY SMT
  <2>4. {g_wseq_local, g_wseq, rseq} \subseteq 0 .. (SEQ_MOD - 1) /\ burst \in 0 .. MaxBurst
    BY SMT, Sizes
  <2>5. {written, committed, taken} \subseteq Nat
    BY SMT
  <2>7. empties \subseteq Nat
    OBVIOUS
  <2>8. len \in Lengths /\ copied \in Packets /\ lapped \in BOOLEAN
    BY <2>1 DEF Lengths
  <2>9. prodPc \in {"idle", "wait", "copy"} /\ consPc \in {"look", "read", "copy"}
    OBVIOUS
  <2>6. g_wseq_local = written % SEQ_MOD /\ g_wseq = committed % SEQ_MOD /\ rseq = taken % SEQ_MOD
    BY <1>1
  <2> HIDE DEF Init
  <2> QED
    BY <2>2, <2>3, <2>4, <2>5, <2>6, <2>7, <2>8, <2>9 DEF TypeOK
<1>3. NeverAhead /\ Positions /\ Writing /\ RingHolds
  BY SMT, Sizes DEF NeverAhead, Positions, Writing, RingHolds
<1> QED
  BY <1>2, <1>3 DEF RingInv

\* InputCall touches no position and no slot.
LEMMA InvInputCall ==
  ASSUME RingInv, NEW l \in Lengths, InputCall(l)
  PROVE  RingInv'
<1> USE DEF RingInv, InputCall, seqVars, histVars
<1>1. TypeOK'
  BY DEF TypeOK
<1>2. NeverAhead' /\ Positions' /\ Writing'
  BY DEF NeverAhead, Positions, Writing
<1>3. RingHolds'
  BY DEF RingHolds, PacketAt
<1> QED
  BY <1>1, <1>2, <1>3

\* InputWrite overwrites the slot of no unread packet, unless it sets lapped.
LEMMA InvInputWrite ==
  ASSUME RingInv, InputWrite
  PROVE  RingInv'
<1> DEFINE s == written % RING_SLOTS
<1> USE DEF RingInv, InputWrite, seqVars
<1>1. /\ written \in Nat /\ committed \in Nat /\ taken \in Nat
      /\ g_wseq_local = written % SEQ_MOD /\ g_wseq = committed % SEQ_MOD
      /\ ring \in [0 .. (RING_SLOTS - 1) -> Packets] /\ len \in Lengths /\ empties \subseteq Nat
      /\ lapped \in BOOLEAN
  BY DEF TypeOK
<1>2. Slot(g_wseq_local) = s /\ s \in 0 .. (RING_SLOTS - 1)
  BY <1>1, SlotOf
<1>3. ring' = [ring EXCEPT ![s] = [n |-> written, len |-> len, whole |-> FALSE]]
  BY <1>2
<1>4. written - committed < RING_SLOTS - RESERVE
  <2>1. committed <= written /\ written - committed < SEQ_MOD
    BY SMT, <1>1, Sizes DEF Positions
  <2>2. Minus(g_wseq_local, g_wseq) = written - committed
    BY <1>1, <2>1, MinusPositions
  <2> QED
    BY SMT, <1>1, <2>2, Sizes DEF RingFull
<1>5. TypeOK'
  <2>1. ring' \in [0 .. (RING_SLOTS - 1) -> Packets]
    BY SMT, <1>1, <1>2, <1>3 DEF Packets
  <2>2. delivered' \in Seq([n : Nat, whole : BOOLEAN])
    BY EmptySeq DEF TypeOK
  <2>3. empties' \subseteq Nat /\ lapped' \in BOOLEAN
    BY <1>1
  <2> QED
    BY <2>1, <2>2, <2>3 DEF TypeOK
<1>6. NeverAhead' /\ Positions'
  BY <1>4 DEF NeverAhead, Positions
<1>7. Writing'
  <2>2. written \in empties' <=> len = "empty"
    BY SMT, <1>1 DEF Writing
  <2>3. \A p \in empties' : p < written \/ p = written
    BY <1>1 DEF Writing
  <2> QED
    BY <2>2, <2>3 DEF Writing
<1>8. RingHolds'
  <2> SUFFICES ASSUME ~lapped' PROVE RingHolds'
    BY DEF RingHolds
  <2>0. ~lapped /\ ~(written - taken >= RING_SLOTS)
    OBVIOUS
  <2>1. ~lapped /\ written - taken < RING_SLOTS
    <3> HIDE DEF RingInv, InputWrite
    <3> QED
      BY SMT, <1>1, <2>0, Sizes
  <2>2. ASSUME NEW p \in taken .. (written - 1)
        PROVE  ring'[p % RING_SLOTS] = PacketAt(p)'
    <3>1. p \in Nat /\ p < written /\ written - p < RING_SLOTS
      BY SMT, <1>1, <2>1, Sizes
    <3>2. p % RING_SLOTS # s /\ p % RING_SLOTS \in 0 .. (RING_SLOTS - 1)
      <4> HIDE DEF RingInv, InputWrite
      <4>1. written < p + RING_SLOTS
        BY SMT, <1>1, <3>1, Sizes
      <4>2. p % RING_SLOTS # s
        BY <1>1, <3>1, <4>1, ModDistinct, Sizes
      <4> QED
        BY <3>1, <4>2, ModDef, Sizes
    <3>3. ring[p % RING_SLOTS] = PacketAt(p)
      BY <2>1 DEF RingHolds
    <3>4. p \in empties' <=> p \in empties
      BY SMT, <3>1
    <3> QED
      BY <1>1, <1>2, <1>3, <3>2, <3>3, <3>4 DEF PacketAt
  <2>3. consPc = "copy" => copied = PacketAt(taken) /\ taken \notin empties /\ taken < written
    BY SMT, <1>1, <2>1 DEF RingHolds, NeverAhead, Positions
  <2>4. consPc = "copy" => copied' = PacketAt(taken)' /\ taken' \notin empties'
    BY SMT, <1>1, <2>3 DEF PacketAt
  <2> QED
    BY <1>1, <2>1, <2>2, <2>4 DEF RingHolds
<1>9. lapped' => delivered' = <<>>
  OBVIOUS
<1> QED
  BY <1>5, <1>6, <1>7, <1>8, <1>9

\* InputDone makes the slot whole: it then holds the packet at written.
LEMMA InvInputDone ==
  ASSUME RingInv, InputDone
  PROVE  RingInv'
<1> DEFINE s == written % RING_SLOTS
<1> USE DEF RingInv, InputDone
<1>1. /\ written \in Nat /\ committed \in Nat /\ taken \in Nat
      /\ g_wseq_local = written % SEQ_MOD
      /\ ring \in [0 .. (RING_SLOTS - 1) -> Packets] /\ len \in Lengths /\ empties \subseteq Nat
  BY DEF TypeOK
<1>2. Slot(g_wseq_local) = s /\ s \in 0 .. (RING_SLOTS - 1)
  BY <1>1, SlotOf
<1>3. written \in empties <=> len = "empty"
  BY DEF Writing
<1>4. ring' = [ring EXCEPT ![s] = [n |-> written, len |-> len, whole |-> TRUE]]
  BY <1>2
<1>5. g_wseq_local' = written' % SEQ_MOD /\ written' % SEQ_MOD \in 0 .. (SEQ_MOD - 1)
  <2>1. g_wseq_local' = Plus(written % SEQ_MOD, 1) /\ written' = written + 1
    BY <1>1
  <2> HIDE DEF RingInv, InputDone
  <2>2. g_wseq_local' = (written + 1) % SEQ_MOD
    BY <1>1, <2>1, PlusOne
  <2>3. (written + 1) % SEQ_MOD \in 0 .. (SEQ_MOD - 1)
    BY SMT, <1>1, ModDef, Sizes
  <2> QED
    BY <2>1, <2>2, <2>3
<1>6. TypeOK'
  <2>1. ring' \in [0 .. (RING_SLOTS - 1) -> Packets]
    <3> DEFINE k == [n |-> written, len |-> len, whole |-> TRUE]
    <3>1. k \in Packets
      BY <1>1 DEF Packets
    <3> HIDE DEF RingInv, InputDone, s, k
    <3>2. ring' = [ring EXCEPT ![s] = k]
      BY <1>4 DEF k
    <3> QED
      BY <1>1, <1>2, <3>1, <3>2
  <2>2. burst' \in 0 .. MaxBurst
    <3>1. burst \in 0 .. MaxBurst /\ burst < MaxBurst /\ burst' = burst + 1
      BY DEF TypeOK, Positions
    <3> HIDE DEF RingInv, InputDone
    <3> QED
      BY SMT, <3>1, Sizes
  <2>3. len' \in Lengths /\ prodPc' \in {"idle", "wait", "copy"}
    BY DEF Lengths
  <2>4. {g_wseq_local', g_wseq', rseq'} \subseteq 0 .. (SEQ_MOD - 1)
    BY <1>5 DEF TypeOK
  <2>5. {written', committed', taken'} \subseteq Nat
    BY SMT, <1>1
  <2> QED
    BY <1>5, <2>1, <2>2, <2>3, <2>4, <2>5 DEF TypeOK
<1>7. NeverAhead' /\ Positions'
  BY SMT, <1>1, Sizes DEF NeverAhead, Positions
<1>8. Writing'
  BY SMT, <1>1 DEF Writing
<1>9. RingHolds'
  <2> SUFFICES ASSUME ~lapped PROVE RingHolds'
    BY DEF RingHolds
  <2>1. written - taken < RING_SLOTS
    BY DEF RingHolds
  <2>2. ASSUME NEW p \in taken .. written
        PROVE  ring'[p % RING_SLOTS] = PacketAt(p)'
    <3>1. CASE p = written
      <4>1. ring'[s] = [n |-> written, len |-> len, whole |-> TRUE]
        BY <1>1, <1>2, <1>4
      <4>2. len = (IF written \in empties THEN "empty" ELSE "data")
        BY <1>1, <1>3 DEF Lengths
      <4> QED
        BY <3>1, <4>1, <4>2 DEF PacketAt
    <3>2. CASE p < written
      <4>1. p \in Nat /\ written < p + RING_SLOTS /\ p \in taken .. (written - 1)
        BY SMT, <1>1, <2>1, <3>2, Sizes
      <4>2. p % RING_SLOTS # s
        BY <1>1, <3>2, <4>1, ModDistinct, Sizes
      <4>3. p % RING_SLOTS \in 0 .. (RING_SLOTS - 1)
        BY <4>1, ModDef, Sizes
      <4>4. ring[p % RING_SLOTS] = PacketAt(p)
        BY <4>1 DEF RingHolds
      <4> QED
        BY <1>1, <1>2, <1>4, <4>2, <4>3, <4>4 DEF PacketAt
    <3> QED
      BY SMT, <1>1, <3>1, <3>2
  <2>3. consPc' = "copy" => copied' = PacketAt(taken)' /\ taken' \notin empties'
    BY DEF RingHolds, PacketAt
  <2>4. written' - taken' <= RING_SLOTS /\ written' - 1 = written
    BY SMT, <1>1, <2>1, Sizes
  <2> QED
    BY <2>2, <2>3, <2>4 DEF RingHolds
<1> QED
  BY <1>6, <1>7, <1>8, <1>9

\* Commit publishes what was written.
LEMMA InvCommit ==
  ASSUME RingInv, Commit
  PROVE  RingInv'
<1> USE DEF RingInv, Commit
<1>1. TypeOK'
  <2>1. burst' \in 0 .. MaxBurst
    BY SMT, Sizes
  <2>2. {g_wseq_local', g_wseq', rseq'} \subseteq 0 .. (SEQ_MOD - 1)
    BY DEF TypeOK
  <2>3. {written', committed', taken'} \subseteq Nat /\ g_wseq' = committed' % SEQ_MOD
    BY DEF TypeOK
  <2> QED
    BY <2>1, <2>2, <2>3 DEF TypeOK
<1>2. NeverAhead' /\ Positions'
  <2>1. /\ written \in Nat /\ committed \in Nat /\ taken \in Nat
        /\ committed' = written /\ written' = written /\ taken' = taken
        /\ prodPc' = "idle" /\ consPc' = consPc /\ NeverAhead /\ committed <= written
    BY DEF TypeOK, Positions
  <2>2. NeverAhead'
    BY SMT, <2>1 DEF NeverAhead
  <2>3. Positions'
    BY SMT, <2>1, Sizes DEF Positions
  <2> QED
    BY <2>2, <2>3
<1>3. Writing' /\ RingHolds'
  BY DEF Writing, RingHolds, PacketAt
<1> QED
  BY <1>1, <1>2, <1>3

\* RecvLook moves the receive thread only past positions that were overwritten.
LEMMA InvRecvLook ==
  ASSUME RingInv, RecvLook
  PROVE  RingInv'
<1> DEFINE t == Minus(CatchUp(g_wseq), rseq)
<1> USE DEF RingInv, RecvLook
<1>1. taken \in Nat /\ committed \in Nat /\ written \in Nat /\ taken <= committed
  BY SMT DEF TypeOK, NeverAhead
<1>2. /\ rseq' \in 0 .. (SEQ_MOD - 1) /\ t \in Nat
      /\ rseq' = taken' % SEQ_MOD /\ taken' = taken + t
      /\ taken' + 1 <= committed
      /\ committed - taken <= RING_SLOTS => t = 0
  BY <1>1, LookPositions
<1> HIDE DEF t
<1>3. TypeOK'
  <2>1. {g_wseq_local', g_wseq', rseq'} \subseteq 0 .. (SEQ_MOD - 1)
    BY <1>2 DEF TypeOK
  <2>2. {written', committed', taken'} \subseteq Nat
    BY SMT, <1>1, <1>2
  <2>3. consPc' \in {"look", "read", "copy"}
    OBVIOUS
  <2> QED
    BY <1>2, <2>1, <2>2, <2>3 DEF TypeOK
<1>4. NeverAhead' /\ Positions' /\ Writing'
  BY <1>1, <1>2 DEF NeverAhead, Positions, Writing
<1>5. RingHolds'
  <2> SUFFICES ASSUME ~lapped PROVE RingHolds'
    BY DEF RingHolds
  <2>1. taken' = taken
    <3>1. written - taken <= RING_SLOTS
      BY DEF RingHolds
    <3>2. committed - taken <= RING_SLOTS
      BY SMT, <1>1, <3>1, Sizes DEF Positions
    <3> QED
      BY SMT, <1>1, <1>2, <3>2
  <2> QED
    BY <2>1 DEF RingHolds, PacketAt
<1> QED
  BY <1>3, <1>4, <1>5

\* After a packet is taken, skipped or copied, the rest of the ring is as it was.
LEMMA AfterTake ==
  ASSUME RingInv, consPc # "look", rseq' = Plus(rseq, 1), taken' = taken + 1,
         consPc' = "look",
         UNCHANGED <<ring, g_wseq_local, g_wseq, prodPc, len, burst, written,
                     committed, empties, lapped>>
  PROVE  /\ rseq' = taken' % SEQ_MOD /\ rseq' \in 0 .. (SEQ_MOD - 1)
         /\ NeverAhead' /\ Positions' /\ Writing' /\ RingHolds'
<1> USE DEF RingInv
<1>1. taken \in Nat /\ committed \in Nat /\ written \in Nat /\ rseq = taken % SEQ_MOD
  BY DEF TypeOK
<1>2. rseq' = taken' % SEQ_MOD
  BY <1>1, PlusOne
<1>3. taken' % SEQ_MOD \in 0 .. (SEQ_MOD - 1)
  BY SMT, <1>1, ModDef, Sizes
<1>4. NeverAhead' /\ Positions' /\ Writing'
  BY SMT, <1>1 DEF NeverAhead, Positions, Writing
<1>5. RingHolds'
  <2> SUFFICES ASSUME ~lapped PROVE RingHolds'
    BY DEF RingHolds
  <2>1. written - taken <= RING_SLOTS /\ (prodPc = "copy" => written - taken < RING_SLOTS)
    BY DEF RingHolds
  <2>2. written' - taken' <= RING_SLOTS /\ (prodPc' = "copy" => written' - taken' < RING_SLOTS)
    BY SMT, <1>1, <2>1, Sizes
  <2>3. ASSUME NEW p \in taken' .. (written' - 1)
        PROVE  ring'[p % RING_SLOTS] = PacketAt(p)'
    <3>1. p \in taken .. (written - 1)
      BY SMT, <1>1
    <3> QED
      BY <3>1 DEF RingHolds, PacketAt
  <2> QED
    BY <2>2, <2>3 DEF RingHolds
<1> QED
  BY <1>2, <1>3, <1>4, <1>5

\* RecvSkip takes an empty packet.
LEMMA InvRecvSkip ==
  ASSUME RingInv, RecvSkip
  PROVE  RingInv'
<1> USE DEF RecvSkip
<1>1. /\ rseq' = taken' % SEQ_MOD /\ rseq' \in 0 .. (SEQ_MOD - 1)
      /\ NeverAhead' /\ Positions' /\ Writing' /\ RingHolds'
  BY AfterTake
<1>2. TypeOK'
  <2>1. {g_wseq_local', g_wseq', rseq'} \subseteq 0 .. (SEQ_MOD - 1)
    BY <1>1 DEF RingInv, TypeOK
  <2>2. {written', committed', taken'} \subseteq Nat
    BY SMT DEF RingInv, TypeOK
  <2> QED
    BY <1>1, <2>1, <2>2 DEF RingInv, TypeOK
<1> QED
  BY <1>1, <1>2 DEF RingInv

\* RecvCopy starts from the packet at taken, unless that was overwritten.
LEMMA InvRecvCopy ==
  ASSUME RingInv, RecvCopy
  PROVE  RingInv'
<1> USE DEF RingInv, RecvCopy, seqVars, histVars
<1>1. /\ taken \in Nat /\ committed \in Nat /\ written \in Nat /\ rseq = taken % SEQ_MOD
      /\ ring \in [0 .. (RING_SLOTS - 1) -> Packets]
  BY DEF TypeOK
<1>2. Slot(rseq) = taken % RING_SLOTS /\ taken % RING_SLOTS \in 0 .. (RING_SLOTS - 1)
  BY <1>1, SlotOf
<1>3. copied' = ring[taken % RING_SLOTS] /\ copied' \in Packets
  BY <1>1, <1>2
<1>4. TypeOK'
  BY <1>3 DEF TypeOK
<1>5. NeverAhead' /\ Positions' /\ Writing'
  BY DEF NeverAhead, Positions, Writing
<1>6. RingHolds'
  <2> SUFFICES ASSUME ~lapped PROVE RingHolds'
    BY DEF RingHolds
  <2>1. taken \in taken .. (written - 1)
    BY SMT, <1>1 DEF NeverAhead, Positions
  <2>2. copied' = PacketAt(taken)
    BY <1>3, <2>1 DEF RingHolds
  <2>3. copied'.len = "data"
    BY <1>2, <1>3
  <2>4. taken \notin empties
    BY SMT, <2>2, <2>3 DEF PacketAt
  <2> QED
    BY <2>2, <2>4 DEF RingHolds, PacketAt
<1> QED
  BY <1>4, <1>5, <1>6

\* RecvDone returns the copy.
LEMMA InvRecvDone ==
  ASSUME RingInv, RecvDone
  PROVE  RingInv'
<1> USE DEF RecvDone
<1>1. /\ rseq' = taken' % SEQ_MOD /\ rseq' \in 0 .. (SEQ_MOD - 1)
      /\ NeverAhead' /\ Positions' /\ Writing' /\ RingHolds'
  BY AfterTake
<1>2. delivered' \in Seq([n : Nat, whole : BOOLEAN])
  <2> DEFINE e == [n |-> copied.n, whole |-> copied.whole /\ ring[Slot(rseq)] = copied]
  <2>1. copied.n \in Nat
    BY DEF RingInv, TypeOK, Packets
  <2>2. e \in [n : Nat, whole : BOOLEAN]
    BY <2>1
  <2>3. delivered \in Seq([n : Nat, whole : BOOLEAN])
    BY DEF RingInv, TypeOK
  <2>4. delivered' = IF lapped THEN <<>> ELSE Append(delivered, e)
    OBVIOUS
  <2> HIDE DEF e, RecvDone
  <2>5. Append(delivered, e) \in Seq([n : Nat, whole : BOOLEAN])
    BY <2>2, <2>3, AppendProperties
  <2>6. CASE lapped
    BY SMT, <2>4, <2>6
  <2>7. CASE ~lapped
    BY <2>4, <2>5, <2>7
  <2> QED
    BY <2>6, <2>7
<1>3. TypeOK'
  <2>1. {g_wseq_local', g_wseq', rseq'} \subseteq 0 .. (SEQ_MOD - 1)
    BY <1>1 DEF RingInv, TypeOK
  <2>2. {written', committed', taken'} \subseteq Nat
    BY SMT DEF RingInv, TypeOK
  <2>3. copied' \in Packets
    BY DEF NoPacket, Packets, Lengths
  <2> QED
    BY <1>1, <1>2, <2>1, <2>2, <2>3 DEF RingInv, TypeOK
<1>4. lapped' => delivered' = <<>>
  OBVIOUS
<1> QED
  BY <1>1, <1>3, <1>4 DEF RingInv

\* Every step preserves RingInv.
LEMMA InvNext == RingInv /\ [Next]_vars => RingInv'
<1> SUFFICES ASSUME RingInv, [Next]_vars PROVE RingInv'
  OBVIOUS
<1>1. CASE UNCHANGED vars
  BY <1>1 DEF vars, RingInv, TypeOK, NeverAhead, Positions, Writing, RingHolds, PacketAt
<1>2. ASSUME NEW l \in Lengths, InputCall(l) PROVE RingInv'
  BY <1>2, InvInputCall
<1>3. CASE InputWrite
  BY <1>3, InvInputWrite
<1>4. CASE InputDone
  BY <1>4, InvInputDone
<1>5. CASE Commit
  BY <1>5, InvCommit
<1>6. CASE RecvLook
  BY <1>6, InvRecvLook
<1>7. CASE RecvSkip
  BY <1>7, InvRecvSkip
<1>8. CASE RecvCopy
  BY <1>8, InvRecvCopy
<1>9. CASE RecvDone
  BY <1>9, InvRecvDone
<1> QED
  BY <1>1, <1>2, <1>3, <1>4, <1>5, <1>6, <1>7, <1>8, <1>9 DEF Next, Producer, Consumer

\* RingInv is an invariant of the ring, for every size of ring, reserve and
\* sequence number.
THEOREM RingInvariant == Spec => []RingInv
BY InvInit, InvNext, PTL DEF Spec

\* The type invariant holds: the wrapping sequence numbers always agree with the
\* positions they stand for.
THEOREM RingTypeCorrect == Spec => []TypeOK
<1>1. RingInv => TypeOK
  BY DEF RingInv
<1> QED
  BY <1>1, RingInvariant, PTL

\* wg_socket_recv never takes a position that wg_relay_commit has not published.
THEOREM RingNeverAhead == Spec => []NeverAhead
<1>1. RingInv => NeverAhead
  BY DEF RingInv
<1> QED
  BY <1>1, RingInvariant, PTL

\* wg_relay_input overwrites an unread slot only when the receive thread is more
\* than RESERVE committed packets behind.
THEOREM RingLapNeedsBacklog == Spec => LapNeedsBacklog
<1>1. ASSUME RingInv, [Next]_vars
      PROVE  [lapped' /\ ~lapped => committed - taken > RESERVE]_vars
  <2> SUFFICES ASSUME lapped', ~lapped PROVE committed - taken > RESERVE
    OBVIOUS
  <2>1. InputWrite
    BY <1>1 DEF Next, Producer, Consumer, vars, histVars, InputCall, InputDone, Commit,
                RecvLook, RecvSkip, RecvCopy, RecvDone
  <2>2. written - taken >= RING_SLOTS
    BY <2>1 DEF InputWrite
  <2>3. /\ written \in Nat /\ committed \in Nat /\ taken \in Nat /\ committed <= written
        /\ g_wseq_local = written % SEQ_MOD /\ g_wseq = committed % SEQ_MOD
        /\ written - committed <= RING_SLOTS - RESERVE /\ ~RingFull
    BY <1>1, <2>1 DEF RingInv, TypeOK, Positions, InputWrite
  <2>6. written - committed < SEQ_MOD
    BY SMT, <2>3, Sizes
  <2>4. Minus(g_wseq_local, g_wseq) = written - committed
    BY <2>3, <2>6, MinusPositions
  <2>5. written - committed < RING_SLOTS - RESERVE
    BY SMT, <2>3, <2>4, Sizes DEF RingFull
  <2> QED
    BY SMT, <2>2, <2>3, <2>5, Sizes
<1> QED
  BY <1>1, RingInvariant, PTL DEF Spec, LapNeedsBacklog

-----------------------------------------------------------------------------
(* The channel: the sequences of packets between two positions. *)

Entries == [n : Nat, empty : BOOLEAN]

\* PacketsOf is a sequence, one entry per position.
LEMMA PacketsOfSeq ==
  ASSUME NEW a \in Nat, NEW b \in Nat, a <= b, NEW E
  PROVE  /\ PacketsOf(a, b, E) \in Seq(Entries)
         /\ Len(PacketsOf(a, b, E)) = b - a
         /\ \A i \in 1 .. (b - a) :
              PacketsOf(a, b, E)[i] = [n |-> a + i - 1, empty |-> (a + i - 1) \in E]
<1> DEFINE s == PacketsOf(a, b, E)
<1> DEFINE k == b - a
<1>1. k \in Nat
  BY SMT
<1>2. s = [i \in 1 .. k |-> [n |-> a + i - 1, empty |-> (a + i - 1) \in E]]
  BY DEF PacketsOf
<1>3. \A i \in 1 .. k : [n |-> a + i - 1, empty |-> (a + i - 1) \in E] \in Entries
  BY SMT DEF Entries
<1>4. s \in [1 .. k -> Entries]
  BY <1>2, <1>3
<1> HIDE DEF s, k
<1>5. s \in Seq(Entries)
  BY <1>1, <1>4, SeqDef
<1>6. DOMAIN s = 1 .. k
  BY <1>4
<1>7. Len(s) \in Nat /\ DOMAIN s = 1 .. Len(s)
  BY <1>5, LenProperties
<1>8. Len(s) = k
  BY SMT, <1>1, <1>6, <1>7
<1> QED
  BY <1>2, <1>5, <1>8 DEF s, k

\* No packets lie between a position and itself.
LEMMA PacketsOfNone ==
  ASSUME NEW a \in Nat, NEW E
  PROVE  PacketsOf(a, a, E) = <<>>
<1>1. PacketsOf(a, a, E) \in Seq(Entries) /\ Len(PacketsOf(a, a, E)) = 0
  BY SMT, PacketsOfSeq
<1> QED
  BY <1>1, EmptySeq

\* One more packet.
LEMMA PacketsOfAppend ==
  ASSUME NEW a \in Nat, NEW b \in Nat, a <= b, NEW E
  PROVE  PacketsOf(a, b + 1, E) = Append(PacketsOf(a, b, E), [n |-> b, empty |-> b \in E])
<1> DEFINE s == PacketsOf(a, b, E)
<1> DEFINE t == PacketsOf(a, b + 1, E)
<1> DEFINE e == [n |-> b, empty |-> b \in E]
<1>1. s \in Seq(Entries) /\ Len(s) = b - a
  BY PacketsOfSeq
<1>2. t \in Seq(Entries) /\ Len(t) = b + 1 - a
  BY SMT, PacketsOfSeq
<1>3. e \in Entries
  BY SMT DEF Entries
<1>4. ASSUME NEW i \in 1 .. (b - a) PROVE t[i] = s[i]
  <2>1. s[i] = [n |-> a + i - 1, empty |-> (a + i - 1) \in E]
    BY SMT, PacketsOfSeq
  <2>2. b + 1 \in Nat /\ a <= b + 1 /\ i \in 1 .. (b + 1 - a)
    BY SMT
  <2>3. t[i] = [n |-> a + i - 1, empty |-> (a + i - 1) \in E]
    BY SMT, <2>2, PacketsOfSeq
  <2> QED
    BY <2>1, <2>3
<1>5. t[b - a + 1] = e
  <2>1. b - a + 1 \in 1 .. (b + 1 - a) /\ a + (b - a + 1) - 1 = b
    BY SMT
  <2> QED
    BY SMT, <2>1, PacketsOfSeq
<1> HIDE DEF s, t, e
<1>6. /\ Append(s, e) \in Seq(Entries) /\ Len(Append(s, e)) = Len(s) + 1
      /\ \A i \in 1 .. Len(s) : Append(s, e)[i] = s[i]
      /\ Append(s, e)[Len(s) + 1] = e
  BY SMT, <1>1, <1>3, AppendProperties
<1>7. \A i \in 1 .. Len(t) : t[i] = Append(s, e)[i]
  BY SMT, <1>1, <1>2, <1>4, <1>5, <1>6
<1>8. t = Append(s, e)
  BY SMT, <1>1, <1>2, <1>6, <1>7, SeqEqual
<1> QED
  BY <1>8 DEF s, t, e

\* s \o t under a name, which the provers do not take apart.
Joined(s, t) == s \o t

\* Two adjacent stretches.
LEMMA PacketsOfConcat ==
  ASSUME NEW a \in Nat, NEW b \in Nat, NEW c \in Nat, a <= b, b <= c, NEW E
  PROVE  PacketsOf(a, c, E) = Joined(PacketsOf(a, b, E), PacketsOf(b, c, E))
<1> DEFINE s == PacketsOf(a, b, E)
<1> DEFINE t == PacketsOf(b, c, E)
<1> DEFINE u == PacketsOf(a, c, E)
<1>0. a <= c
  BY SMT
<1>u. u \in Seq(Entries) /\ Len(u) = c - a
  BY <1>0, PacketsOfSeq
<1>s. s \in Seq(Entries) /\ Len(s) = b - a
  BY PacketsOfSeq
<1>t. t \in Seq(Entries) /\ Len(t) = c - b
  BY PacketsOfSeq
<1>1. /\ s \in Seq(Entries) /\ Len(s) = b - a
      /\ t \in Seq(Entries) /\ Len(t) = c - b
      /\ u \in Seq(Entries) /\ Len(u) = c - a
  BY <1>s, <1>t, <1>u
<1>2. ASSUME NEW i \in 1 .. (b - a) PROVE u[i] = s[i]
  <2>1. s[i] = [n |-> a + i - 1, empty |-> (a + i - 1) \in E]
    BY SMT, PacketsOfSeq
  <2>2. i \in 1 .. (c - a)
    BY SMT
  <2>3. u[i] = [n |-> a + i - 1, empty |-> (a + i - 1) \in E]
    BY SMT, <1>0, <2>2, PacketsOfSeq
  <2> QED
    BY <2>1, <2>3
<1>3. ASSUME NEW i \in (b - a + 1) .. (c - a) PROVE u[i] = t[i - (b - a)]
  <2>0. i \in 1 .. (c - a)
    BY SMT
  <2>1. u[i] = [n |-> a + i - 1, empty |-> (a + i - 1) \in E]
    BY SMT, <1>0, <2>0, PacketsOfSeq
  <2>2. i - (b - a) \in 1 .. (c - b) /\ b + (i - (b - a)) - 1 = a + i - 1
    BY SMT
  <2> QED
    BY SMT, <2>1, <2>2, PacketsOfSeq
<1> HIDE DEF s, t, u
<1>4. /\ s \o t \in Seq(Entries) /\ Len(s \o t) = Len(s) + Len(t)
      /\ \A i \in 1 .. Len(s) + Len(t) :
           (s \o t)[i] = IF i <= Len(s) THEN s[i] ELSE t[i - Len(s)]
  BY <1>1, ConcatProperties
<1>5. ASSUME NEW i \in 1 .. Len(u) PROVE u[i] = (s \o t)[i]
  <2>1. CASE i <= b - a
    <3>1. i \in 1 .. (b - a) /\ i \in 1 .. Len(s) + Len(t) /\ i <= Len(s)
      BY SMT, <1>1, <2>1
    <3>2. (s \o t)[i] = s[i]
      BY <1>4, <3>1
    <3> QED
      BY <1>2, <3>1, <3>2
  <2>2. CASE i > b - a
    <3>1. i \in (b - a + 1) .. (c - a) /\ i \in 1 .. Len(s) + Len(t) /\ ~(i <= Len(s))
      BY SMT, <1>1, <2>2
    <3>2. (s \o t)[i] = t[i - Len(s)]
      BY <1>4, <3>1
    <3>3. u[i] = t[i - (b - a)]
      BY <1>3, <3>1
    <3> QED
      BY <1>1, <3>2, <3>3
  <2> QED
    BY SMT, <1>1, <2>1, <2>2
<1>6. Len(u) = Len(s \o t)
  BY SMT, <1>1, <1>4
<1>7. u = s \o t
  BY <1>1, <1>4, <1>5, <1>6, SeqEqual
<1> QED
  BY <1>7 DEF s, t, u, Joined

\* The first packet and the others.
LEMMA PacketsOfHead ==
  ASSUME NEW a \in Nat, NEW b \in Nat, a < b, NEW E
  PROVE  /\ PacketsOf(a, b, E) # <<>>
         /\ Head(PacketsOf(a, b, E)) = [n |-> a, empty |-> a \in E]
         /\ Tail(PacketsOf(a, b, E)) = PacketsOf(a + 1, b, E)
<1> DEFINE s == PacketsOf(a, b, E)
<1> DEFINE t == PacketsOf(a + 1, b, E)
<1>1. s \in Seq(Entries) /\ Len(s) = b - a
  BY SMT, PacketsOfSeq
<1>2. t \in Seq(Entries) /\ Len(t) = b - (a + 1)
  BY SMT, PacketsOfSeq
<1>3. s[1] = [n |-> a, empty |-> a \in E]
  <2>1. 1 \in 1 .. (b - a) /\ a + 1 - 1 = a
    BY SMT
  <2> QED
    BY SMT, <2>1, PacketsOfSeq
<1>4. ASSUME NEW i \in 1 .. (b - (a + 1)) PROVE t[i] = s[i + 1]
  <2>1. t[i] = [n |-> a + 1 + i - 1, empty |-> (a + 1 + i - 1) \in E]
    BY SMT, PacketsOfSeq
  <2>2. i + 1 \in 1 .. (b - a) /\ a + (i + 1) - 1 = a + 1 + i - 1
    BY SMT
  <2>3. s[i + 1] = [n |-> a + (i + 1) - 1, empty |-> (a + (i + 1) - 1) \in E]
    <3> DEFINE j == i + 1
    <3>1. j \in 1 .. (b - a)
      BY <2>2
    <3> HIDE DEF j
    <3>2. s[j] = [n |-> a + j - 1, empty |-> (a + j - 1) \in E]
      BY SMT, <3>1, PacketsOfSeq
    <3> QED
      BY <3>2 DEF j
  <2> QED
    BY <2>1, <2>2, <2>3
<1> HIDE DEF s, t
<1>5. s # <<>>
  BY SMT, <1>1, EmptySeq
<1>6. /\ Tail(s) \in Seq(Entries) /\ Len(Tail(s)) = Len(s) - 1
      /\ \A i \in 1 .. Len(Tail(s)) : Tail(s)[i] = s[i + 1]
  BY <1>1, <1>5, HeadTailProperties
<1>7. Len(Tail(s)) = Len(t) /\ \A i \in 1 .. Len(Tail(s)) : Tail(s)[i] = t[i]
  BY SMT, <1>1, <1>2, <1>4, <1>6
<1>8. Tail(s) = t
  BY <1>2, <1>6, <1>7, SeqEqual
<1>9. Head(s) = s[1]
  BY SMT, <1>1, <1>5
<1> QED
  BY <1>3, <1>5, <1>8, <1>9 DEF s, t

\* Only the empty positions between a and b matter.
LEMMA PacketsOfSame ==
  ASSUME NEW a \in Nat, NEW b \in Nat, a <= b, NEW E, NEW F,
         \A p \in Nat : p < b => (p \in E <=> p \in F)
  PROVE  PacketsOf(a, b, E) = PacketsOf(a, b, F)
<1> DEFINE s == PacketsOf(a, b, E)
<1> DEFINE t == PacketsOf(a, b, F)
<1>1. s \in Seq(Entries) /\ Len(s) = b - a
  BY PacketsOfSeq
<1>2. t \in Seq(Entries) /\ Len(t) = b - a
  BY PacketsOfSeq
<1>3. ASSUME NEW i \in 1 .. (b - a) PROVE s[i] = t[i]
  <2>1. s[i] = [n |-> a + i - 1, empty |-> (a + i - 1) \in E]
    BY SMT, PacketsOfSeq
  <2>2. t[i] = [n |-> a + i - 1, empty |-> (a + i - 1) \in F]
    BY SMT, PacketsOfSeq
  <2>3. a + i - 1 \in Nat /\ a + i - 1 < b
    BY SMT
  <2>4. ((a + i - 1) \in E) = ((a + i - 1) \in F)
    BY SMT, <2>3
  <2> QED
    BY <2>1, <2>2, <2>4
<1> HIDE DEF s, t
<1>4. s = t
  BY <1>1, <1>2, <1>3, SeqEqual
<1> QED
  BY <1>4 DEF s, t

Deliveries == [n : Nat, whole : BOOLEAN]

\* Returned maps one by one.
LEMMA ReturnedSeq ==
  ASSUME NEW d \in Seq(Deliveries)
  PROVE  /\ Returned(d) \in Seq(Int) /\ Len(Returned(d)) = Len(d)
         /\ \A i \in 1 .. Len(d) : Returned(d)[i] = IF d[i].whole THEN d[i].n ELSE -1
<1> DEFINE r == Returned(d)
<1> DEFINE k == Len(d)
<1>1. k \in Nat /\ DOMAIN d = 1 .. k /\ \A i \in 1 .. k : d[i] \in Deliveries
  BY LenProperties
<1>2. r = [i \in 1 .. k |-> IF d[i].whole THEN d[i].n ELSE -1]
  BY <1>1 DEF Returned
<1>3. \A i \in 1 .. k : (IF d[i].whole THEN d[i].n ELSE -1) \in Int
  BY SMT, <1>1 DEF Deliveries
<1>4. r \in [1 .. k -> Int]
  BY <1>2, <1>3
<1> HIDE DEF r, k
<1>5. r \in Seq(Int)
  BY SMT, <1>1, <1>4, SeqDef
<1>6. DOMAIN r = 1 .. k
  BY <1>4
<1>7. Len(r) \in Nat /\ DOMAIN r = 1 .. Len(r)
  BY <1>5, LenProperties
<1>8. Len(r) = k
  BY SMT, <1>1, <1>6, <1>7
<1> QED
  BY <1>2, <1>5, <1>8 DEF r, k

\* Nothing returned is nothing taken.
LEMMA ReturnedNone == Returned(<<>>) = <<>>
<1>1. <<>> \in Seq(Deliveries) /\ Len(<<>>) = 0
  BY EmptySeq
<1>2. Returned(<<>>) \in Seq(Int) /\ Len(Returned(<<>>)) = 0
  BY <1>1, ReturnedSeq
<1> QED
  BY <1>2, EmptySeq

\* One more packet returned is one more taken.
LEMMA ReturnedAppend ==
  ASSUME NEW d \in Seq(Deliveries), NEW p \in Nat
  PROVE  Returned(Append(d, [n |-> p, whole |-> TRUE])) = Append(Returned(d), p)
<1> DEFINE e == [n |-> p, whole |-> TRUE]
<1> DEFINE d2 == Append(d, e)
<1> DEFINE r == Returned(d)
<1> DEFINE r2 == Returned(d2)
<1>1. e \in Deliveries /\ e.whole /\ e.n = p
  BY DEF Deliveries
<1> HIDE DEF e
<1>2. /\ d2 \in Seq(Deliveries) /\ Len(d2) = Len(d) + 1 /\ d2[Len(d) + 1] = e
      /\ \A i \in 1 .. Len(d) : d2[i] = d[i]
  BY SMT, <1>1, AppendProperties
<1>3. Len(d) \in Nat
  BY LenProperties
<1> HIDE DEF d2
<1>4. /\ r \in Seq(Int) /\ Len(r) = Len(d)
      /\ \A i \in 1 .. Len(d) : r[i] = IF d[i].whole THEN d[i].n ELSE -1
  BY ReturnedSeq
<1>5. /\ r2 \in Seq(Int) /\ Len(r2) = Len(d) + 1
      /\ \A i \in 1 .. Len(d) + 1 : r2[i] = IF d2[i].whole THEN d2[i].n ELSE -1
  BY <1>2, ReturnedSeq
<1> HIDE DEF r, r2
<1>6. /\ Append(r, p) \in Seq(Int) /\ Len(Append(r, p)) = Len(r) + 1
      /\ \A i \in 1 .. Len(r) : Append(r, p)[i] = r[i]
      /\ Append(r, p)[Len(r) + 1] = p
  BY SMT, <1>4, AppendProperties
<1>7. ASSUME NEW i \in 1 .. Len(r2) PROVE r2[i] = Append(r, p)[i]
  <2>1. CASE i \in 1 .. Len(d)
    <3>1. r2[i] = IF d2[i].whole THEN d2[i].n ELSE -1
      BY <1>5
    <3>2. d2[i] = d[i] /\ r[i] = IF d[i].whole THEN d[i].n ELSE -1
      BY <1>2, <1>4, <2>1
    <3>3. Append(r, p)[i] = r[i]
      BY <1>4, <1>6, <2>1
    <3> QED
      BY <3>1, <3>2, <3>3
  <2>2. CASE i = Len(d) + 1
    <3>1. r2[i] = IF e.whole THEN e.n ELSE -1
      BY <1>2, <1>5, <2>2
    <3>2. Append(r, p)[i] = p
      BY <1>4, <1>6, <2>2
    <3> QED
      BY <1>1, <3>1, <3>2
  <2>3. i \in 1 .. Len(d) \/ i = Len(d) + 1
    <3>1. i \in 1 .. (Len(d) + 1)
      BY <1>5
    <3> QED
      BY SMT, <1>3, <3>1
  <2> QED
    BY <2>1, <2>2, <2>3
<1>8. r2 = Append(r, p)
  BY <1>4, <1>5, <1>6, <1>7, SeqEqual
<1> QED
  BY <1>8 DEF r, r2, d2, e

-----------------------------------------------------------------------------
(* The refinement. *)

\* What a step of the ring is to the channel once it is broken: no step.
LEMMA StepBroken ==
  ASSUME RingInv, RingInv', [Next]_vars, lapped
  PROVE  UNCHANGED Channel!chan
<1>1. lapped' = TRUE /\ lapped = TRUE
  BY DEF RingInv, TypeOK, Next, Producer, Consumer, vars, histVars, InputCall, InputWrite,
         InputDone, Commit, RecvLook, RecvSkip, RecvCopy, RecvDone
<1>2. delivered = <<>> /\ delivered' = <<>>
  BY <1>1 DEF RingInv
<1> QED
  BY <1>1, <1>2 DEF Channel!chan, Span, Returned

\* The step that overwrites an unread slot breaks the channel.
LEMMA StepBreak ==
  ASSUME RingInv, RingInv', ~lapped, lapped'
  PROVE  Channel!Break
<1>1. lapped' = TRUE /\ lapped = FALSE
  BY DEF RingInv, TypeOK
<1>2. delivered' = <<>>
  BY <1>1 DEF RingInv
<1>3. Returned(delivered)' = <<>>
  BY <1>2, ReturnedNone DEF Returned
<1> QED
  BY <1>1, <1>3 DEF Channel!Break, Span

\* What the channel's variables are while nothing was overwritten.
LEMMA Whole ==
  ASSUME RingInv, RingInv', ~lapped, ~lapped'
  PROVE  /\ lapped = FALSE /\ lapped' = FALSE
         /\ written \in Nat /\ committed \in Nat /\ taken \in Nat
         /\ taken <= committed /\ committed <= written
         /\ (consPc # "look" => taken < committed)
         /\ Span(committed, written) = PacketsOf(committed, written, empties)
         /\ Span(taken, committed) = PacketsOf(taken, committed, empties)
         /\ Span(committed, written)' = PacketsOf(committed', written', empties')
         /\ Span(taken, committed)' = PacketsOf(taken', committed', empties')
         /\ (IF lapped THEN 0 ELSE written) = written
         /\ (IF lapped' THEN 0 ELSE written') = written'
<1>1. lapped = FALSE /\ lapped' = FALSE
  BY DEF RingInv, TypeOK
<1>2. written \in Nat /\ committed \in Nat /\ taken \in Nat
  BY DEF RingInv, TypeOK
<1>3. /\ taken <= committed /\ committed <= written
      /\ (consPc # "look" => taken < committed)
  BY SMT, <1>2 DEF RingInv, NeverAhead, Positions
<1>4. /\ Span(committed, written) = PacketsOf(committed, written, empties)
      /\ Span(taken, committed) = PacketsOf(taken, committed, empties)
      /\ (IF lapped THEN 0 ELSE written) = written
  BY <1>1 DEF Span
<1>5. /\ Span(committed, written)' = PacketsOf(committed', written', empties')
      /\ Span(taken, committed)' = PacketsOf(taken', committed', empties')
      /\ (IF lapped' THEN 0 ELSE written') = written'
  BY <1>1 DEF Span, PacketsOf
<1> QED
  BY <1>1, <1>2, <1>3, <1>4, <1>5

\* InputWrite is no step of the channel while nothing is overwritten: the packet
\* is not in it yet.
LEMMA StepWrite ==
  ASSUME RingInv, RingInv', ~lapped, ~lapped', InputWrite
  PROVE  UNCHANGED Channel!chan
<1> USE Whole
<1>1. \A p \in Nat : p < written => (p \in empties <=> p \in empties')
  BY SMT DEF InputWrite
<1>2. PacketsOf(committed, written, empties) = PacketsOf(committed, written, empties')
  BY SMT, <1>1, PacketsOfSame
<1>3. \A p \in Nat : p < committed => (p \in empties <=> p \in empties')
  BY SMT, <1>1
<1>4. PacketsOf(taken, committed, empties) = PacketsOf(taken, committed, empties')
  BY SMT, <1>3, PacketsOfSame
<1>5. written' = written /\ committed' = committed /\ taken' = taken /\ delivered' = delivered
  BY DEF InputWrite
<1> QED
  BY <1>2, <1>4, <1>5 DEF Channel!chan, Returned

\* InputDone puts a packet.
LEMMA StepPut ==
  ASSUME RingInv, RingInv', ~lapped, ~lapped', InputDone
  PROVE  \E empty \in BOOLEAN : Channel!Put(empty)
<1> USE Whole
<1>1. /\ written' = written + 1 /\ committed' = committed /\ taken' = taken
      /\ delivered' = delivered /\ empties' = empties
  BY DEF InputDone
<1>2. PacketsOf(committed, written + 1, empties)
        = Append(PacketsOf(committed, written, empties), [n |-> written, empty |-> written \in empties])
  BY PacketsOfAppend
<1> DEFINE e == written \in empties
<1>3. e \in BOOLEAN
  BY SMT
<1>4. Channel!Put(e)
  BY <1>1, <1>2 DEF Channel!Put, Returned
<1> HIDE DEF e
<1> QED
  BY <1>3, <1>4

\* Commit publishes the batch.
LEMMA StepPublish ==
  ASSUME RingInv, RingInv', ~lapped, ~lapped', Commit
  PROVE  Channel!Publish
<1> USE Whole
<1>1. /\ written' = written /\ committed' = written /\ taken' = taken
      /\ delivered' = delivered /\ empties' = empties
  BY DEF Commit
<1>2. PacketsOf(written, written, empties) = <<>>
  BY PacketsOfNone
<1>3. PacketsOf(taken, written, empties)
        = PacketsOf(taken, committed, empties) \o PacketsOf(committed, written, empties)
  <2>1. /\ written \in Nat /\ committed \in Nat /\ taken \in Nat
        /\ taken <= committed /\ committed <= written
    BY Whole
  <2> QED
    <3>1. PacketsOf(taken, written, empties)
            = Joined(PacketsOf(taken, committed, empties), PacketsOf(committed, written, empties))
      BY SMT, <2>1, PacketsOfConcat
    <3> QED
      BY <3>1 DEF Joined
<1> QED
  BY <1>1, <1>2, <1>3 DEF Channel!Publish, Returned

\* RecvSkip takes an empty packet.
LEMMA StepSkip ==
  ASSUME RingInv, RingInv', ~lapped, ~lapped', RecvSkip
  PROVE  Channel!Take
<1> USE Whole
<1>1. /\ written' = written /\ committed' = committed /\ taken' = taken + 1
      /\ delivered' = delivered /\ empties' = empties /\ taken < committed
  BY DEF RecvSkip
<1>2. taken \in empties
  <2>1. taken \in taken .. (written - 1)
    BY SMT, <1>1
  <2>2. ring[taken % RING_SLOTS] = PacketAt(taken)
    BY <2>1 DEF RingInv, RingHolds
  <2>3. Slot(rseq) = taken % RING_SLOTS
    BY SlotOf DEF RingInv, TypeOK
  <2>4. PacketAt(taken).len = "empty"
    BY <2>2, <2>3 DEF RecvSkip
  <2> QED
    BY <2>4 DEF PacketAt
<1>3. /\ PacketsOf(taken, committed, empties) # <<>>
      /\ Head(PacketsOf(taken, committed, empties)) = [n |-> taken, empty |-> taken \in empties]
      /\ Tail(PacketsOf(taken, committed, empties)) = PacketsOf(taken + 1, committed, empties)
  BY <1>1, PacketsOfHead
<1>4. Head(PacketsOf(taken, committed, empties)).empty = TRUE
  <2>1. [n |-> taken, empty |-> taken \in empties] = [n |-> taken, empty |-> TRUE]
    BY ONLY Zenon, <1>2
  <2> QED
    BY SMT, <1>3, <2>1
<1> QED
  BY <1>1, <1>3, <1>4 DEF Channel!Take, Returned

\* RecvDone takes a packet and returns it whole.
LEMMA StepTake ==
  ASSUME RingInv, RingInv', ~lapped, ~lapped', RecvDone
  PROVE  Channel!Take
<1> USE Whole
<1>1. /\ written' = written /\ committed' = committed /\ taken' = taken + 1
      /\ empties' = empties /\ taken < committed
  BY DEF RecvDone
<1>2. copied = PacketAt(taken) /\ taken \notin empties
  BY DEF RingInv, RingHolds, RecvDone
<1>3. ring[Slot(rseq)] = copied
  <2>1. taken \in taken .. (written - 1)
    BY SMT, <1>1
  <2>2. ring[taken % RING_SLOTS] = PacketAt(taken)
    BY <2>1 DEF RingInv, RingHolds
  <2>3. Slot(rseq) = taken % RING_SLOTS
    BY SlotOf DEF RingInv, TypeOK
  <2> QED
    BY <1>2, <2>2, <2>3
<1>4. copied.n = taken /\ copied.whole = TRUE
  BY <1>2 DEF PacketAt
<1>5. delivered' = Append(delivered, [n |-> taken, whole |-> TRUE])
  BY <1>3, <1>4 DEF RecvDone
<1>6. delivered \in Seq(Deliveries)
  BY DEF RingInv, TypeOK, Deliveries
<1>7. Returned(delivered)' = Append(Returned(delivered), taken)
  <2>1. Returned(delivered)' = Returned(delivered')
    BY DEF Returned
  <2> QED
    BY <1>5, <1>6, <2>1, ReturnedAppend
<1>8. /\ PacketsOf(taken, committed, empties) # <<>>
      /\ Head(PacketsOf(taken, committed, empties)) = [n |-> taken, empty |-> taken \in empties]
      /\ Tail(PacketsOf(taken, committed, empties)) = PacketsOf(taken + 1, committed, empties)
  BY <1>1, PacketsOfHead
<1>9. /\ Head(PacketsOf(taken, committed, empties)).empty = FALSE
      /\ Head(PacketsOf(taken, committed, empties)).n = taken
  <2>0. (taken \in empties) = FALSE
    BY SMT, <1>2
  <2>1. [n |-> taken, empty |-> taken \in empties] = [n |-> taken, empty |-> FALSE]
    BY ONLY Zenon, <2>0
  <2> QED
    BY SMT, <1>8, <2>1
<1> QED
  BY <1>1, <1>7, <1>8, <1>9 DEF Channel!Take

\* RecvLook stays where it is while nothing was overwritten.
LEMMA StepLook ==
  ASSUME RingInv, RingInv', ~lapped, ~lapped', RecvLook
  PROVE  UNCHANGED Channel!chan
<1> USE Whole
<1>1. committed - taken <= RING_SLOTS
  <2>1. /\ written \in Nat /\ committed \in Nat /\ taken \in Nat
        /\ committed <= written /\ written - taken <= RING_SLOTS
    BY Whole DEF RingInv, RingHolds
  <2> QED
    BY ONLY <2>1, Sizes
<1>2. Minus(CatchUp(g_wseq), rseq) = 0
  BY <1>1, LookPositions DEF RingInv, RecvLook
<1>3. /\ written' = written /\ committed' = committed /\ taken' = taken
      /\ delivered' = delivered /\ empties' = empties
  BY SMT, <1>2 DEF RecvLook
<1> QED
  BY <1>3 DEF Channel!chan, Returned

\* A step that moves no packet is no step of the channel.
LEMMA StepNone ==
  ASSUME UNCHANGED histVars
  PROVE  UNCHANGED Channel!chan
BY DEF histVars, Channel!chan, Span, PacketsOf, Returned

\* The ring implements the channel (RelayChannel), for every size of ring, reserve
\* and sequence number: until an unread slot is overwritten, wg_socket_recv returns
\* what wg_relay_input got, once each, whole, in order and without gaps, nothing
\* before its burst is committed, and no empty packet.
THEOREM RingImplementsChannel == Spec => ImplementsChannel
<1>1. Init => Channel!Init
  <2> SUFFICES ASSUME Init PROVE Channel!Init
    OBVIOUS
  <2>1. PacketsOf(0, 0, {}) = <<>>
    BY PacketsOfNone
  <2> QED
    BY <2>1, ReturnedNone DEF Init, Channel!Init, Span
<1>2. RingInv /\ RingInv' /\ [Next]_vars => [Channel!Next]_(Channel!chan)
  <2> SUFFICES ASSUME RingInv, RingInv', [Next]_vars
               PROVE  Channel!Next \/ UNCHANGED Channel!chan
    OBVIOUS
  <2>1. CASE lapped
    BY <2>1, StepBroken
  <2>2. CASE ~lapped /\ lapped'
    BY <2>2, StepBreak DEF Channel!Next
  <2>3. CASE ~lapped /\ ~lapped'
    <3>1. CASE UNCHANGED vars
      BY <3>1, StepNone DEF vars, histVars
    <3>2. ASSUME NEW l \in Lengths, InputCall(l) PROVE UNCHANGED Channel!chan
      BY <3>2, StepNone DEF InputCall
    <3>3. CASE InputWrite
      BY <2>3, <3>3, StepWrite
    <3>4. CASE InputDone
      BY <2>3, <3>4, StepPut DEF Channel!Next
    <3>5. CASE Commit
      BY <2>3, <3>5, StepPublish DEF Channel!Next
    <3>6. CASE RecvLook
      BY <2>3, <3>6, StepLook
    <3>7. CASE RecvSkip
      BY <2>3, <3>7, StepSkip DEF Channel!Next
    <3>8. CASE RecvCopy
      BY <3>8, StepNone DEF RecvCopy
    <3>9. CASE RecvDone
      BY <2>3, <3>9, StepTake DEF Channel!Next
    <3> QED
      BY <3>1, <3>2, <3>3, <3>4, <3>5, <3>6, <3>7, <3>8, <3>9 DEF Next, Producer, Consumer
  <2> QED
    BY <2>1, <2>2, <2>3
<1> QED
  BY <1>1, <1>2, RingInvariant, PTL DEF Spec, ImplementsChannel, Channel!Spec
=============================================================================
