--------------------------- MODULE RecvPath_proof ---------------------------
(***************************************************************************)
(* Proofs about RecvPath, for every number of slots, of holders, of        *)
(* packets per iteration and of starts: RecvInv is inductive, and with it  *)
(* each slot has one owner, no wake-up is lost and stop() leaves at most   *)
(* one slot behind.                                                        *)
(***************************************************************************)
EXTENDS RecvPath, SequenceTheorems, TLAPS

USE ZenonT(30)

-----------------------------------------------------------------------------
(* Sequences without repetitions. *)

\* push_back of a new element.
LEMMA RangeAppend ==
  ASSUME NEW S, NEW q \in Seq(S), NEW x \in S
  PROVE  /\ Append(q, x) \in Seq(S)
         /\ Range(Append(q, x)) = Range(q) \cup {x}
         /\ NoRepeat(q) /\ x \notin Range(q) => NoRepeat(Append(q, x))
<1> DEFINE r == Append(q, x)
<1>1. /\ r \in Seq(S) /\ Len(q) \in Nat /\ Len(r) = Len(q) + 1
      /\ \A i \in 1 .. Len(q) : r[i] = q[i]
      /\ r[Len(q) + 1] = x
      /\ DOMAIN q = 1 .. Len(q) /\ DOMAIN r = 1 .. (Len(q) + 1)
  BY SMT, AppendProperties, LenProperties
<1> HIDE DEF r
<1>2. Range(r) = Range(q) \cup {x}
  BY SMT, <1>1 DEF Range
<1>3. NoRepeat(q) /\ x \notin Range(q) => NoRepeat(r)
  BY SMT, <1>1 DEF NoRepeat, Range
<1> QED
  BY <1>1, <1>2, <1>3 DEF r

\* Taking the first n elements from the front.
LEMMA RangeSplit ==
  ASSUME NEW S, NEW q \in Seq(S), NEW n \in Nat, n <= Len(q)
  PROVE  LET a == SubSeq(q, 1, n)
             b == SubSeq(q, n + 1, Len(q))
         IN  /\ a \in Seq(S) /\ b \in Seq(S)
             /\ Range(q) = Range(a) \cup Range(b)
             /\ NoRepeat(q) => NoRepeat(a) /\ NoRepeat(b) /\ Range(a) \cap Range(b) = {}
<1> DEFINE a == SubSeq(q, 1, n)
<1> DEFINE b == SubSeq(q, n + 1, Len(q))
<1>0. Len(q) \in Nat
  BY LenProperties
<1>1. Len(q) \in Nat /\ DOMAIN q = 1 .. Len(q)
  BY LenProperties
<1>2. /\ a \in Seq(S) /\ Len(a) = n /\ DOMAIN a = 1 .. n
      /\ \A i \in 1 .. n : a[i] = q[i]
  <2>1. /\ a \in Seq(S) /\ Len(a) = n /\ \A i \in 1 .. n : a[i] = q[i]
    BY SMT, <1>1, SubSeqProperties
  <2> QED
    BY <2>1, LenProperties
<1>3. /\ b \in Seq(S) /\ DOMAIN b = 1 .. (Len(q) - n)
      /\ \A i \in 1 .. (Len(q) - n) : b[i] = q[n + i]
  <2>1. /\ b \in Seq(S) /\ Len(b) = Len(q) - n
        /\ \A i \in 1 .. (Len(q) - n) : b[i] = q[n + i]
    <3>1. \A i \in (n + 1) .. Len(q) : q[i] \in S
      BY SMT, <1>1, ElementOfSeq
    <3>2. /\ b \in Seq(S)
          /\ Len(b) = IF n + 1 <= Len(q) THEN Len(q) - (n + 1) + 1 ELSE 0
          /\ \A i \in 1 .. (Len(q) - (n + 1) + 1) : b[i] = q[(n + 1) + i - 1]
      BY SMT, <1>1, <3>1, SubSeqProperties
    <3> HIDE DEF b
    <3>3. Len(q) - (n + 1) + 1 = Len(q) - n
      BY SMT, <1>1
    <3>4. Len(b) = Len(q) - n
      <4>1. CASE n + 1 <= Len(q)
        BY <3>2, <3>3, <4>1
      <4>2. CASE n = Len(q)
        <5>1. ~ (n + 1 <= Len(q)) /\ Len(q) - n = 0
          BY SMT, <1>1, <4>2
        <5> QED
          BY <3>2, <5>1
      <4>3. n + 1 <= Len(q) \/ n = Len(q)
        BY SMT, <1>0
      <4> QED
        BY <4>1, <4>2, <4>3
    <3>5. ASSUME NEW i \in 1 .. (Len(q) - n) PROVE b[i] = q[n + i]
      <4>1. (n + 1) + i - 1 = n + i
        BY SMT
      <4>2. b[i] = q[(n + 1) + i - 1]
        BY <3>2, <3>3
      <4> QED
        BY <4>1, <4>2
    <3> QED
      BY <3>2, <3>4, <3>5
  <2> QED
    BY <2>1, LenProperties
<1> HIDE DEF a, b
<1>4. Range(q) = Range(a) \cup Range(b)
  <2>1. ASSUME NEW i \in DOMAIN q PROVE q[i] \in Range(a) \cup Range(b)
    <3>1. CASE i <= n
      BY SMT, <1>1, <1>2, <3>1 DEF Range
    <3>2. CASE i > n
      <4>1. i - n \in DOMAIN b /\ b[i - n] = q[i]
        BY SMT, <1>1, <1>3, <3>2
      <4> QED
        BY <4>1 DEF Range
    <3> QED
      BY SMT, <1>1, <3>1, <3>2
  <2>2. Range(a) \subseteq Range(q)
    BY SMT, <1>1, <1>2 DEF Range
  <2>3. Range(b) \subseteq Range(q)
    BY SMT, <1>1, <1>3 DEF Range
  <2> QED
    BY <2>1, <2>2, <2>3 DEF Range
<1>5. ASSUME NoRepeat(q)
      PROVE  NoRepeat(a) /\ NoRepeat(b) /\ Range(a) \cap Range(b) = {}
  <2>1. NoRepeat(a)
    BY SMT, <1>1, <1>2, <1>5 DEF NoRepeat
  <2>2. NoRepeat(b)
    <3>1. ASSUME NEW i \in DOMAIN b, NEW j \in DOMAIN b, b[i] = b[j] PROVE i = j
      <4>1. n + i \in DOMAIN q /\ n + j \in DOMAIN q /\ q[n + i] = q[n + j]
        BY SMT, <1>1, <1>3, <3>1
      <4>2. n + i = n + j
        BY <4>1, <1>5 DEF NoRepeat
      <4> QED
        BY SMT, <4>2, <1>3
    <3> QED
      BY <3>1 DEF NoRepeat
  <2>3. ASSUME NEW i \in DOMAIN a, NEW j \in DOMAIN b PROVE a[i] # b[j]
    <3>1. /\ i \in DOMAIN q /\ n + j \in DOMAIN q /\ i # n + j
          /\ a[i] = q[i] /\ b[j] = q[n + j]
      BY SMT, <1>1, <1>2, <1>3
    <3> QED
      BY <3>1, <1>5 DEF NoRepeat
  <2> QED
    BY <2>1, <2>2, <2>3 DEF Range
<1> QED
  BY <1>2, <1>3, <1>4, <1>5 DEF a, b

\* Taking the first element.
LEMMA RangeHeadTail ==
  ASSUME NEW S, NEW q \in Seq(S), q # <<>>
  PROVE  /\ Head(q) \in S /\ Tail(q) \in Seq(S)
         /\ Range(q) = {Head(q)} \cup Range(Tail(q))
         /\ NoRepeat(q) => NoRepeat(Tail(q)) /\ Head(q) \notin Range(Tail(q))
<1> DEFINE t == Tail(q)
<1>1. /\ Head(q) \in S /\ t \in Seq(S) /\ Head(q) = q[1]
      /\ Len(q) \in Nat /\ Len(q) >= 1 /\ DOMAIN q = 1 .. Len(q)
      /\ DOMAIN t = 1 .. (Len(q) - 1)
      /\ \A i \in 1 .. (Len(q) - 1) : t[i] = q[i + 1]
  <2>1. /\ Head(q) \in S /\ t \in Seq(S) /\ Head(q) = q[1]
        /\ Len(t) = Len(q) - 1 /\ \A i \in 1 .. Len(t) : t[i] = q[i + 1]
    BY SMT, HeadTailProperties
  <2>2. Len(q) \in Nat /\ Len(q) # 0 /\ DOMAIN q = 1 .. Len(q)
    BY LenProperties, EmptySeq
  <2>3. DOMAIN t = 1 .. Len(t)
    BY <2>1, LenProperties
  <2> QED
    BY SMT, <2>1, <2>2, <2>3
<1> HIDE DEF t
<1>2. Range(q) = {q[1]} \cup Range(t)
  <2>1. ASSUME NEW i \in DOMAIN q, i # 1 PROVE q[i] \in Range(t)
    <3>1. i - 1 \in DOMAIN t /\ t[i - 1] = q[i]
      BY SMT, <1>1, <2>1
    <3> QED
      BY <3>1 DEF Range
  <2>2. Range(t) \subseteq Range(q) /\ q[1] \in Range(q)
    BY SMTT(30), <1>1 DEF Range
  <2> QED
    BY <2>1, <2>2 DEF Range
<1>3. ASSUME NoRepeat(q) PROVE NoRepeat(t) /\ q[1] \notin Range(t)
  <2>1. ASSUME NEW i \in DOMAIN t, NEW j \in DOMAIN t, t[i] = t[j] PROVE i = j
    <3>1. i + 1 \in DOMAIN q /\ j + 1 \in DOMAIN q /\ q[i + 1] = q[j + 1]
      BY SMT, <1>1, <2>1
    <3>2. i + 1 = j + 1
      BY <3>1, <1>3 DEF NoRepeat
    <3> QED
      BY SMT, <3>2, <1>1
  <2>2. ASSUME NEW i \in DOMAIN t PROVE t[i] # q[1]
    <3>1. i + 1 \in DOMAIN q /\ 1 \in DOMAIN q /\ i + 1 # 1 /\ t[i] = q[i + 1]
      BY SMT, <1>1
    <3> QED
      BY <3>1, <1>3 DEF NoRepeat
  <2> QED
    BY <2>1, <2>2 DEF NoRepeat, Range
<1> QED
  BY <1>1, <1>2, <1>3 DEF t

\* An empty queue has no elements.
LEMMA RangeEmpty == Range(<<>>) = {} /\ NoRepeat(<<>>)
BY SMT DEF Range, NoRepeat

-----------------------------------------------------------------------------
(* The invariant holds at the start. *)

\* Before start() is first called every slot is free.
LEMMA InitRecvInv == Init => RecvInv
<1> SUFFICES ASSUME Init PROVE RecvInv
  OBVIOUS
<1>1. Held = {}
  BY DEF Init, Held
<1>2. queue \in Seq(Slots) /\ batch \in Seq(Slots) /\ Len(queue) = 0
  BY SMT DEF Init
<1>3. TypeOK
  <2>1. holder \in [Holders -> Slots \cup {NoSlot}]
    BY DEF Init
  <2>2. starts \in 0 .. MaxStarts
    BY SMT, BoundAssumption DEF Init
  <2> QED
    BY <1>2, <2>1, <2>2 DEF Init, TypeOK, RecvStates, LoopStates, AppStates
<1>4. OneOwner
  BY <1>1, RangeEmpty, SlotAssumption DEF Init, OneOwner
<1>5. NoSlotLost
  BY DEF Init, NoSlotLost
<1>6. ControlInv /\ WakeInv /\ DrainedInv
  BY SMT, <1>2 DEF Init, ControlInv, WakeInv, DrainedInv
<1> QED
  BY <1>3, <1>4, <1>5, <1>6 DEF RecvInv, SlotsInv

-----------------------------------------------------------------------------
(* Where the threads are. *)

\* Every step of the receive thread, the loop thread and the application keeps
\* ControlInv.
LEMMA ControlStep ==
  ASSUME TypeOK, ControlInv, [Next]_vars
  PROVE  ControlInv'
<1> USE DEF TypeOK, ControlInv
<1>1. CASE RecvNext
  BY SMT, <1>1 DEF RecvNext, RecvAcquire, RecvDrop, RecvPlaintext, RecvLoadCb, RecvLoadUser,
       RecvCallback, RecvPush, RecvSignal, Release, SignalWake, cbVars, wakeVars,
       loopVars, appVars, poolVars
<1>2. CASE LoopStep
  BY SMT, <1>2 DEF LoopStep, LoopTop, LoopPoll, LoopDrain, LoopTake, LoopInject, LoopMore,
       LoopService, Release, SignalWake, recvVars, cbVars, wakeVars, appVars, poolVars,
       LoopStates
<1>3. ASSUME NEW h \in Holders, LwipFree(h) PROVE ControlInv'
  BY <1>3 DEF LwipFree, Release, recvVars, cbVars, wakeVars, loopVars, appVars
<1>4. CASE AppNext
  <2> USE DEF recvVars, cbVars, wakeVars, loopVars, appVars, poolVars
  <2>1. CASE AppStart
    BY <2>1 DEF AppStart
  <2>2. CASE AppSetCb
    BY <2>2 DEF AppSetCb
  <2>3. CASE AppSetUser
    BY <2>3 DEF AppSetUser
  <2>4. CASE AppSpawn
    BY <2>4 DEF AppSpawn
  <2>5. CASE AppStop
    BY <2>5 DEF AppStop
  <2>6. CASE AppStopWake
    BY <2>6 DEF AppStopWake, SignalWake
  <2>7. CASE AppJoin
    BY <2>7 DEF AppJoin
  <2>8. CASE AppDrain
    BY <2>8 DEF AppDrain
  <2>9. CASE AppAbort
    BY <2>9 DEF AppAbort
  <2> QED
    BY <1>4, <2>1, <2>2, <2>3, <2>4, <2>5, <2>6, <2>7, <2>8, <2>9 DEF AppNext, AppStopping
<1>5. CASE UNCHANGED vars
  BY <1>5 DEF vars
<1> QED
  BY <1>1, <1>2, <1>3, <1>4, <1>5 DEF Next, LoopNext

-----------------------------------------------------------------------------
(* Wake-ups. *)

\* No step of a thread leaves packets behind without a wake-up for them.
LEMMA WakeStep ==
  ASSUME TypeOK, ControlInv, WakeInv, [Next]_vars
  PROVE  WakeInv'
<1> USE DEF TypeOK, ControlInv, WakeInv
<1>1. CASE RecvNext
  <2> USE DEF cbVars, wakeVars, loopVars, appVars, poolVars
  <2>1. CASE RecvPush
    BY <2>1 DEF RecvPush
  <2>2. CASE RecvSignal
    BY <2>2 DEF RecvSignal, SignalWake
  <2> QED
    BY <1>1, <2>1, <2>2 DEF RecvNext, RecvAcquire, RecvDrop, RecvPlaintext, RecvLoadCb,
         RecvLoadUser, RecvCallback
<1>2. CASE LoopStep
  <2> USE DEF recvVars, cbVars, wakeVars, appVars, poolVars
  <2>1. CASE LoopTake
    BY <2>1 DEF LoopTake
  <2>2. CASE LoopMore
    BY <2>2 DEF LoopMore, SignalWake
  <2>3. CASE LoopDrain
    BY <2>3 DEF LoopDrain
  <2> QED
    BY <1>2, <2>1, <2>2, <2>3 DEF LoopStep, LoopTop, LoopPoll, LoopInject, LoopService
<1>3. ASSUME NEW h \in Holders, LwipFree(h) PROVE WakeInv'
  BY <1>3 DEF LwipFree, recvVars, cbVars, wakeVars, loopVars, appVars
<1>4. CASE AppNext
  <2> USE DEF recvVars, cbVars, wakeVars, loopVars, appVars, poolVars
  <2>1. CASE AppStart
    BY <2>1 DEF AppStart
  <2>2. CASE AppSetCb \/ AppSetUser \/ AppSpawn \/ AppStop
    BY <2>2 DEF AppSetCb, AppSetUser, AppSpawn, AppStop
  <2>3. CASE AppStopWake
    BY <2>3 DEF AppStopWake, SignalWake
  <2>4. CASE AppJoin \/ AppDrain \/ AppAbort
    BY <2>4 DEF AppJoin, AppDrain, AppAbort
  <2> QED
    BY <1>4, <2>1, <2>2, <2>3, <2>4 DEF AppNext, AppStopping
<1>5. CASE UNCHANGED vars
  BY <1>5 DEF vars
<1> QED
  BY <1>1, <1>2, <1>3, <1>4, <1>5 DEF Next, LoopNext

\* After the drain only the receive thread's last push reaches the queue.
LEMMA DrainedStep ==
  ASSUME TypeOK, ControlInv, DrainedInv, [Next]_vars
  PROVE  DrainedInv'
<1> USE DEF TypeOK, ControlInv, DrainedInv
<1>0. Len(queue) \in Nat
  BY LenProperties
<1>1. CASE RecvNext
  <2> USE DEF cbVars, wakeVars, loopVars, appVars, poolVars
  <2>1. CASE RecvPush
    <3>1. Len(queue') = Len(queue) + 1
      BY <2>1, AppendProperties DEF RecvPush
    <3> QED
      BY SMT, <1>0, <2>1, <3>1 DEF RecvPush
  <2> QED
    BY <1>0, <1>1, <2>1 DEF RecvNext, RecvAcquire, RecvDrop, RecvPlaintext, RecvLoadCb,
         RecvLoadUser, RecvCallback, RecvSignal
<1>2. CASE LoopNext
  BY <1>2 DEF LoopNext, LoopStep, LoopTop, LoopPoll, LoopDrain, LoopTake, LoopInject,
       LoopMore, LoopService, LwipFree, recvVars, cbVars, wakeVars, appVars, poolVars
<1>3. CASE AppNext
  <2> USE DEF recvVars, cbVars, wakeVars, loopVars, appVars, poolVars
  <2>1. CASE AppDrain
    BY SMT, <2>1 DEF AppDrain
  <2> QED
    BY <1>3, <2>1 DEF AppNext, AppStopping, AppStart, AppSetCb, AppSetUser, AppSpawn,
         AppStop, AppStopWake, AppJoin, AppAbort
<1>4. CASE UNCHANGED vars
  BY <1>4 DEF vars
<1> QED
  BY <1>1, <1>2, <1>3, <1>4 DEF Next

-----------------------------------------------------------------------------
(* Slots and their owners. *)

\* What the queue, the batch and the pbufs hold are slots.
LEMMA OwnersHoldSlots ==
  ASSUME TypeOK
  PROVE  Range(queue) \subseteq Slots /\ Range(batch) \subseteq Slots /\ Held \subseteq Slots
<1>1. Range(queue) \subseteq Slots /\ Range(batch) \subseteq Slots
  BY RangeOfSeq DEF TypeOK
<1>2. Held \subseteq Slots
  BY DEF TypeOK, Held
<1> QED
  BY <1>1, <1>2

\* A slot the receive thread acquires, drops or hands to the queue changes hands
\* once.
LEMMA SlotsRecvStep ==
  ASSUME SlotsInv, RecvNext
  PROVE  SlotsInv'
<1> USE DEF SlotsInv
<1>1. Range(queue) \subseteq Slots /\ Range(batch) \subseteq Slots /\ Held \subseteq Slots
  BY OwnersHoldSlots
<1>2. Held' = Held /\ batch' = batch /\ holder' = holder
  BY DEF RecvNext, RecvAcquire, RecvDrop, RecvPlaintext, RecvLoadCb, RecvLoadUser,
       RecvCallback, RecvPush, RecvSignal, loopVars, Held
<1>3. CASE RecvPush
  <2>1. /\ queue' \in Seq(Slots) /\ Range(queue') = Range(queue) \cup {recvSlot}
        /\ NoRepeat(queue')
    BY ZenonT(40), <1>3, RangeAppend DEF RecvPush, TypeOK, OneOwner
  <2>2. TypeOK'
    BY <1>3, <2>1 DEF RecvPush, TypeOK, RecvStates, poolVars, cbVars, wakeVars, loopVars, appVars
  <2>3. OneOwner'
    BY SMT, <1>1, <1>2, <1>3, <2>1, SlotAssumption DEF RecvPush, TypeOK, OneOwner, poolVars
  <2>4. NoSlotLost'
    BY <1>2, <1>3, <2>1 DEF RecvPush, NoSlotLost, poolVars
  <2> QED
    BY <2>2, <2>3, <2>4
<1>4. CASE RecvAcquire
  <2> USE DEF RecvAcquire, cbVars, wakeVars, loopVars, appVars
  <2>1. TypeOK'
    BY ZenonT(40), <1>4 DEF TypeOK, RecvStates
  <2>2. OneOwner'
    BY ZenonT(40), <1>1, <1>2, <1>4, SlotAssumption DEF TypeOK, OneOwner
  <2>3. NoSlotLost'
    BY <1>1, <1>2, <1>4, SlotAssumption DEF TypeOK, NoSlotLost
  <2> QED
    BY <2>1, <2>2, <2>3
<1>5. CASE RecvDrop \/ RecvLoadCb \/ RecvCallback
  <2> USE DEF RecvDrop, RecvLoadCb, RecvCallback, Release, cbVars, wakeVars, loopVars, appVars
  <2>1. TypeOK'
    BY SMT, <1>5 DEF TypeOK, RecvStates
  <2>2. OneOwner'
    BY SMT, <1>1, <1>2, <1>5, SlotAssumption DEF TypeOK, OneOwner
  <2>3. NoSlotLost'
    BY <1>1, <1>2, <1>5, SlotAssumption DEF TypeOK, NoSlotLost
  <2> QED
    BY <2>1, <2>2, <2>3
<1>6. CASE RecvPlaintext \/ RecvLoadUser \/ RecvSignal
  <2> USE DEF RecvPlaintext, RecvLoadUser, RecvSignal, SignalWake, poolVars, cbVars,
              wakeVars, loopVars, appVars
  <2>1. TypeOK'
    BY SMT, <1>6 DEF TypeOK, RecvStates
  <2>2. OneOwner' /\ NoSlotLost'
    BY <1>2, <1>6 DEF OneOwner, NoSlotLost
  <2> QED
    BY <2>1, <2>2
<1> QED
  BY <1>3, <1>4, <1>5, <1>6 DEF RecvNext

\* The batch taken from the queue has the size the code computes.
LEMMA BatchSizeBound ==
  ASSUME TypeOK
  PROVE  BatchSize \in Nat /\ BatchSize <= Len(queue)
<1>1. Len(queue) \in Nat
  BY LenProperties DEF TypeOK
<1> QED
  BY SMT, <1>1, BoundAssumption DEF BatchSize

\* A slot leaves the batch for the pool or for a pbuf, and a pbuf for the pool.
LEMMA SlotsLoopStep ==
  ASSUME SlotsInv, LoopNext
  PROVE  SlotsInv'
<1> USE DEF SlotsInv, LoopNext
<1>1. Range(queue) \subseteq Slots /\ Range(batch) \subseteq Slots /\ Held \subseteq Slots
  BY OwnersHoldSlots
<1>2. CASE LoopTake
  <2>1. batch = <<>> /\ Range(batch) = {}
    BY <1>2, RangeEmpty DEF LoopTake, TypeOK
  <2>2. /\ queue' \in Seq(Slots) /\ batch' \in Seq(Slots)
        /\ Range(queue) = Range(batch') \cup Range(queue')
        /\ NoRepeat(queue') /\ NoRepeat(batch') /\ Range(batch') \cap Range(queue') = {}
    <3>1. BatchSize \in Nat /\ BatchSize <= Len(queue)
      BY BatchSizeBound
    <3>2. queue \in Seq(Slots) /\ NoRepeat(queue)
      BY DEF TypeOK, OneOwner
    <3>3. batch' = SubSeq(queue, 1, BatchSize) /\ queue' = SubSeq(queue, BatchSize + 1, Len(queue))
      BY <1>2 DEF LoopTake
    <3> QED
      BY <3>1, <3>2, <3>3, RangeSplit
  <2>3. Held' = Held /\ holder' = holder /\ free' = free /\ recvSlot' = recvSlot
    BY <1>2 DEF LoopTake, Held, poolVars, recvVars
  <2>4. TypeOK'
    BY <1>2, <2>2 DEF LoopTake, TypeOK, LoopStates, poolVars, recvVars, cbVars, wakeVars, appVars
  <2>5. OneOwner'
    BY <2>1, <2>2, <2>3 DEF OneOwner
  <2>6. NoSlotLost'
    BY <2>1, <2>2, <2>3 DEF NoSlotLost
  <2> QED
    BY <2>4, <2>5, <2>6
<1>3. CASE LoopInject
  <2> DEFINE s == Head(batch)
  <2>1. /\ s \in Slots /\ batch' \in Seq(Slots) /\ Range(batch) = {s} \cup Range(batch')
        /\ NoRepeat(batch') /\ s \notin Range(batch')
    BY <1>3, RangeHeadTail DEF LoopInject, TypeOK, OneOwner
  <2>2. queue' = queue /\ recvSlot' = recvSlot
    BY <1>3 DEF LoopInject, recvVars
  <2>3. \/ free' = free \cup {s} /\ holder' = holder
        \/ \E h \in FreeHolders : holder' = [holder EXCEPT ![h] = s] /\ free' = free
    BY <1>3, <2>1, SlotAssumption DEF LoopInject, Release
  <2> HIDE DEF s
  <2>4. CASE free' = free \cup {s} /\ holder' = holder
    <3>1. Held' = Held
      BY <2>4 DEF Held
    <3>2. TypeOK'
      BY ZenonT(40), <1>3, <2>1, <2>4 DEF LoopInject, TypeOK, recvVars, cbVars, wakeVars, appVars
    <3>3. OneOwner'
      BY ZenonT(40), <1>1, <2>1, <2>2, <2>4, <3>1 DEF OneOwner, TypeOK
    <3>4. NoSlotLost'
      BY <2>1, <2>2, <2>4, <3>1 DEF NoSlotLost
    <3> QED
      BY <3>2, <3>3, <3>4
  <2>5. ASSUME NEW h \in FreeHolders, holder' = [holder EXCEPT ![h] = s], free' = free
        PROVE  SlotsInv'
    <3>0. h \in Holders /\ holder[h] = NoSlot /\ holder \in [Holders -> Slots \cup {NoSlot}]
      BY DEF FreeHolders, TypeOK
    <3>1. Held' = Held \cup {s}
      BY <2>1, <2>5, <3>0, SlotAssumption DEF Held
    <3>2. TypeOK'
      BY ZenonT(40), <1>3, <2>1, <2>5, <3>0 DEF LoopInject, TypeOK, recvVars, cbVars, wakeVars, appVars
    <3>3. OneOwner'
      <4>1. s \notin Held
        BY <2>1 DEF OneOwner
      <4>2. \A f, g \in Holders : holder'[f] = holder'[g] /\ holder'[f] # NoSlot => f = g
        BY <2>1, <2>5, <3>0, <4>1, SlotAssumption DEF Held, OneOwner
      <4> QED
        BY SMT, <1>1, <2>1, <2>2, <2>5, <3>1, <4>1, <4>2 DEF OneOwner, TypeOK
    <3>4. NoSlotLost'
      BY <2>1, <2>2, <2>5, <3>1 DEF NoSlotLost
    <3> QED
      BY <3>2, <3>3, <3>4
  <2> QED
    BY <2>3, <2>4, <2>5
<1>4. ASSUME NEW h \in Holders, LwipFree(h) PROVE SlotsInv'
  <2> DEFINE s == holder[h]
  <2>0. s # NoSlot /\ s \in Slots /\ s \in Held /\ holder \in [Holders -> Slots \cup {NoSlot}]
    BY <1>4 DEF LwipFree, TypeOK, Held
  <2>1. /\ free' = free \cup {s} /\ holder' = [holder EXCEPT ![h] = NoSlot]
        /\ queue' = queue /\ batch' = batch /\ recvSlot' = recvSlot
    BY <1>4, <2>0 DEF LwipFree, Release, recvVars, loopVars
  <2>2. Held' = Held \ {s}
    BY <2>0, <2>1 DEF Held, OneOwner
  <2>3. TypeOK'
    BY SMT, <1>4, <2>0, <2>1 DEF LwipFree, TypeOK, recvVars, cbVars, wakeVars, loopVars, appVars
  <2>4. OneOwner'
    <3>1. \A f, g \in Holders : holder'[f] = holder'[g] /\ holder'[f] # NoSlot => f = g
      BY <2>0, <2>1 DEF OneOwner
    <3> HIDE DEF s
    <3> QED
      BY SMT, <1>1, <2>0, <2>1, <2>2, <3>1 DEF OneOwner, TypeOK
  <2>5. NoSlotLost'
    BY <2>1, <2>2 DEF NoSlotLost
  <2> QED
    BY <2>3, <2>4, <2>5
<1>5. CASE LoopTop \/ LoopPoll \/ LoopDrain \/ LoopMore \/ LoopService
  <2> USE DEF LoopTop, LoopPoll, LoopDrain, LoopMore, LoopService, SignalWake, poolVars,
              recvVars, cbVars, wakeVars, appVars
  <2>1. TypeOK'
    <3>1. CASE LoopTop
      BY ZenonT(40), <3>1 DEF TypeOK, LoopStates
    <3>2. CASE LoopPoll
      BY <3>2 DEF TypeOK, LoopStates
    <3>3. CASE LoopDrain
      BY ZenonT(40), <3>3 DEF TypeOK, LoopStates
    <3>4. CASE LoopMore
      BY ZenonT(40), <3>4 DEF TypeOK, LoopStates
    <3>5. CASE LoopService
      BY ZenonT(40), <3>5 DEF TypeOK, LoopStates
    <3> QED
      BY <1>5, <3>1, <3>2, <3>3, <3>4, <3>5
  <2>2. OneOwner' /\ NoSlotLost'
    <3>1. /\ Held' = Held /\ holder' = holder /\ queue' = queue /\ batch' = batch
          /\ free' = free /\ recvSlot' = recvSlot
      BY <1>5 DEF Held
    <3> QED
      BY <3>1 DEF OneOwner, NoSlotLost
  <2> QED
    BY <2>1, <2>2
<1> QED
  BY <1>2, <1>3, <1>4, <1>5 DEF LoopNext, LoopStep

\* start() and stop() return what they take from the queue and from lwIP.
LEMMA SlotsAppStep ==
  ASSUME SlotsInv, ControlInv, AppNext
  PROVE  SlotsInv'
<1> USE DEF SlotsInv
<1>1. Range(queue) \subseteq Slots /\ Range(batch) \subseteq Slots /\ Held \subseteq Slots
  BY OwnersHoldSlots
<1>2. CASE AppDrain
  <2>1. /\ free' = free \cup Range(queue) /\ Range(queue') = {} /\ NoRepeat(queue')
        /\ holder' = holder /\ batch' = batch /\ recvSlot' = recvSlot /\ Held' = Held
    BY <1>2, RangeEmpty DEF AppDrain, recvVars, loopVars, Held
  <2>2. TypeOK'
    BY SMT, <1>1, <1>2 DEF AppDrain, TypeOK, AppStates, recvVars, cbVars, wakeVars, loopVars
  <2>3. OneOwner'
    BY <1>1, <2>1 DEF OneOwner, TypeOK
  <2>4. NoSlotLost'
    BY <2>1 DEF NoSlotLost
  <2> QED
    BY <2>2, <2>3, <2>4
<1>3. CASE AppAbort
  <2>1. PICK kept \in SUBSET (Holders \ FreeHolders) :
          /\ holder' = [h \in Holders |-> IF h \in kept THEN holder[h] ELSE NoSlot]
          /\ free' = free \cup (Held \ {holder[h] : h \in kept})
    BY <1>3 DEF AppAbort
  <2> DEFINE K == {holder[h] : h \in kept}
  <2>2. /\ queue' = queue /\ batch' = batch /\ recvSlot' = recvSlot
        /\ holder \in [Holders -> Slots \cup {NoSlot}]
    BY <1>3 DEF AppAbort, recvVars, loopVars, TypeOK
  <2>3. Held' = K /\ K \subseteq Held
    BY <2>1, <2>2 DEF Held, FreeHolders
  <2>4. \A f, g \in Holders : holder'[f] = holder'[g] /\ holder'[f] # NoSlot => f = g
    BY <2>1, <2>2 DEF OneOwner
  <2>5. TypeOK'
    <3>1. holder' \in [Holders -> Slots \cup {NoSlot}]
      BY <2>1, <2>2
    <3>2. free' \subseteq Slots
      BY <1>1, <2>1 DEF TypeOK
    <3> QED
      BY ZenonT(40), <1>3, <3>1, <3>2 DEF AppAbort, TypeOK, AppStates, recvVars, cbVars, wakeVars, loopVars
  <2>6. free' = free \cup (Held \ K)
    BY <2>1
  <2> HIDE DEF K
  <2>7. OneOwner'
    BY <1>1, <2>2, <2>3, <2>4, <2>6 DEF OneOwner, TypeOK
  <2>8. NoSlotLost'
    BY <2>2, <2>3, <2>6 DEF NoSlotLost
  <2> QED
    BY <2>5, <2>7, <2>8
<1>4. CASE AppStart \/ AppSetCb \/ AppSetUser \/ AppSpawn \/ AppStop \/ AppStopWake \/ AppJoin
  <2> USE DEF poolVars, recvVars, cbVars, wakeVars, loopVars, appVars
  <2>1. TypeOK'
    <3>1. CASE AppStart
      <4>1. starts' \in 0 .. MaxStarts
        BY SMT, <3>1, BoundAssumption DEF AppStart, TypeOK
      <4> QED
        BY <3>1, <4>1 DEF AppStart, TypeOK, AppStates
    <3>2. CASE AppSetCb \/ AppSetUser
      <4>1. cb' \in BOOLEAN /\ user' \in BOOLEAN
        BY <3>2 DEF AppSetCb, AppSetUser, TypeOK
      <4>2. appPc' \in AppStates
        BY <3>2 DEF AppSetCb, AppSetUser, AppStates
      <4> QED
        BY ZenonT(40), <3>2, <4>1, <4>2 DEF AppSetCb, AppSetUser, TypeOK
    <3>3. CASE AppSpawn
      BY <3>3 DEF AppSpawn, TypeOK, AppStates, LoopStates, ControlInv
    <3>4. CASE AppStop
      BY ZenonT(40), <3>4 DEF AppStop, TypeOK, AppStates
    <3>5. CASE AppStopWake
      BY ZenonT(40), <3>5 DEF AppStopWake, SignalWake, TypeOK, AppStates
    <3>6. CASE AppJoin
      BY <3>6 DEF AppJoin, TypeOK, AppStates, LoopStates
    <3> QED
      BY <1>4, <3>1, <3>2, <3>3, <3>4, <3>5, <3>6
  <2>2. /\ Held' = Held /\ holder' = holder /\ queue' = queue /\ batch' = batch
        /\ free' = free /\ recvSlot' = recvSlot
    BY <1>4 DEF Held, AppStart, AppSetCb, AppSetUser, AppSpawn, AppStop, AppStopWake, AppJoin
  <2>3. OneOwner' /\ NoSlotLost'
    BY <2>2 DEF OneOwner, NoSlotLost
  <2> QED
    BY <2>1, <2>3
<1> QED
  BY <1>2, <1>3, <1>4 DEF AppNext, AppStopping

-----------------------------------------------------------------------------
(* The theorems. *)

\* RecvInv is inductive: no step of any of the three threads breaks it.
LEMMA RecvInvStep ==
  ASSUME RecvInv, [Next]_vars
  PROVE  RecvInv'
<1>1. SlotsInv /\ TypeOK /\ ControlInv /\ WakeInv /\ DrainedInv
  BY DEF RecvInv, SlotsInv
<1>2. ControlInv' /\ WakeInv' /\ DrainedInv'
  BY <1>1, ControlStep, WakeStep, DrainedStep
<1>3. SlotsInv'
  <2>1. CASE UNCHANGED vars
    <3>1. Held' = Held
      BY <2>1 DEF vars, Held
    <3> QED
      BY SMT, <1>1, <2>1, <3>1 DEF vars, SlotsInv, TypeOK, OneOwner, NoSlotLost
  <2> QED
    BY <1>1, <2>1, SlotsRecvStep, SlotsLoopStep, SlotsAppStep DEF Next
<1> QED
  BY <1>2, <1>3 DEF RecvInv

\* The ownership of the slots, the control states, the wake-ups and the drained
\* queue, in every state the threads of wireguard.c and wg_lwip_relay.cpp reach.
THEOREM RecvInvariant == Spec => []RecvInv
<1>1. Init => RecvInv
  BY InitRecvInv
<1>2. RecvInv /\ [Next]_vars => RecvInv'
  BY RecvInvStep
<1> QED
  BY <1>1, <1>2, PTL DEF Spec

\* Every slot of the pool has exactly one owner: none is released twice, none is
\* lost, with any number of slots and holders (wg_recv_pool_release, onTunnelRecv,
\* wg_slot_pbuf_free and stop()).
THEOREM SlotsHaveOneOwner == Spec => []SlotsInv
<1>1. RecvInv => SlotsInv
  BY DEF RecvInv
<1> QED
  BY <1>1, RecvInvariant, PTL

\* The loop thread never sleeps in poll() on packets without a wake-up, whatever
\* the batch size (handleIncomingPacket, processIncomingQueue).
THEOREM WakeNeverLost == Spec => []NoLostWake
<1>1. RecvInv => NoLostWake
  BY DEF RecvInv, SlotsInv, TypeOK, WakeInv, NoLostWake
<1> QED
  BY <1>1, RecvInvariant, PTL

\* stop() leaves no loop thread and at most one slot in the queue, however many
\* slots there are (LwipRelay::stop).
THEOREM StopKeepsAtMostOne == Spec => []StopLeavesAtMostOne
<1>1. RecvInv => StopLeavesAtMostOne
  <2> SUFFICES ASSUME RecvInv PROVE StopLeavesAtMostOne
    OBVIOUS
  <2>1. Len(queue) \in Nat
    BY LenProperties DEF RecvInv, SlotsInv, TypeOK
  <2>2. appPc = "stopped" => Len(queue) <= 1
    BY SMT, <2>1 DEF RecvInv, DrainedInv
  <2>3. loopPc # "off" => wakeOpen /\ appPc # "stopped"
    BY DEF RecvInv, ControlInv
  <2> QED
    BY <2>2, <2>3 DEF StopLeavesAtMostOne
<1> QED
  BY <1>1, RecvInvariant, PTL

\* From the end of start() to the call of stop() the receive thread never calls
\* NULL, nor onTunnelRecv with a NULL relay (wg_set_recv_callback, the delivery in
\* wg_recv_thread).
THEOREM NullCallOnlyOutsideRun == Spec => NullCallOutsideRun
<1>1. RecvInv /\ [Next]_vars =>
        [recvPc' = "null_call" => appPc \notin {"spawn", "running"}]_vars
  <2> SUFFICES ASSUME RecvInv, Next, recvPc' = "null_call", appPc \in {"spawn", "running"}
               PROVE  FALSE
    OBVIOUS
  <2>1. cb /\ user /\ recvPc # "null_call"
    BY DEF RecvInv, ControlInv, Next
  <2>2. CASE RecvNext
    BY <2>1, <2>2 DEF RecvNext, RecvAcquire, RecvDrop, RecvPlaintext, RecvLoadCb,
         RecvLoadUser, RecvCallback, RecvPush, RecvSignal
  <2>3. CASE LoopNext
    BY <2>1, <2>3 DEF LoopNext, LoopStep, LoopTop, LoopPoll, LoopDrain, LoopTake,
         LoopInject, LoopMore, LoopService, LwipFree, recvVars
  <2>4. CASE AppNext
    BY <2>1, <2>4 DEF AppNext, AppStopping, AppStart, AppSetCb, AppSetUser, AppSpawn,
         AppStop, AppStopWake, AppJoin, AppDrain, AppAbort, recvVars
  <2> QED
    BY <2>2, <2>3, <2>4 DEF Next
<1> QED
  BY <1>1, RecvInvariant, PTL DEF Spec, NullCallOutsideRun
=============================================================================
