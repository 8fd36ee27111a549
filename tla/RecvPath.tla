------------------------------ MODULE RecvPath ------------------------------
(***************************************************************************)
(* The life of a receive slot: WgRecvPool (src/wireguard.c), the receive   *)
(* thread that fills a slot and offers it to the registered callback, and  *)
(* LwipRelay (lwip-relay/), whose callback queues the slot, whose loop     *)
(* thread wraps it in a pbuf for lwIP, and whose start and stop register   *)
(* and unregister the callback while the receive thread runs.              *)
(***************************************************************************)
EXTENDS Naturals, Sequences, Functions

CONSTANTS Slots,             \* the slots of the pool (WG_RECV_POOL_SIZE)
          Holders,           \* slotHolders_ (kSlotHolderCount)
          NoSlot,            \* the NULL slot pointer
          kMaxPerIteration,  \* packets taken from the queue per iteration
          MaxStarts          \* bound: how often the application calls start()

ASSUME SlotAssumption == NoSlot \notin Slots
ASSUME BoundAssumption == kMaxPerIteration \in Nat \ {0} /\ MaxStarts \in Nat

VARIABLES
  free,       \* recv_pool.free_head: the slots on the free list
  recvPc,     \* the receive thread
  recvSlot,   \* its local variable slot
  cb, user,   \* tun->recv_cb and tun->recv_cb_user hold the relay's values
  running,    \* LwipRelay::running_
  queue,      \* LwipRelay::incomingQueue_
  wakeOpen,   \* wakeFd_ holds open sockets
  wake,       \* bytes are waiting in the wake socket
  loopPc,     \* the loop thread
  pollin,     \* pollFds_[0].revents & POLLIN after poll() returned
  batch,      \* the loop thread's local vector packets
  more,       \* its local variable more
  holder,     \* the slot in each WgSlotPbuf, NoSlot when not in_use
  appPc,      \* the application thread, inside start() and stop()
  starts,     \* history: calls of start()
  leftover    \* history: start() found slots in the queue

poolVars == <<free>>
recvVars == <<recvPc, recvSlot>>
cbVars   == <<cb, user>>
wakeVars == <<wakeOpen, wake>>
loopVars == <<loopPc, pollin, batch, more>>
appVars  == <<appPc, starts>>
vars == <<free, recvPc, recvSlot, cb, user, running, queue, wakeOpen, wake,
          loopPc, pollin, batch, more, holder, appPc, starts, leftover>>

Held == {holder[h] : h \in Holders} \ {NoSlot}
FreeHolders == {h \in Holders : holder[h] = NoSlot}

Init ==
  /\ free = Slots
  /\ recvPc = "acquire" /\ recvSlot = NoSlot
  /\ cb = FALSE /\ user = FALSE
  /\ running = FALSE
  /\ queue = <<>>
  /\ wakeOpen = FALSE /\ wake = FALSE
  /\ loopPc = "off" /\ pollin = FALSE /\ batch = <<>> /\ more = FALSE
  /\ holder = [h \in Holders |-> NoSlot]
  /\ appPc = "stopped" /\ starts = 0
  /\ leftover = FALSE

\* wg_recv_pool_release: a NULL slot is ignored.
Release(s) == free' = free \cup ({s} \ {NoSlot})

\* signalWake: nothing when the wake socket is closed.
SignalWake == wake' = (wake \/ wakeOpen)

-----------------------------------------------------------------------------
(* The receive thread. *)

\* wg_recv_pool_acquire; with an empty free list the thread goes on with its
\* fallback buffer and no slot.
RecvAcquire ==
  /\ recvPc = "acquire"
  /\ \/ \E s \in free : recvSlot' = s /\ free' = free \ {s}
     \/ free = {} /\ recvSlot' = NoSlot /\ UNCHANGED free
  /\ recvPc' = "socket"
  /\ UNCHANGED <<cbVars, running, queue, wakeVars, loopVars, holder, appVars, leftover>>

\* Every early exit of the loop body: timeout, error, short packet, handshake
\* message, no session, expired, keepalive, failed decryption, replay.
RecvDrop ==
  /\ recvPc = "socket"
  /\ Release(recvSlot)
  /\ recvSlot' = NoSlot /\ recvPc' = "acquire"
  /\ UNCHANGED <<cbVars, running, queue, wakeVars, loopVars, holder, appVars, leftover>>

\* A data packet was decrypted and passed the replay check.
RecvPlaintext ==
  /\ recvPc = "socket"
  /\ recvPc' = "deliver"
  /\ UNCHANGED <<poolVars, recvSlot, cbVars, running, queue, wakeVars, loopVars,
                 holder, appVars, leftover>>

\* if (tun->recv_cb && slot): the callback pointer is tested ...
RecvLoadCb ==
  /\ recvPc = "deliver"
  /\ IF cb /\ recvSlot # NoSlot
     THEN recvPc' = "user" /\ UNCHANGED <<free, recvSlot>>
     ELSE /\ Release(recvSlot)
          /\ recvSlot' = NoSlot /\ recvPc' = "acquire"
  /\ UNCHANGED <<cbVars, running, queue, wakeVars, loopVars, holder, appVars, leftover>>

\* ... and then its argument is loaded, and the pointer itself a second time unless
\* the compiler kept it.  A NULL callback, or onTunnelRecv on a NULL relay, stops
\* the process.
RecvLoadUser ==
  /\ recvPc = "user"
  /\ \/ recvPc' = IF user THEN "callback" ELSE "null_call"
     \/ ~cb /\ recvPc' = "null_call"
  /\ UNCHANGED <<poolVars, recvSlot, cbVars, running, queue, wakeVars, loopVars,
                 holder, appVars, leftover>>

\* handleIncomingPacket returns 0 when the relay is not running.
RecvCallback ==
  /\ recvPc = "callback"
  /\ IF running
     THEN recvPc' = "push" /\ UNCHANGED <<free, recvSlot>>
     ELSE /\ Release(recvSlot)
          /\ recvSlot' = NoSlot /\ recvPc' = "acquire"
  /\ UNCHANGED <<cbVars, running, queue, wakeVars, loopVars, holder, appVars, leftover>>

\* Mutation of RecvPush: the thread signals when the queue was not empty.
RecvPushSwapped ==
  /\ recvPc = "push"
  /\ queue' = Append(queue, recvSlot)
  /\ recvSlot' = NoSlot
  /\ recvPc' = IF queue # <<>> THEN "signal" ELSE "acquire"
  /\ UNCHANGED <<poolVars, cbVars, running, wakeVars, loopVars, holder, appVars,
                 leftover>>

\* The section under queueMutex_; the slot now belongs to the relay.
RecvPush ==
  /\ recvPc = "push"
  /\ queue' = Append(queue, recvSlot)
  /\ recvSlot' = NoSlot
  /\ recvPc' = IF queue = <<>> THEN "signal" ELSE "acquire"
  /\ UNCHANGED <<poolVars, cbVars, running, wakeVars, loopVars, holder, appVars,
                 leftover>>

\* if (was_empty) signalWake().
RecvSignal ==
  /\ recvPc = "signal"
  /\ SignalWake
  /\ recvPc' = "acquire"
  /\ UNCHANGED <<poolVars, recvSlot, cbVars, running, queue, wakeOpen, loopVars,
                 holder, appVars, leftover>>

RecvNext ==
  \/ RecvAcquire \/ RecvDrop \/ RecvPlaintext \/ RecvLoadCb
  \/ RecvLoadUser \/ RecvCallback \/ RecvPush \/ RecvSignal

-----------------------------------------------------------------------------
(* The loop thread, runLoop. *)

\* while (running_)
LoopTop ==
  /\ loopPc = "top"
  /\ loopPc' = IF running THEN "poll" ELSE "exited"
  /\ UNCHANGED <<poolVars, recvVars, cbVars, running, queue, wakeVars, pollin,
                 batch, more, holder, appVars, leftover>>

\* poll() returns: the wake socket is readable, another socket is, or 200 ms
\* have passed.
LoopPoll ==
  /\ loopPc = "poll"
  /\ pollin' = wake
  /\ loopPc' = "drain"
  /\ UNCHANGED <<poolVars, recvVars, cbVars, running, queue, wakeVars, batch,
                 more, holder, appVars, leftover>>

\* if (!running_) break; then every queued wake byte is read.
LoopDrain ==
  /\ loopPc = "drain"
  /\ IF running
     THEN loopPc' = "take" /\ wake' = (wake /\ ~pollin)
     ELSE loopPc' = "exited" /\ UNCHANGED wake
  /\ UNCHANGED <<poolVars, recvVars, cbVars, running, queue, wakeOpen, pollin,
                 batch, more, holder, appVars, leftover>>

BatchSize == IF Len(queue) < kMaxPerIteration THEN Len(queue) ELSE kMaxPerIteration

\* Mutation of LoopTake: nothing is taken when the queue exceeds the cap.
LoopTakeNone ==
  /\ loopPc = "take"
  /\ batch' = IF Len(queue) > kMaxPerIteration THEN <<>> ELSE queue
  /\ queue' = IF Len(queue) > kMaxPerIteration THEN queue ELSE <<>>
  /\ more' = (queue' # <<>>)
  /\ loopPc' = "inject"
  /\ leftover' = FALSE
  /\ UNCHANGED <<poolVars, recvVars, cbVars, running, wakeVars, pollin, holder,
                 appVars>>

\* The section of processIncomingQueue under queueMutex_.
LoopTake ==
  /\ loopPc = "take"
  /\ batch' = SubSeq(queue, 1, BatchSize)
  /\ queue' = SubSeq(queue, BatchSize + 1, Len(queue))
  /\ more' = (queue' # <<>>)
  /\ loopPc' = "inject"
  /\ leftover' = FALSE
  /\ UNCHANGED <<poolVars, recvVars, cbVars, running, wakeVars, pollin, holder,
                 appVars>>

\* One packet of the batch.  Without a free holder, without a pbuf, when
\* ip_input refuses it or is done with it at once, the slot is released;
\* otherwise lwIP keeps the pbuf.
LoopInject ==
  /\ loopPc = "inject" /\ batch # <<>>
  /\ \/ Release(Head(batch)) /\ UNCHANGED holder
     \/ \E h \in FreeHolders :
          holder' = [holder EXCEPT ![h] = Head(batch)] /\ UNCHANGED free
  /\ batch' = Tail(batch)
  /\ UNCHANGED <<recvVars, cbVars, running, queue, wakeVars, loopPc, pollin,
                 more, appVars, leftover>>

\* if (more) signalWake().
LoopMore ==
  /\ loopPc = "inject" /\ batch = <<>>
  /\ IF more THEN SignalWake ELSE UNCHANGED wake
  /\ loopPc' = "service"
  /\ UNCHANGED <<poolVars, recvVars, cbVars, running, queue, wakeOpen, pollin,
                 batch, more, holder, appVars, leftover>>

\* wg_slot_pbuf_free: lwIP drops its last reference while the loop thread is
\* inside ip_input, a socket handler or sys_check_timeouts.
LwipFree(h) ==
  /\ loopPc \in {"inject", "service"}
  /\ holder[h] # NoSlot
  /\ Release(holder[h])
  /\ holder' = [holder EXCEPT ![h] = NoSlot]
  /\ UNCHANGED <<recvVars, cbVars, running, queue, wakeVars, loopVars, appVars,
                 leftover>>

\* The socket handlers and timers of the iteration are done.
LoopService ==
  /\ loopPc = "service"
  /\ loopPc' = "top"
  /\ UNCHANGED <<poolVars, recvVars, cbVars, running, queue, wakeVars, pollin,
                 batch, more, holder, appVars, leftover>>

LoopStep ==
  \/ LoopTop \/ LoopPoll \/ LoopDrain \/ LoopTake
  \/ LoopInject \/ LoopMore \/ LoopService

LoopNext == LoopStep \/ \E h \in Holders : LwipFree(h)

-----------------------------------------------------------------------------
(* The application thread: LwipRelay::start and LwipRelay::stop. *)

\* start() creates the wake sockets and sets running_.
AppStart ==
  /\ appPc = "stopped" /\ starts < MaxStarts
  /\ starts' = starts + 1
  /\ running' = TRUE
  /\ wakeOpen' = TRUE /\ wake' = FALSE
  /\ leftover' = (queue # <<>>)
  /\ appPc' = "start_cb"
  /\ UNCHANGED <<poolVars, recvVars, cbVars, queue, loopVars, holder>>

\* wg_set_recv_callback: tun->recv_cb, then tun->recv_cb_user.
AppSetCb ==
  /\ appPc \in {"start_cb", "stop_cb"}
  /\ cb' = (appPc = "start_cb")
  /\ appPc' = IF appPc = "start_cb" THEN "start_user" ELSE "stop_user"
  /\ UNCHANGED <<poolVars, recvVars, user, running, queue, wakeVars, loopVars,
                 holder, starts, leftover>>

\* Mutation of AppSetUser: start stores no user pointer either.
AppSetUserNull ==
  /\ appPc \in {"start_user", "stop_user"}
  /\ user' = FALSE
  /\ appPc' = IF appPc = "start_user" THEN "spawn" ELSE "stop_wake"
  /\ UNCHANGED <<poolVars, recvVars, cb, running, queue, wakeVars, loopVars,
                 holder, starts, leftover>>

\* wg_set_recv_callback: the user pointer is stored after the callback.
AppSetUser ==
  /\ appPc \in {"start_user", "stop_user"}
  /\ user' = (appPc = "start_user")
  /\ appPc' = IF appPc = "start_user" THEN "spawn" ELSE "stop_wake"
  /\ UNCHANGED <<poolVars, recvVars, cb, running, queue, wakeVars, loopVars,
                 holder, starts, leftover>>

\* loopThread_ = std::thread(...)
AppSpawn ==
  /\ appPc = "spawn"
  /\ loopPc' = "top"
  /\ appPc' = "running"
  /\ UNCHANGED <<poolVars, recvVars, cbVars, running, queue, wakeVars, pollin,
                 batch, more, holder, starts, leftover>>

\* Mutation of AppStop: running_ is not cleared.
AppStopKeepsRunning ==
  /\ appPc \in {"running", "stopped"}
  /\ appPc' = "stop_cb"
  /\ UNCHANGED <<poolVars, recvVars, cbVars, running, queue, wakeVars, loopVars,
                 holder, starts, leftover>>

\* stop() clears running_; it may be called again, by the destructor for one.
AppStop ==
  /\ appPc \in {"running", "stopped"}
  /\ running' = FALSE
  /\ appPc' = "stop_cb"
  /\ UNCHANGED <<poolVars, recvVars, cbVars, queue, wakeVars, loopVars, holder,
                 starts, leftover>>

AppStopWake ==
  /\ appPc = "stop_wake"
  /\ SignalWake
  /\ appPc' = "join"
  /\ UNCHANGED <<poolVars, recvVars, cbVars, running, queue, wakeOpen, loopVars,
                 holder, starts, leftover>>

\* loopThread_.join() when there is a thread, and the wake sockets are closed.
AppJoin ==
  /\ appPc = "join" /\ loopPc \in {"exited", "off"}
  /\ loopPc' = "off"
  /\ wakeOpen' = FALSE /\ wake' = FALSE
  /\ appPc' = "drain"
  /\ UNCHANGED <<poolVars, recvVars, cbVars, running, queue, pollin, batch,
                 more, holder, starts, leftover>>

\* Mutation of AppDrain: the slots are released and stay queued.
AppDrainKeeps ==
  /\ appPc = "drain"
  /\ free' = free \cup Range(queue)
  /\ appPc' = "abort"
  /\ UNCHANGED <<recvVars, cbVars, running, queue, wakeVars, loopVars, holder,
                 starts, leftover>>

\* Mutation of AppDrain: the queue is left as it is.
AppDrainSkipped ==
  /\ appPc = "drain"
  /\ appPc' = "abort"
  /\ UNCHANGED <<poolVars, recvVars, cbVars, running, queue, wakeVars, loopVars,
                 holder, starts, leftover>>

\* Every queued slot is released, under queueMutex_.
AppDrain ==
  /\ appPc = "drain"
  /\ free' = free \cup Range(queue)
  /\ queue' = <<>>
  /\ appPc' = "abort"
  /\ UNCHANGED <<recvVars, cbVars, running, wakeVars, loopVars, holder, starts,
                 leftover>>

\* tcp_abort, udp_remove and netif_remove: lwIP frees the pbufs of what is torn
\* down; pbufs it holds elsewhere (IP reassembly) stay.
AppAbort ==
  /\ appPc = "abort"
  /\ \E kept \in SUBSET (Holders \ FreeHolders) :
       /\ holder' = [h \in Holders |-> IF h \in kept THEN holder[h] ELSE NoSlot]
       /\ free' = free \cup (Held \ {holder[h] : h \in kept})
  /\ appPc' = "stopped"
  /\ UNCHANGED <<recvVars, cbVars, running, queue, wakeVars, loopVars, starts,
                 leftover>>

AppStopping == AppStopWake \/ AppJoin \/ AppDrain \/ AppAbort

AppNext == AppStart \/ AppSetCb \/ AppSetUser \/ AppSpawn \/ AppStop \/ AppStopping

\* A call of NULL or on a NULL relay ends the process: no thread moves any more.
Next == recvPc # "null_call" /\ (RecvNext \/ LoopNext \/ AppNext)

Spec == Init /\ [][Next]_vars

\* The loop thread is a running thread and its poll() has a timeout; the code of
\* start() and stop() runs to its end once called.
Fairness ==
  /\ WF_vars(recvPc # "null_call" /\ LoopStep)
  /\ WF_vars(recvPc # "null_call" /\ (AppSetCb \/ AppSetUser \/ AppSpawn \/ AppStopping))

FairSpec == Spec /\ Fairness

-----------------------------------------------------------------------------
(* Properties. *)

RecvStates == {"acquire", "socket", "deliver", "user", "callback", "push",
               "signal", "null_call"}
LoopStates == {"off", "top", "poll", "drain", "take", "inject", "service", "exited"}
AppStates  == {"stopped", "start_cb", "start_user", "spawn", "running", "stop_cb",
               "stop_user", "stop_wake", "join", "drain", "abort"}

\* Type invariant: the threads' states, and slots where slots are expected; the
\* receive thread holds a slot whenever it is about to hand one over.
TypeOK ==
  /\ free \subseteq Slots
  /\ recvPc \in RecvStates
  /\ recvSlot \in Slots \cup {NoSlot}
  /\ recvPc \in {"user", "callback", "push", "null_call"} => recvSlot # NoSlot
  /\ recvPc \in {"acquire", "signal"} => recvSlot = NoSlot
  /\ cb \in BOOLEAN /\ user \in BOOLEAN /\ running \in BOOLEAN
  /\ queue \in Seq(Slots) /\ batch \in Seq(Slots)
  /\ batch # <<>> => loopPc = "inject"
  /\ wakeOpen \in BOOLEAN /\ wake \in BOOLEAN
  /\ loopPc \in LoopStates /\ pollin \in BOOLEAN /\ more \in BOOLEAN
  /\ holder \in [Holders -> Slots \cup {NoSlot}]
  /\ appPc \in AppStates
  /\ starts \in 0 .. MaxStarts
  /\ leftover \in BOOLEAN

NoRepeat(q) == \A i, j \in DOMAIN q : q[i] = q[j] => i = j

\* include/wireguard.h:38-42: a slot taken over by the callback is released
\* exactly once.  No slot is ever in two hands (a second release, or a release
\* of a slot still in use, would put it there) ...
OneOwner ==
  /\ recvSlot \notin free
  /\ Range(queue) \cap (free \cup {recvSlot}) = {}
  /\ Range(batch) \cap (free \cup {recvSlot} \cup Range(queue)) = {}
  /\ Held \cap (free \cup {recvSlot} \cup Range(queue) \cup Range(batch)) = {}
  /\ NoRepeat(queue) /\ NoRepeat(batch)
  /\ \A g, h \in Holders : holder[g] = holder[h] /\ holder[g] # NoSlot => g = h

\* ... and none is lost: a slot that is not on the free list is in the receive
\* thread, in the relay's queue or batch, or in a pbuf lwIP still holds.
NoSlotLost ==
  Slots \subseteq free \cup {recvSlot} \cup Range(queue) \cup Range(batch) \cup Held

\* Every slot has one owner at every moment, whatever the three threads do.
SlotsInv == TypeOK /\ OneOwner /\ NoSlotLost

\* The wake is signalled only for a push into an empty queue and re-armed when a
\* batch leaves packets behind; still the loop thread never sleeps in poll() on
\* a queue with packets unless a wake is pending or about to be sent, or the
\* packets were left over by an earlier run of the relay.
NoLostWake ==
  loopPc = "poll" /\ queue # <<>> =>
    wake \/ recvPc = "signal" \/ leftover \/ ~running

\* While the relay runs, every queued slot leaves the queue, whatever the order
\* of pushes, wakes and batches.
QueuedIsTaken ==
  \A s \in Slots :
    s \in Range(queue) /\ running /\ loopPc # "off"
      ~> s \notin Range(queue) \/ ~running \/ recvPc = "null_call"

\* stop() returns: the loop thread notices running_ and the join succeeds.
StopReturns == appPc = "stop_cb" ~> appPc = "stopped" \/ recvPc = "null_call"

\* stop() unregisters the callback "so no new slots enter the queue"
\* (wg_lwip_relay.cpp:145).  A receive thread already past the test of running_
\* still pushes its slot after the queue was drained, but no more than that one:
\* a stopped relay keeps at most one slot from the pool.  And it leaves no loop
\* thread behind: the wake sockets are closed only after the join.
StopLeavesAtMostOne ==
  /\ appPc = "stopped" => Len(queue) <= 1
  /\ loopPc # "off" => wakeOpen /\ appPc # "stopped"

\* Where each thread can be while another is at a given place: there is a loop
\* thread only from its creation to the join, with the wake sockets open, and
\* running_, the callback and its argument are those of start() or of stop().
ControlInv ==
  /\ loopPc # "off" =>
       wakeOpen /\ appPc \in {"running", "stop_cb", "stop_user", "stop_wake", "join"}
  /\ running <=> appPc \in {"start_cb", "start_user", "spawn", "running"}
  /\ running => wakeOpen
  /\ appPc \in {"start_user", "spawn", "running"} => cb
  /\ appPc \in {"spawn", "running"} => user

\* NoLostWake at every place of the loop thread: it finds the packets of a running
\* relay unless it is about to take them anyway or to signal for the rest.
WakeInv ==
  running /\ queue # <<>> /\ loopPc \notin {"drain", "take"} =>
    wake \/ recvPc = "signal" \/ leftover \/ (loopPc = "inject" /\ more)

\* Once stop() has drained the queue, only a push begun before can fill it again.
DrainedInv ==
  appPc \in {"abort", "stopped"} =>
    Len(queue) + (IF recvPc = "push" THEN 1 ELSE 0) <= 1

\* The invariant that the steps of the three threads preserve; it implies the
\* others.
RecvInv == SlotsInv /\ ControlInv /\ WakeInv /\ DrainedInv

\* recv_cb and recv_cb_user are stored and loaded one after the other without
\* a lock.  The receive thread can meet a NULL callback or argument while start()
\* or stop() stores them or after stop(), with a callback tested before; never
\* from the end of start() to the call of stop().
NullCallOutsideRun == [][recvPc' = "null_call" => appPc \notin {"spawn", "running"}]_vars
=============================================================================
