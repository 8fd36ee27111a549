----------------------------- MODULE Lifecycle ------------------------------
(***************************************************************************)
(* Creation, start, stop and destruction of a tunnel (src/wireguard.c) and *)
(* of the UDP relay on top of it (src/wg_relay.c), with the stop condition *)
(* both wait on (src/wg_thread.c).  The application calls one function at  *)
(* a time; todo is what its call has yet to do.  Every allocation and      *)
(* every thread creation may fail.                                         *)
(***************************************************************************)
EXTENDS Naturals, Sequences

CONSTANT Clients    \* local programs that send to the relay's port

VARIABLES
  held,          \* memory, locks and sockets that are allocated
  todo,          \* the steps left of the application's call
  pc,            \* the threads: "none" before creation and after the join
  pred, mutex,   \* the two stop conditions: the flag and the holder of the lock
  running,       \* tun->running and relay->running
  valid,         \* there is a session, or a peer that may start one
  cb,            \* tun->recv_cb is the relay's
  client, has_client,  \* relay->client_addr (0 before the first), relay->has_client
  direct,        \* history: the application called wg_start itself
  dangling,      \* history: the callback was called with a destroyed relay
  badfree        \* history: something not held was released

vars == <<held, todo, pc, pred, mutex, running, valid, cb, client, has_client,
          direct, dangling, badfree>>

\* The two stop conditions, and the threads that look at each.
Conds == {"tun", "relay"}
Threads == {"recv", "ka", "rt"}
CondOf(t) == IF t = "rt" THEN "relay" ELSE "tun"

StopMutex(c) == IF c = "tun" THEN "tun_stop_mutex" ELSE "relay_stop_mutex"
StopCond(c) == {StopMutex(c), IF c = "tun" THEN "tun_stop_cond" ELSE "relay_stop_cond"}
Tunnel == {"tun", "send_mutex", "slots", "free_mutex"} \cup StopCond("tun")
Relay == {"relay", "local_socket"} \cup StopCond("relay")
Of(c) == IF c = "tun" THEN Tunnel ELSE Relay

Init ==
  /\ held = {} /\ todo = <<>>
  /\ pc = [t \in Threads |-> "none"]
  /\ pred = [c \in Conds |-> FALSE] /\ mutex = [c \in Conds |-> "free"]
  /\ running = [c \in Conds |-> FALSE] /\ valid = FALSE /\ cb = FALSE
  /\ client = 0 /\ has_client = FALSE
  /\ direct = FALSE /\ dangling = FALSE /\ badfree = FALSE

-----------------------------------------------------------------------------
(* What the functions do, as sequences of steps. *)

Step(op, arg) == [op |-> op, arg |-> arg, get |-> {}, unwind |-> {}]
Get(res, unwind) == [op |-> "get", arg |-> "", get |-> res, unwind |-> unwind]

\* Mutation of StopCondInit: a failure of wg_cond_init leaves the mutex.
StopCondInitKeepsMutex(c, unwind) == <<Get({StopMutex(c)}, unwind), Get(StopCond(c), unwind)>>

\* wg_stop_cond_init; the caller releases unwind when it fails.
StopCondInit(c, unwind) ==
  <<Get({StopMutex(c)}, unwind), Get(StopCond(c), unwind \cup {StopMutex(c)})>>

\* wg_init, with what it releases when a step fails: the lookup of the endpoint is
\* the second, wg_recv_pool_init the last two.
WgInit ==
  <<Get({"tun"}, {}), Get({}, {"tun"}), Get({"send_mutex"}, {"tun"})>>
    \o StopCondInit("tun", {"send_mutex", "tun"})
    \o LET locks == StopCond("tun") \cup {"send_mutex", "tun"}
       IN <<Get({"slots"}, locks), Get({"free_mutex"}, locks \cup {"slots"})>>

WgRelayCreate ==
  <<Get({"relay"}, {}), Get({"local_socket"}, {"relay"}), Get({}, {"local_socket", "relay"})>>
    \o StopCondInit("relay", {"local_socket", "relay"})

WgStart == <<Step("check", ""), Step("reset", "tun"), Step("create", "recv"),
             Step("create", "ka"), Step("running", "tun")>>

\* Mutation of WgRelayStart: pred is reset after the thread has been created.
WgRelayStartResetLate ==
  <<Step("callback", "")>> \o WgStart
    \o <<Step("create", "rt"), Step("reset", "relay"), Step("running", "relay")>>

WgRelayStart ==
  <<Step("callback", "")>> \o WgStart
    \o <<Step("reset", "relay"), Step("create", "rt"), Step("running", "relay")>>

\* wg_stop_cond_signal
Signal(c) == <<Step("signal", c), Step("broadcast", c)>>

\* Mutation of StopSteps: wg_relay_stop does not stop the tunnel.
StopStepsRelayOnly(c) ==
  IF c = "tun"
  THEN Signal(c) \o <<Step("join", "recv"), Step("join", "ka"), Step("stopped", c)>>
  ELSE Signal(c) \o <<Step("join", "rt"), Step("stopped", c)>>

\* wg_stop and wg_relay_stop, of something that runs
StopSteps(c) ==
  IF c = "tun"
  THEN Signal(c) \o <<Step("join", "recv"), Step("join", "ka"), Step("stopped", c)>>
  ELSE Signal(c) \o <<Step("join", "rt"), Step("stop", "tun"), Step("stopped", c)>>

WgClose == <<Step("stop", "tun"), Step("free", "tun")>>
WgRelayDestroy == <<Step("stop", "relay"), Step("free", "relay")>>

-----------------------------------------------------------------------------
(* The application. *)

\* Calls: the relay is destroyed before its tunnel is closed.
Call ==
  /\ todo = <<>>
  /\ \/ "tun" \notin held /\ todo' = WgInit
     \/ /\ "tun" \in held
        /\ \/ todo' \in {WgStart, <<Step("stop", "tun")>>}
           \/ "relay" \notin held /\ todo' \in {WgClose, WgRelayCreate}
           \/ /\ "relay" \in held
              /\ \/ ~running["relay"] /\ todo' = WgRelayStart
                 \/ todo' \in {<<Step("stop", "relay")>>, WgRelayDestroy}
  /\ direct' = (direct \/ todo' = WgStart)
  /\ UNCHANGED <<held, pc, pred, mutex, running, valid, cb, client, has_client,
                 dangling, badfree>>

\* wg_connect opens the socket once; the handshake may succeed.
Connect ==
  /\ todo = <<>> /\ "tun" \in held
  /\ \/ "socket" \in held /\ valid' \in {valid, TRUE} /\ UNCHANGED held
     \/ "socket" \notin held /\ held' = held \cup {"socket"} /\ valid' \in {valid, TRUE}
  /\ UNCHANGED <<todo, pc, pred, mutex, running, cb, client, has_client, direct,
                 dangling, badfree>>

\* wg_add_peer: a tunnel with peers may be started without a session.
AddPeer ==
  /\ todo = <<>> /\ "tun" \in held
  /\ valid' = TRUE
  /\ UNCHANGED <<held, todo, pc, pred, mutex, running, cb, client, has_client, direct,
                 dangling, badfree>>

Rest == Tail(todo)
Doing(op) == todo # <<>> /\ Head(todo).op = op
Arg == Head(todo).arg

Acquire ==
  /\ Doing("get")
  /\ \/ /\ held' = held \cup Head(todo).get
        /\ todo' = Rest /\ UNCHANGED badfree
     \/ /\ held' = held \ Head(todo).unwind
        /\ badfree' = (badfree \/ ~(Head(todo).unwind \subseteq held))
        /\ todo' = <<>>
  /\ UNCHANGED <<pc, pred, mutex, running, valid, cb, client, has_client, direct, dangling>>

\* A tunnel also closes its socket, and a new one has no callback; wg_relay_stop
\* and wg_relay_destroy leave the callback as it is.
Free ==
  /\ Doing("free")
  /\ badfree' = (badfree \/ ~(Of(Arg) \subseteq held))
  /\ held' = held \ (Of(Arg) \cup (IF Arg = "tun" THEN {"socket"} ELSE {}))
  /\ valid' = (valid /\ Arg = "relay") /\ cb' = (cb /\ Arg = "relay")
  /\ client' = (IF Arg = "relay" THEN 0 ELSE client)
  /\ has_client' = (has_client /\ Arg = "tun")
  /\ todo' = Rest
  /\ UNCHANGED <<pc, pred, mutex, running, direct, dangling>>

\* wg_start returns early without a session or a peer, or when it runs already.
StartCheck ==
  /\ Doing("check")
  /\ todo' = IF valid /\ ~running["tun"] THEN Rest ELSE <<>>
  /\ UNCHANGED <<held, pc, pred, mutex, running, valid, cb, client, has_client,
                 direct, dangling, badfree>>

\* wg_set_recv_callback
SetCallback ==
  /\ Doing("callback")
  /\ cb' = TRUE /\ todo' = Rest
  /\ UNCHANGED <<held, pc, pred, mutex, running, valid, client, has_client, direct,
                 dangling, badfree>>

\* pred = false, without the lock.
Reset ==
  /\ Doing("reset")
  /\ pred' = [pred EXCEPT ![Arg] = FALSE]
  /\ todo' = Rest
  /\ UNCHANGED <<held, pc, mutex, running, valid, cb, client, has_client, direct,
                 dangling, badfree>>

\* Mutation of Undo: the receive thread is left running.
UndoNothing(t) == IF t = "rt" THEN <<Step("stop", "tun")>> ELSE <<>>

\* What is left to do when the thread t cannot be created.
Undo(t) ==
  CASE t = "recv" -> <<>>
    [] t = "ka" -> Signal("tun") \o <<Step("join", "recv")>>
    [] t = "rt" -> <<Step("stop", "tun")>>

\* wg_thread_create
Create ==
  /\ Doing("create")
  /\ \/ pc' = [pc EXCEPT ![Arg] = "top"] /\ todo' = Rest
     \/ todo' = Undo(Arg) /\ UNCHANGED pc
  /\ UNCHANGED <<held, pred, mutex, running, valid, cb, client, has_client, direct,
                 dangling, badfree>>

\* Mutation of SignalPred: the flag is set without the lock.
SignalPredUnlocked ==
  /\ Doing("signal")
  /\ pred' = [pred EXCEPT ![Arg] = TRUE]
  /\ todo' = Rest
  /\ UNCHANGED <<held, pc, mutex, running, valid, cb, client, has_client, direct,
                 dangling, badfree>>

SignalPred ==
  /\ Doing("signal") /\ mutex[Arg] = "free"
  /\ pred' = [pred EXCEPT ![Arg] = TRUE]
  /\ todo' = Rest
  /\ UNCHANGED <<held, pc, mutex, running, valid, cb, client, has_client, direct,
                 dangling, badfree>>

\* wg_cond_broadcast, after the unlock.
Broadcast ==
  /\ Doing("broadcast")
  /\ pc' = [t \in Threads |->
       IF pc[t] = "waiting" /\ CondOf(t) = Arg THEN "woken" ELSE pc[t]]
  /\ todo' = Rest
  /\ UNCHANGED <<held, pred, mutex, running, valid, cb, client, has_client, direct,
                 dangling, badfree>>

\* wg_thread_join
Join ==
  /\ Doing("join") /\ pc[Arg] = "exited"
  /\ pc' = [pc EXCEPT ![Arg] = "none"]
  /\ todo' = Rest
  /\ UNCHANGED <<held, pred, mutex, running, valid, cb, client, has_client, direct,
                 dangling, badfree>>

\* wg_stop and wg_relay_stop
StopCheck ==
  /\ Doing("stop")
  /\ todo' = IF running[Arg] THEN StopSteps(Arg) \o Rest ELSE Rest
  /\ UNCHANGED <<held, pc, pred, mutex, running, valid, cb, client, has_client,
                 direct, dangling, badfree>>

SetRunning ==
  /\ Doing("running") \/ Doing("stopped")
  /\ running' = [running EXCEPT ![Arg] = (Head(todo).op = "running")]
  /\ todo' = Rest
  /\ UNCHANGED <<held, pc, pred, mutex, valid, cb, client, has_client, direct,
                 dangling, badfree>>

AppStep ==
  \/ Acquire \/ Free \/ StartCheck \/ SetCallback \/ Reset \/ Create
  \/ SignalPred \/ Broadcast \/ Join \/ StopCheck \/ SetRunning

-----------------------------------------------------------------------------
(* The threads. *)

Goto(t, l) == pc' = [pc EXCEPT ![t] = l]

\* wg_stop_cond_check at the top of each thread's loop.
Top(t) ==
  /\ pc[t] = "top" /\ mutex[CondOf(t)] = "free"
  /\ Goto(t, IF pred[CondOf(t)] THEN "exited" ELSE "body")
  /\ UNCHANGED <<held, todo, pred, mutex, running, valid, cb, client, has_client,
                 direct, dangling, badfree>>

\* An iteration of recv_thread_func: a timeout, or a packet for the callback,
\* which answers the client.
RecvBody ==
  /\ pc["recv"] = "body"
  /\ dangling' \in {dangling, dangling \/ (cb /\ "relay" \notin held)}
  /\ Goto("recv", "top")
  /\ UNCHANGED <<held, todo, pred, mutex, running, valid, cb, client, has_client,
                 direct, badfree>>

\* wg_stop_cond_timedwait: lock and test ...
WaitTest ==
  /\ pc["ka"] \in {"body", "woken"} /\ mutex["tun"] = "free"
  /\ IF pred["tun"]
     THEN Goto("ka", "exited") /\ UNCHANGED mutex
     ELSE Goto("ka", "sleep") /\ mutex' = [mutex EXCEPT !["tun"] = "ka"]
  /\ UNCHANGED <<held, todo, pred, running, valid, cb, client, has_client, direct,
                 dangling, badfree>>

\* ... and wait, which unlocks.
WaitSleep ==
  /\ pc["ka"] = "sleep"
  /\ Goto("ka", "waiting")
  /\ mutex' = [mutex EXCEPT !["tun"] = "free"]
  /\ UNCHANGED <<held, todo, pred, running, valid, cb, client, has_client, direct,
                 dangling, badfree>>

\* A timeout or an error: the lock is taken and released; the thread looks after
\* its sessions and starts over.
WaitTimeout ==
  /\ pc["ka"] = "waiting" /\ mutex["tun"] = "free"
  /\ Goto("ka", "top")
  /\ UNCHANGED <<held, todo, pred, mutex, running, valid, cb, client, has_client,
                 direct, dangling, badfree>>

\* relay_thread_func: a datagram; its sender, then the flag, are stored.
RelayClient ==
  /\ \/ /\ pc["rt"] = "body" /\ client' \in Clients
        /\ Goto("rt", "flag") /\ UNCHANGED has_client
     \/ /\ pc["rt"] = "flag" /\ has_client' = TRUE
        /\ Goto("rt", "send") /\ UNCHANGED client
  /\ UNCHANGED <<held, todo, pred, mutex, running, valid, cb, direct, dangling, badfree>>

\* A timeout or an error of poll or recvfrom; or wg_send.
RelayNext ==
  /\ pc["rt"] \in {"body", "send"}
  /\ Goto("rt", "top")
  /\ UNCHANGED <<held, todo, pred, mutex, running, valid, cb, client, has_client,
                 direct, dangling, badfree>>

RecvThread == Top("recv") \/ RecvBody
KaThread == Top("ka") \/ WaitTest \/ WaitSleep
RelayThread == Top("rt") \/ RelayClient \/ RelayNext

\* What the process does after such a call is not modelled.
Next ==
  /\ ~dangling
  /\ Call \/ Connect \/ AddPeer \/ AppStep \/ RecvThread \/ KaThread \/ WaitTimeout \/ RelayThread

Spec == Init /\ [][Next]_vars

\* poll() and wg_socket_recv have timeouts of 100 ms; the lock is held for a few
\* instructions, so no one is kept from it for good.  The timeout of the keepalive
\* thread, 10 s, is not relied on.
FairSpec ==
  /\ Spec
  /\ SF_vars(~dangling /\ AppStep) /\ SF_vars(~dangling /\ RecvThread)
  /\ SF_vars(~dangling /\ KaThread) /\ SF_vars(~dangling /\ RelayThread)

-----------------------------------------------------------------------------
(* Properties. *)

\* Type invariant; the keepalive thread holds the lock exactly between its test of
\* pred and its wait.
TypeOK ==
  /\ held \subseteq Tunnel \cup Relay \cup {"socket"}
  /\ pc \in [Threads -> {"none", "top", "body", "sleep", "waiting", "woken", "flag",
                         "send", "exited"}]
  /\ mutex = [c \in Conds |-> IF c = "tun" /\ pc["ka"] = "sleep" THEN "ka" ELSE "free"]
  /\ pred \in [Conds -> BOOLEAN] /\ running \in [Conds -> BOOLEAN]
  /\ {valid, cb, has_client, direct, dangling, badfree} \subseteq BOOLEAN
  /\ client \in Clients \cup {0}

\* When no call is under way a tunnel and a relay exist with all they need or not
\* at all, whichever step of wg_init or wg_relay_create failed, and nothing is
\* released that is not held.
AllOrNothing ==
  /\ ~badfree
  /\ todo = <<>> => /\ held \cap Tunnel \in {{}, Tunnel}
                    /\ held \cap Relay \in {{}, Relay}
                    /\ "socket" \in held => "tun" \in held

\* A thread that lives has the memory, locks and sockets it uses: they are
\* released only after the join.
ThreadHasItsState ==
  \A t \in Threads : pc[t] \notin {"none", "exited"} =>
    /\ Tunnel \subseteq held
    /\ t = "rt" => Relay \subseteq held

\* When no call is under way, the threads that exist are those the running flags
\* say, whichever creation failed: none is left over, and none joined twice.
ThreadsAsFlagged ==
  todo = <<>> => \A t \in Threads : running[CondOf(t)] <=> pc[t] # "none"

\* The invariant of the threads: those that live are those the flags say, with all
\* they use, and the lock of the stop condition is held by nobody who sleeps or is
\* gone.
ThreadsInv == TypeOK /\ ThreadHasItsState /\ ThreadsAsFlagged

\* A request to stop is withdrawn (pred = false, without the lock) only when the
\* threads it was for are gone.
StopNotWithdrawn ==
  [][\A c \in Conds : pred[c] /\ ~pred'[c] =>
       \A t \in Threads : CondOf(t) = c => pc[t] = "none"]_vars

\* The relay that is still registered as the callback's argument after its
\* destruction is used only if the application starts the tunnel by itself.
CallbackHasRelay == dangling => direct

-----------------------------------------------------------------------------
(* The invariant: what holds at each step of each call. *)

Exists(t) == pc[t] # "none"
AsFlagged(c) == \A t \in Threads : CondOf(t) = c => (running[c] <=> Exists(t))

\* The tunnel and the relay are complete or absent, and the relay and the socket
\* are there only with a tunnel.
Whole ==
  /\ held \cap Tunnel \in {{}, Tunnel} /\ held \cap Relay \in {{}, Relay}
  /\ held # {} => Tunnel \subseteq held
  /\ running["tun"] => Tunnel \subseteq held
  /\ running["relay"] => Relay \subseteq held

\* A tunnel the application did not start runs for its relay.
Owned == ~direct /\ running["tun"] => running["relay"]

\* Between two calls.
Settled == Whole /\ AsFlagged("tun") /\ AsFlagged("relay") /\ Owned

\* What is left of a call from its i-th step.
From(call, i) == SubSeq(call, i, Len(call))

\* Before the i-th step of wg_start: its check, the reset of pred, the creation of
\* the receive thread and of the keepalive thread, and running.
Starting(i) ==
  IF i = 1 THEN AsFlagged("tun")
  ELSE ~running["tun"] /\ (Exists("recv") <=> i >= 4) /\ (Exists("ka") <=> i >= 5)

\* What a call may have to do after wg_stop, and after wg_relay_stop.
AfterStop == {<<>>, <<Step("free", "tun")>>, <<Step("stopped", "relay")>>,
              <<Step("stopped", "relay"), Step("free", "relay")>>}
AfterRelayStop == {<<>>, <<Step("free", "relay")>>}

\* The relay's side while the tunnel is stopped and k is left to do.
RelayDuringStop(k) ==
  CASE k = <<>> -> AsFlagged("relay")
    [] k = <<Step("free", "tun")>> -> AsFlagged("relay") /\ held \cap Relay = {}
    [] OTHER -> running["relay"] /\ ~Exists("rt")

\* Before the i-th step of wg_init.
InitAt(i) ==
  /\ todo = From(WgInit, i) /\ held = WgInit[i].unwind
  /\ \A c \in Conds : ~running[c] /\ AsFlagged(c)

\* Before the i-th step of wg_relay_create.
RelayCreateAt(i) ==
  /\ todo = From(WgRelayCreate, i)
  /\ Tunnel \subseteq held /\ held \cap Relay = WgRelayCreate[i].unwind
  /\ ~running["relay"] /\ AsFlagged("tun") /\ AsFlagged("relay") /\ Owned

\* Before the i-th step of wg_start, called by the application.
StartAt(i) ==
  /\ todo = From(WgStart, i) /\ direct
  /\ Whole /\ Tunnel \subseteq held /\ AsFlagged("relay") /\ Starting(i)

\* Before the i-th step of wg_relay_start; steps 2 to 6 are those of wg_start.
RelayStartAt(i) ==
  /\ todo = From(WgRelayStart, i)
  /\ Whole /\ Tunnel \cup Relay \subseteq held
  /\ ~running["relay"] /\ (Exists("rt") <=> i = 9)
  /\ i <= 2 => AsFlagged("tun") /\ Owned
  /\ i \in 3 .. 6 => Starting(i - 1)
  /\ i >= 7 => running["tun"] /\ AsFlagged("tun")

\* Before the i-th step of what wg_start does without a keepalive thread.
UndoAt(i) ==
  /\ todo = From(Undo("ka"), i)
  /\ Whole /\ Tunnel \subseteq held /\ AsFlagged("relay")
  /\ ~running["tun"] /\ Exists("recv") /\ ~Exists("ka")

\* Before wg_stop, and before the i-th step of it when the tunnel runs.
StopTun(k) ==
  /\ todo = <<Step("stop", "tun")>> \o k
  /\ Whole /\ Tunnel \subseteq held /\ AsFlagged("tun") /\ RelayDuringStop(k)
StopTunAt(i, k) ==
  /\ todo = From(StopSteps("tun"), i) \o k
  /\ Whole /\ Tunnel \subseteq held /\ RelayDuringStop(k)
  /\ running["tun"] /\ (Exists("recv") <=> i <= 3) /\ (Exists("ka") <=> i <= 4)

\* Before wg_relay_stop, before the i-th step of it up to the join, and after the
\* tunnel has been stopped.
StopRelay(k) ==
  todo = <<Step("stop", "relay")>> \o k /\ Settled /\ Tunnel \cup Relay \subseteq held
StopRelayAt(i, k) ==
  /\ todo = From(StopSteps("relay"), i) \o k
  /\ Whole /\ Tunnel \cup Relay \subseteq held /\ AsFlagged("tun")
  /\ running["relay"] /\ Exists("rt")
RelayStopped(k) ==
  /\ todo = <<Step("stopped", "relay")>> \o k
  /\ Whole /\ Tunnel \cup Relay \subseteq held /\ AsFlagged("tun")
  /\ running["relay"] /\ ~Exists("rt") /\ ~running["tun"]

\* Before the release of the tunnel or of the relay.
FreeTun == /\ todo = <<Step("free", "tun")>> /\ Settled /\ Tunnel \subseteq held
           /\ held \cap Relay = {} /\ ~running["tun"] /\ ~running["relay"]
FreeRelay == /\ todo = <<Step("free", "relay")>> /\ Settled
             /\ Tunnel \cup Relay \subseteq held /\ ~running["relay"]

\* Where the application can be.
CallAtStep ==
  \/ todo = <<>> /\ Settled
  \/ \E i \in 1 .. 7 : InitAt(i)
  \/ \E i \in 1 .. 5 : RelayCreateAt(i) \/ StartAt(i)
  \/ \E i \in 1 .. 9 : RelayStartAt(i)
  \/ \E i \in 1 .. 3 : UndoAt(i)
  \/ \E k \in AfterStop : StopTun(k) \/ \E i \in 1 .. 5 : StopTunAt(i, k)
  \/ \E k \in AfterRelayStop :
       StopRelay(k) \/ RelayStopped(k) \/ \E i \in 1 .. 3 : StopRelayAt(i, k)
  \/ FreeTun \/ FreeRelay

\* A thread has what it uses until it is joined, and a receive thread that the
\* relay started has the relay.
ThreadsHaveState ==
  /\ \A t \in Threads : Exists(t) => Tunnel \subseteq held /\ (t = "rt" => Relay \subseteq held)
  /\ ~direct => ~dangling /\ (Exists("recv") => "relay" \in held)

\* The invariant every step of the application and of the threads preserves: each
\* call is at one of its steps, with the resources, threads and flags that go with
\* it, and the threads have what they use.
LifecycleInv == TypeOK /\ ~badfree /\ CallAtStep /\ ThreadsHaveState

\* Every call returns: no wake-up of the keepalive thread is lost, and no thread
\* waits for another for good.
CallsReturn == todo # <<>> ~> todo = <<>> \/ dangling
=============================================================================
