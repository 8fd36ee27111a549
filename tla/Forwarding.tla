----------------------------- MODULE Forwarding -----------------------------
(***************************************************************************)
(* The sockets LwipRelay forwards (lwip-relay/src/wg_lwip_relay.cpp): TCP  *)
(* listeners, the connection accepted from a local client with the lwIP    *)
(* pcb that carries it to the target, and UDP bindings.  The handlers run  *)
(* one after the other under mutex_, so each is one action.  Descriptors   *)
(* are reused: the operating system gives a closed number to the next      *)
(* socket.                                                                 *)
(***************************************************************************)
EXTENDS Naturals, Functions

CONSTANTS Ports,     \* local ports of the relays
          Fds,       \* descriptor numbers
          Conns,     \* TcpConnection objects, each with the pcb made for it
          None       \* -1, nullptr, no owner

ASSUME NoneAssumption == None \notin Fds \cup Conns \cup Ports

VARIABLES
  sockets,         \* the system's table: what each descriptor was opened for
  readable,        \* what a read of the descriptor would find
  tcpListeners,    \* LwipRelay::tcpListeners_, port -> descriptor
  tcpConnections,  \* LwipRelay::tcpConnections_, descriptor -> connection
  udpBindings,     \* LwipRelay::udpBindings_, port -> the binding's descriptor
  conn,            \* the TcpConnection objects
  pcb,             \* lwIP's side of each connection
  running,         \* the loop thread runs
  freed            \* history: lwIP called back with a deleted TcpConnection

tables == <<tcpListeners, tcpConnections, udpBindings>>
vars == <<sockets, readable, tables, conn, pcb, running, freed>>

Closed == [kind |-> "closed", of |-> None]
Unused == [localSock |-> None, pcb |-> FALSE, connected |-> FALSE]
Free == {f \in Fds : sockets[f] = Closed}

\* A connection lives as long as tcpConnections_ holds its shared_ptr.
Alive(c) == c \in Range(tcpConnections)

Remove(map, k) == Restrict(map, DOMAIN map \ {k})
Put(map, k, v) == [x \in DOMAIN map \cup {k} |-> IF x = k THEN v ELSE map[x]]

Init ==
  /\ sockets = [f \in Fds |-> Closed] /\ readable = [f \in Fds |-> "no"]
  /\ tcpListeners = <<>> /\ tcpConnections = <<>> /\ udpBindings = <<>>
  /\ conn = [c \in Conns |-> Unused] /\ pcb = [c \in Conns |-> "none"]
  /\ running = FALSE
  /\ freed = FALSE

Open(f, kind, of) ==
  /\ sockets' = [sockets EXCEPT ![f] = [kind |-> kind, of |-> of]]
  /\ readable' = [readable EXCEPT ![f] = "no"]

Close(fs) ==
  /\ sockets' = [f \in Fds |-> IF f \in fs THEN Closed ELSE sockets[f]]
  /\ readable' = [f \in Fds |-> IF f \in fs THEN "no" ELSE readable[f]]

-----------------------------------------------------------------------------
(* The application: start, startTcpRelay, startUdpRelay and stop. *)

Start ==
  /\ ~running
  /\ running' = TRUE
  /\ UNCHANGED <<sockets, readable, tables, conn, pcb, freed>>

\* Mutation of StartTcpRelay: the port is not looked up first.
StartTcpRelayAgain(p) ==
  /\ \E f \in Free :
       /\ Open(f, "listener", p)
       /\ tcpListeners' = Put(tcpListeners, p, f)
  /\ UNCHANGED <<tcpConnections, udpBindings, conn, pcb, running, freed>>

\* A port that has a listener keeps it; a socket that cannot be opened or bound
\* leaves nothing behind.
StartTcpRelay(p) ==
  /\ p \notin DOMAIN tcpListeners
  /\ \E f \in Free :
       /\ Open(f, "listener", p)
       /\ tcpListeners' = Put(tcpListeners, p, f)
  /\ UNCHANGED <<tcpConnections, udpBindings, conn, pcb, running, freed>>

StartUdpRelay(p) ==
  /\ p \notin DOMAIN udpBindings
  /\ \E f \in Free :
       /\ Open(f, "binding", p)
       /\ udpBindings' = Put(udpBindings, p, f)
  /\ UNCHANGED <<tcpListeners, tcpConnections, conn, pcb, running, freed>>

\* stop(), once the loop thread is joined: every table is closed and cleared,
\* and the pcb of a connection that still has one is aborted.
Stop ==
  /\ running' = FALSE
  /\ Close(Range(tcpListeners)
             \cup {conn[c].localSock : c \in Range(tcpConnections)}
             \cup Range(udpBindings))
  /\ pcb' = [c \in Conns |-> IF Alive(c) /\ conn[c].pcb THEN "none" ELSE pcb[c]]
  /\ conn' = [c \in Conns |-> IF Alive(c) THEN Unused ELSE conn[c]]
  /\ tcpListeners' = <<>> /\ tcpConnections' = <<>> /\ udpBindings' = <<>>
  /\ UNCHANGED freed

-----------------------------------------------------------------------------
(* The loop thread: its poll handlers. *)

\* The client is taken from the listener's queue; tcp_new or tcp_connect fails,
\* and the socket is closed again.  With tcp_connect the new entry was already
\* in the table, in place of any old one under the same number.
AcceptFails(p) ==
  LET f == tcpListeners[p] IN
  /\ readable[f] = "data"
  /\ readable' = [readable EXCEPT ![f] = "no"]
  /\ \E g \in Free :
       /\ tcpConnections' \in {tcpConnections, Remove(tcpConnections, g)}
       /\ conn' = [c \in Conns |->
            IF Alive(c) /\ c \notin Range(tcpConnections') THEN Unused ELSE conn[c]]
  /\ UNCHANGED <<sockets, tcpListeners, udpBindings, pcb, running, freed>>

\* accept, tcp_new and tcp_connect succeed.
Accept(p) ==
  LET f == tcpListeners[p] IN
  /\ readable[f] = "data"
  /\ \E g \in Free, c \in {d \in Conns : pcb[d] = "none" /\ ~Alive(d)} :
       /\ sockets' = [sockets EXCEPT ![g] = [kind |-> "conn", of |-> c]]
       /\ readable' = [readable EXCEPT ![f] = "no", ![g] = "no"]
       /\ tcpConnections' = Put(tcpConnections, g, c)
       /\ conn' = [d \in Conns |->
            IF d = c THEN [localSock |-> g, pcb |-> TRUE, connected |-> FALSE]
            ELSE IF Alive(d) /\ d \notin Range(tcpConnections') THEN Unused
            ELSE conn[d]]
       /\ pcb' = [pcb EXCEPT ![c] = "connecting"]
  /\ UNCHANGED <<tcpListeners, udpBindings, running, freed>>

\* pollTcpListeners, for one listener.
PollTcpListener(p) ==
  /\ running /\ p \in DOMAIN tcpListeners
  /\ Accept(p) \/ AcceptFails(p)

\* Mutation of RemoveConn: the pcb is dropped without tcp_abort.
RemoveConnNoAbort(g, c, closing) ==
  /\ Close({conn[c].localSock})
  /\ pcb' = [pcb EXCEPT ![c] = IF closing /\ conn[c].pcb THEN "closing" ELSE @]
  /\ conn' = [conn EXCEPT ![c] = Unused]
  /\ tcpConnections' = Remove(tcpConnections, g)

\* The connection is removed: its socket, when still open, is closed; its pcb, if
\* any, was handed to tcp_close (closing) or is aborted.
RemoveConn(g, c, closing) ==
  /\ Close({conn[c].localSock})
  /\ pcb' = [pcb EXCEPT ![c] = IF ~conn[c].pcb THEN @
                               ELSE IF closing THEN "closing" ELSE "none"]
  /\ conn' = [conn EXCEPT ![c] = Unused]
  /\ tcpConnections' = Remove(tcpConnections, g)

\* Mutation of PollTcpConnection: without a pcb, an end of file is not handled.
PollTcpConnectionNeedsPcb(g) ==
  /\ running /\ g \in DOMAIN tcpConnections
  /\ LET c == tcpConnections[g] IN
     /\ conn[c].connected
     /\ \/ /\ readable[g] = "data" /\ sockets[g].kind # "listener"
           /\ readable' = [readable EXCEPT ![g] = "no"]
           /\ UNCHANGED <<sockets, tcpConnections, conn, pcb>>
        \/ /\ readable[g] \in {"eof", "hup"} /\ conn[c].pcb
           /\ RemoveConn(g, c, TRUE)
  /\ UNCHANGED <<tcpListeners, udpBindings, running, freed>>

\* pollTcpConnections, for one connected entry.  The socket read is the one with
\* the entry's key as its number.  Data is written to the pcb, or lost if
\* tcp_write fails; a read of a listener fails, like an end of file.  A hang-up
\* is reported with or without data to read, and removes the entry either way.
PollTcpConnection(g) ==
  /\ running /\ g \in DOMAIN tcpConnections
  /\ LET c == tcpConnections[g] IN
     /\ conn[c].connected
     /\ \/ /\ readable[g] = "data" /\ sockets[g].kind # "listener"
           /\ readable' = [readable EXCEPT ![g] = "no"]
           /\ UNCHANGED <<sockets, tcpConnections, conn, pcb>>
        \/ /\ readable[g] \in {"eof", "hup"} \cup
                 (IF sockets[g].kind = "listener" THEN {"data"} ELSE {})
           /\ RemoveConn(g, c, TRUE)
        \/ /\ readable[g] = "hup"
           /\ RemoveConn(g, c, FALSE)
  /\ UNCHANGED <<tcpListeners, udpBindings, running, freed>>

\* pollUdpSockets, for one binding: the datagram goes to the target, whose answers
\* onUdpRecv hands to the client that sent last.
PollUdpSocket(p) ==
  /\ running /\ p \in DOMAIN udpBindings
  /\ readable[udpBindings[p]] = "data"
  /\ readable' = [readable EXCEPT ![udpBindings[p]] = "no"]
  /\ UNCHANGED <<sockets, tables, conn, pcb, running, freed>>

-----------------------------------------------------------------------------
(* lwIP, inside the loop thread, calls back with the connection it was given. *)

\* onTcpConnected
OnTcpConnected(c) ==
  /\ running /\ pcb[c] = "connecting"
  /\ pcb' = [pcb EXCEPT ![c] = "open"]
  /\ freed' = (freed \/ ~Alive(c))
  /\ conn' = [conn EXCEPT ![c].connected = Alive(c)]
  /\ UNCHANGED <<sockets, readable, tables, running>>

\* Mutation of OnTcpRecvEnd: localSock keeps its number.
OnTcpRecvEndKeeps(c) ==
  /\ running /\ pcb[c] \in {"open", "closing"}
  /\ pcb' = [pcb EXCEPT ![c] = IF @ = "open" THEN "ended" ELSE @]
  /\ freed' = (freed \/ ~Alive(c))
  /\ Close({conn[c].localSock})
  /\ UNCHANGED <<tables, conn, running>>

\* onTcpRecv when the target has closed its side: the local socket is closed; the
\* pcb and the entry stay.  (With data, the bytes go to the local socket.)
OnTcpRecvEnd(c) ==
  /\ running /\ pcb[c] \in {"open", "closing"}
  /\ pcb' = [pcb EXCEPT ![c] = IF @ = "open" THEN "ended" ELSE @]
  /\ freed' = (freed \/ ~Alive(c))
  /\ Close({conn[c].localSock})
  /\ conn' = [conn EXCEPT ![c].localSock = None]
  /\ UNCHANGED <<tables, running>>

\* onTcpError: the connection was refused, reset or timed out, and lwIP has freed
\* the pcb.
OnTcpError(c) ==
  /\ running /\ pcb[c] \in {"connecting", "open", "ended", "closing"}
  /\ pcb' = [pcb EXCEPT ![c] = "none"]
  /\ freed' = (freed \/ ~Alive(c))
  /\ conn' = [conn EXCEPT ![c].pcb = FALSE]
  /\ UNCHANGED <<sockets, readable, tables, running>>

\* A pcb given to tcp_close ends without a word.
TcpCloseEnds(c) ==
  /\ running /\ pcb[c] = "closing"
  /\ pcb' = [pcb EXCEPT ![c] = "none"]
  /\ UNCHANGED <<sockets, readable, tables, conn, running, freed>>

-----------------------------------------------------------------------------
(* The local clients. *)

ClientConnects(p) ==
  /\ p \in DOMAIN tcpListeners
  /\ readable' = [readable EXCEPT ![tcpListeners[p]] = "data"]
  /\ UNCHANGED <<sockets, tables, conn, pcb, running, freed>>

\* A client sends a datagram, or sends on, shuts down or resets its connection.
ClientActs(f, what) ==
  /\ readable[f] \in {"no", "data"}
  /\ sockets[f].kind \in IF what = "data" THEN {"conn", "binding"} ELSE {"conn"}
  /\ readable' = [readable EXCEPT ![f] = what]
  /\ UNCHANGED <<sockets, tables, conn, pcb, running, freed>>

App == Start \/ Stop \/ \E p \in Ports : StartTcpRelay(p) \/ StartUdpRelay(p)

Poll ==
  \/ \E p \in Ports : PollTcpListener(p) \/ PollUdpSocket(p)
  \/ \E g \in Fds : PollTcpConnection(g)

Lwip ==
  \E c \in Conns : OnTcpConnected(c) \/ OnTcpRecvEnd(c) \/ OnTcpError(c) \/ TcpCloseEnds(c)

Client ==
  \/ \E p \in Ports : ClientConnects(p)
  \/ \E f \in Fds, what \in {"data", "eof", "hup"} : ClientActs(f, what)

\* What the process does after a callback through a deleted object is not modelled.
Next == ~freed /\ (App \/ Poll \/ Lwip \/ Client)

Spec == Init /\ [][Next]_vars

\* runLoop calls every handler in every iteration, and poll() has a timeout.
Fairness ==
  /\ \A g \in Fds : WF_vars(~freed /\ PollTcpConnection(g))
  /\ \A p \in Ports : WF_vars(~freed /\ PollTcpListener(p))

FairSpec == Spec /\ Fairness

-----------------------------------------------------------------------------
(* Properties. *)

\* Type invariant; a deleted connection's fields are not looked at any more.
TypeOK ==
  /\ sockets \in [Fds -> [kind : {"closed", "listener", "conn", "binding"},
                          of : Ports \cup Conns \cup {None}]]
  /\ readable \in [Fds -> {"no", "data", "eof", "hup"}]
  /\ DOMAIN tcpListeners \subseteq Ports /\ Range(tcpListeners) \subseteq Fds
  /\ DOMAIN tcpConnections \subseteq Fds /\ Range(tcpConnections) \subseteq Conns
  /\ DOMAIN udpBindings \subseteq Ports /\ Range(udpBindings) \subseteq Fds
  /\ conn \in [Conns -> [localSock : Fds \cup {None}, pcb : BOOLEAN, connected : BOOLEAN]]
  /\ pcb \in [Conns -> {"none", "connecting", "open", "ended", "closing"}]
  /\ {running, freed} \subseteq BOOLEAN

\* A descriptor the relay remembers is still the socket it was opened for, however
\* numbers are reused: no handler reads, writes or closes a listener, a binding
\* or a connection's localSock that has become another socket, or closes twice.
RemembersItsSockets ==
  /\ \A p \in DOMAIN tcpListeners :
       sockets[tcpListeners[p]] = [kind |-> "listener", of |-> p]
  /\ \A p \in DOMAIN udpBindings :
       sockets[udpBindings[p]] = [kind |-> "binding", of |-> p]
  /\ \A c \in Range(tcpConnections) : conn[c].localSock # None =>
       sockets[conn[c].localSock] = [kind |-> "conn", of |-> c]

\* No socket is lost: an open descriptor is in one of the tables, so stop()
\* closes it, whatever failed while it was opened.
NoSocketLeak ==
  \A f \in Fds :
    LET s == sockets[f] IN
    /\ s.kind = "listener" => s.of \in DOMAIN tcpListeners /\ tcpListeners[s.of] = f
    /\ s.kind = "binding" => s.of \in DOMAIN udpBindings /\ udpBindings[s.of] = f
    /\ s.kind = "conn" => Alive(s.of) /\ conn[s.of].localSock = f

\* A connection's pcb pointer is never left pointing to a pcb lwIP has freed or
\* is closing: what tcp_write, tcp_close and tcp_abort get is a live pcb.
PcbIsLive ==
  \A c \in Range(tcpConnections) :
    conn[c].pcb <=> pcb[c] \in {"connecting", "open", "ended"}

\* lwIP keeps the pointer to a TcpConnection that is already deleted in two cases
\* only: the pcb was handed to tcp_close, or the target had closed its side and the
\* entry, kept under the closed descriptor's number, was overwritten by a
\* connection that got this number.
DeletedOnlyAfterClose ==
  \A c \in Conns :
    pcb[c] # "none" /\ ~Alive(c) => pcb[c] \in {"closing", "ended"}

\* The read in pollTcpConnections goes by the entry's key; it takes another
\* socket's data only for an entry whose target has closed: the key of every other
\* entry is its own open socket.
KeyIsOwnSocket ==
  \A g \in DOMAIN tcpConnections :
    LET c == tcpConnections[g] IN
    conn[c].localSock \in {g, None} /\ (conn[c].localSock = None => pcb[c] \in {"ended", "none"})

\* A connection has one entry in the table, and a connection without one has given
\* up its socket; only a connection without one has its pcb in tcp_close.
OneEntry ==
  /\ IsInjective(tcpConnections)
  /\ \A c \in Conns : IF Alive(c) THEN pcb[c] # "closing" ELSE conn[c].localSock = None

\* What the relay knows of its sockets is true, under every reuse of numbers.
SocketsInv == TypeOK /\ RemembersItsSockets /\ KeyIsOwnSocket /\ OneEntry

\* What the relay and lwIP know of each other: the pointer from a connection to its
\* pcb, and the one back (tcp_arg).
PcbInv == PcbIsLive /\ DeletedOnlyAfterClose

\* The invariant that every handler preserves.
ForwardingInv == SocketsInv /\ NoSocketLeak /\ PcbInv

\* A connected client that shuts down or resets gets its socket closed by the
\* relay, whatever the target, the other clients and lwIP do meanwhile.
EndIsNoticed ==
  \A c \in Conns :
    Alive(c) /\ conn[c].connected /\ conn[c].localSock # None
      /\ readable[conn[c].localSock] \in {"eof", "hup"}
    ~> ~Alive(c) \/ conn[c].localSock = None \/ freed \/ ~running

=============================================================================
