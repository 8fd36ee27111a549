-------------------------- MODULE Forwarding_proof --------------------------
(***************************************************************************)
(* Proofs about Forwarding, for any number of ports, descriptors and       *)
(* connections: ForwardingInv is inductive, so the relay never uses or     *)
(* loses a descriptor that was reused, and never hands lwIP a dead pcb.    *)
(***************************************************************************)
EXTENDS Forwarding, TLAPS

USE ZenonT(30)

-----------------------------------------------------------------------------
(* The tables: std::map insertion and erasure. *)

\* Erasing from an injective map takes exactly one value out of it.
LEMMA RemoveFromInjective ==
  ASSUME NEW map, NEW k, IsInjective(map)
  PROVE  /\ IsInjective(Remove(map, k))
         /\ k \in DOMAIN map => Range(Remove(map, k)) = Range(map) \ {map[k]}
         /\ k \notin DOMAIN map => Range(Remove(map, k)) = Range(map)
<1> DEFINE r == Remove(map, k)
<1>1. DOMAIN r = DOMAIN map \ {k} /\ \A x \in DOMAIN r : r[x] = map[x]
  BY DEF Remove, Restrict
<1> HIDE DEF r
<1>2. IsInjective(r)
  BY <1>1 DEF IsInjective
<1>3. k \in DOMAIN map => Range(r) = Range(map) \ {map[k]}
  BY SMT, <1>1 DEF IsInjective, Range
<1>4. k \notin DOMAIN map => Range(r) = Range(map)
  BY <1>1 DEF Range
<1> QED
  BY <1>2, <1>3, <1>4 DEF r

\* Inserting a new value in an injective map takes out at most the value it
\* replaces.
LEMMA PutInInjective ==
  ASSUME NEW map, NEW k, NEW v, IsInjective(map), v \notin Range(map)
  PROVE  /\ IsInjective(Put(map, k, v))
         /\ k \in DOMAIN map => Range(Put(map, k, v)) = (Range(map) \ {map[k]}) \cup {v}
         /\ k \notin DOMAIN map => Range(Put(map, k, v)) = Range(map) \cup {v}
<1> DEFINE r == Put(map, k, v)
<1>1. /\ DOMAIN r = DOMAIN map \cup {k} /\ r[k] = v
      /\ \A x \in DOMAIN map : x # k => r[x] = map[x]
  BY DEF Put
<1> HIDE DEF r
<1>2. IsInjective(r)
  BY <1>1 DEF IsInjective, Range
<1>3. k \in DOMAIN map => Range(r) = (Range(map) \ {map[k]}) \cup {v}
  BY SMT, <1>1 DEF IsInjective, Range
<1>4. k \notin DOMAIN map => Range(r) = Range(map) \cup {v}
  BY SMT, <1>1 DEF Range
<1> QED
  BY <1>2, <1>3, <1>4 DEF r

-----------------------------------------------------------------------------
(* The invariant at the start, and steps that leave tables and sockets alone. *)

\* A relay that was just created has no sockets and no connections.
LEMMA InitForwardingInv == Init => ForwardingInv
<1> SUFFICES ASSUME Init PROVE ForwardingInv
  OBVIOUS
<1>1. /\ DOMAIN tcpListeners = {} /\ DOMAIN tcpConnections = {} /\ DOMAIN udpBindings = {}
      /\ Range(tcpListeners) = {} /\ Range(tcpConnections) = {} /\ Range(udpBindings) = {}
      /\ IsInjective(tcpConnections)
  BY SMT DEF Init, Range, IsInjective
<1>2. TypeOK
  BY <1>1 DEF Init, TypeOK, Closed, Unused
<1>3. RemembersItsSockets /\ KeyIsOwnSocket
  BY <1>1 DEF RemembersItsSockets, KeyIsOwnSocket
<1>4. OneEntry
  BY <1>1 DEF Init, OneEntry, Alive, Unused
<1>5. NoSocketLeak
  BY DEF Init, NoSocketLeak, Closed
<1>6. PcbInv
  BY <1>1 DEF Init, PcbInv, PcbIsLive, DeletedOnlyAfterClose
<1> QED
  BY <1>2, <1>3, <1>4, <1>5, <1>6 DEF ForwardingInv, SocketsInv

\* What only reads sockets, or only starts the loop thread, keeps the invariant.
LEMMA QuietStep ==
  ASSUME ForwardingInv, TypeOK', UNCHANGED <<sockets, tables, conn, pcb>>
  PROVE  ForwardingInv'
<1> USE DEF tables
<1>1. \A c \in Conns : Alive(c)' = Alive(c)
  BY DEF Alive
<1>2. SocketsInv'
  BY <1>1 DEF ForwardingInv, SocketsInv, RemembersItsSockets, KeyIsOwnSocket, OneEntry
<1>3. NoSocketLeak'
  BY DEF ForwardingInv, NoSocketLeak, Alive
<1>4. PcbInv'
  BY <1>1 DEF ForwardingInv, PcbInv, PcbIsLive, DeletedOnlyAfterClose
<1> QED
  BY <1>2, <1>3, <1>4 DEF ForwardingInv

-----------------------------------------------------------------------------
(* The application's calls. *)

\* startTcpRelay and startUdpRelay give the new socket a number no table knows.
LEMMA StartRelayStep ==
  ASSUME ForwardingInv, NEW p \in Ports, StartTcpRelay(p) \/ StartUdpRelay(p)
  PROVE  ForwardingInv'
<1> USE DEF ForwardingInv, SocketsInv, PcbInv
<1>1. /\ UNCHANGED <<tcpConnections, conn, pcb, running, freed>>
      /\ \A c \in Conns : Alive(c)' = Alive(c)
  BY DEF StartTcpRelay, StartUdpRelay, Alive
<1>2. PICK f \in Free, kind \in {"listener", "binding"} :
        /\ sockets' = [sockets EXCEPT ![f] = [kind |-> kind, of |-> p]]
        /\ readable' = [readable EXCEPT ![f] = "no"]
        /\ kind = "listener" => /\ p \notin DOMAIN tcpListeners
                                /\ tcpListeners' = Put(tcpListeners, p, f)
                                /\ udpBindings' = udpBindings
        /\ kind = "binding" => /\ p \notin DOMAIN udpBindings
                               /\ udpBindings' = Put(udpBindings, p, f)
                               /\ tcpListeners' = tcpListeners
  BY DEF StartTcpRelay, StartUdpRelay, Open
<1>3. f \in Fds /\ sockets[f] = Closed
  BY DEF Free
<1> DEFINE L == kind = "listener"
<1>L. /\ DOMAIN tcpListeners' = DOMAIN tcpListeners \cup (IF L THEN {p} ELSE {})
      /\ \A q \in DOMAIN tcpListeners : tcpListeners'[q] = tcpListeners[q]
      /\ L => tcpListeners'[p] = f
  BY <1>2 DEF Put
<1>B. /\ DOMAIN udpBindings' = DOMAIN udpBindings \cup (IF L THEN {} ELSE {p})
      /\ \A q \in DOMAIN udpBindings : udpBindings'[q] = udpBindings[q]
      /\ ~L => udpBindings'[p] = f
  BY <1>2 DEF Put
<1>4. sockets'[f] = [kind |-> kind, of |-> p] /\ \A g \in Fds : g # f => sockets'[g] = sockets[g]
  BY <1>2, <1>3 DEF TypeOK
<1>5. TypeOK'
  <2>1. sockets' \in [Fds -> [kind : {"closed", "listener", "conn", "binding"},
                               of : Ports \cup Conns \cup {None}]]
    BY <1>2, <1>3 DEF TypeOK
  <2>2. /\ DOMAIN tcpListeners' \subseteq Ports /\ Range(tcpListeners') \subseteq Fds
        /\ DOMAIN udpBindings' \subseteq Ports /\ Range(udpBindings') \subseteq Fds
    BY SMT, <1>3, <1>L, <1>B DEF TypeOK, Range
  <2> QED
    BY <1>1, <1>2, <1>3, <2>1, <2>2 DEF TypeOK
<1>6. RemembersItsSockets'
  <2>1. ASSUME NEW q \in DOMAIN tcpListeners'
        PROVE  sockets'[tcpListeners'[q]] = [kind |-> "listener", of |-> q]
    <3>1. CASE kind = "listener" /\ q = p
      BY <1>4, <1>L, <1>B, <3>1
    <3>2. CASE ~(kind = "listener" /\ q = p)
      <4>1. q \in DOMAIN tcpListeners /\ tcpListeners'[q] = tcpListeners[q]
        BY <1>L, <3>2, <2>1
      <4>2. tcpListeners[q] \in Fds /\ sockets[tcpListeners[q]] = [kind |-> "listener", of |-> q]
        BY <4>1 DEF RemembersItsSockets, TypeOK, Range
      <4>3. tcpListeners[q] # f
        BY SMT, <1>3, <4>2 DEF Closed
      <4> QED
        BY <1>4, <4>1, <4>2, <4>3
    <3> QED
      BY <3>1, <3>2
  <2>2. ASSUME NEW q \in DOMAIN udpBindings'
        PROVE  sockets'[udpBindings'[q]] = [kind |-> "binding", of |-> q]
    <3>1. CASE kind = "binding" /\ q = p
      BY <1>4, <1>L, <1>B, <3>1
    <3>2. CASE ~(kind = "binding" /\ q = p)
      <4>1. q \in DOMAIN udpBindings /\ udpBindings'[q] = udpBindings[q]
        BY <1>2, <1>B, <3>2, <2>2
      <4>2. udpBindings[q] \in Fds /\ sockets[udpBindings[q]] = [kind |-> "binding", of |-> q]
        BY ZenonT(40), <4>1 DEF RemembersItsSockets, TypeOK, Range
      <4>3. udpBindings[q] # f
        BY SMT, <1>3, <4>2 DEF Closed
      <4> QED
        BY <1>4, <4>1, <4>2, <4>3
    <3> QED
      BY <3>1, <3>2
  <2>3. ASSUME NEW c \in Range(tcpConnections'), conn'[c].localSock # None
        PROVE  sockets'[conn'[c].localSock] = [kind |-> "conn", of |-> c]
    <3>1. /\ conn[c].localSock \in Fds
          /\ sockets[conn[c].localSock] = [kind |-> "conn", of |-> c]
      BY <1>1, <2>3 DEF RemembersItsSockets, TypeOK
    <3>2. conn[c].localSock # f
      BY SMT, <1>3, <3>1 DEF Closed
    <3> QED
      BY <1>1, <1>4, <3>1, <3>2
  <2> QED
    BY <2>1, <2>2, <2>3 DEF RemembersItsSockets
<1>7. KeyIsOwnSocket' /\ OneEntry' /\ PcbInv'
  BY <1>1 DEF KeyIsOwnSocket, OneEntry, PcbInv, PcbIsLive, DeletedOnlyAfterClose
<1>8. NoSocketLeak'
  <2> SUFFICES ASSUME NEW g \in Fds
               PROVE  /\ sockets'[g].kind = "listener" =>
                           sockets'[g].of \in DOMAIN tcpListeners' /\ tcpListeners'[sockets'[g].of] = g
                      /\ sockets'[g].kind = "binding" =>
                           sockets'[g].of \in DOMAIN udpBindings' /\ udpBindings'[sockets'[g].of] = g
                      /\ sockets'[g].kind = "conn" =>
                           sockets'[g].of \in Range(tcpConnections') /\ conn'[sockets'[g].of].localSock = g
    BY DEF NoSocketLeak, Alive
  <2>1. CASE g = f
    BY SMT, <1>2, <1>4, <1>L, <1>B, <2>1
  <2>2. CASE g # f
    BY SMT, <1>1, <1>4, <1>L, <1>B, <2>2 DEF NoSocketLeak, Alive
  <2> QED
    BY <2>1, <2>2
<1> QED
  BY <1>5, <1>6, <1>7, <1>8

\* stop() closes every descriptor there is: each was in one of the tables.
LEMMA StopStep ==
  ASSUME ForwardingInv, Stop
  PROVE  ForwardingInv'
<1> USE DEF ForwardingInv, SocketsInv
<1> DEFINE fs == Range(tcpListeners) \cup {conn[c].localSock : c \in Range(tcpConnections)}
                   \cup Range(udpBindings)
<1>1. /\ DOMAIN tcpListeners' = {} /\ DOMAIN tcpConnections' = {} /\ DOMAIN udpBindings' = {}
      /\ Range(tcpListeners') = {} /\ Range(tcpConnections') = {} /\ Range(udpBindings') = {}
      /\ IsInjective(tcpConnections')
  BY SMT DEF Stop, Range, IsInjective
<1>2. /\ sockets' = [f \in Fds |-> IF f \in fs THEN Closed ELSE sockets[f]]
      /\ readable' = [f \in Fds |-> IF f \in fs THEN "no" ELSE readable[f]]
      /\ pcb' = [c \in Conns |-> IF Alive(c) /\ conn[c].pcb THEN "none" ELSE pcb[c]]
      /\ conn' = [c \in Conns |-> IF Alive(c) THEN Unused ELSE conn[c]]
      /\ running' = FALSE /\ freed' = freed
  BY DEF Stop, Close
<1> HIDE DEF fs
<1>3. TypeOK'
  <2>1. /\ sockets' \in [Fds -> [kind : {"closed", "listener", "conn", "binding"},
                                  of : Ports \cup Conns \cup {None}]]
        /\ readable' \in [Fds -> {"no", "data", "eof", "hup"}]
    BY <1>2 DEF TypeOK, Closed
  <2>2. /\ conn' \in [Conns -> [localSock : Fds \cup {None}, pcb : BOOLEAN, connected : BOOLEAN]]
        /\ pcb' \in [Conns -> {"none", "connecting", "open", "ended", "closing"}]
    BY <1>2 DEF TypeOK, Unused
  <2> QED
    BY <1>1, <1>2, <2>1, <2>2 DEF TypeOK
<1>4. RemembersItsSockets' /\ KeyIsOwnSocket'
  BY <1>1 DEF RemembersItsSockets, KeyIsOwnSocket
<1>5. OneEntry'
  <2>1. \A c \in Conns : conn'[c].localSock = None
    BY <1>2 DEF OneEntry, Unused
  <2> QED
    BY <1>1, <2>1 DEF OneEntry, Alive
<1>6. NoSocketLeak'
  <2> SUFFICES ASSUME NEW g \in Fds PROVE sockets'[g].kind \notin {"listener", "binding", "conn"}
    BY DEF NoSocketLeak
  <2>1. CASE g \in fs
    BY <1>2, <2>1 DEF Closed
  <2>2. CASE g \notin fs
    <3>1. sockets'[g] = sockets[g]
      BY <1>2, <2>2
    <3>2. g \notin Range(tcpListeners) /\ g \notin Range(udpBindings)
          /\ \A c \in Range(tcpConnections) : g # conn[c].localSock
      BY <2>2 DEF fs
    <3> QED
      BY ZenonT(40), <3>1, <3>2 DEF NoSocketLeak, Alive, Range
  <2> QED
    BY <2>1, <2>2
<1>7. PcbInv'
  <2>1. PcbIsLive'
    BY <1>1 DEF PcbIsLive
  <2>2. DeletedOnlyAfterClose'
    <3> SUFFICES ASSUME NEW c \in Conns, pcb'[c] # "none" PROVE pcb'[c] \in {"closing", "ended"}
      BY DEF DeletedOnlyAfterClose
    <3>1. pcb'[c] = IF Alive(c) /\ conn[c].pcb THEN "none" ELSE pcb[c]
      BY <1>2
    <3>2. CASE Alive(c)
      BY <3>1, <3>2 DEF PcbInv, PcbIsLive, Alive, TypeOK
    <3>3. CASE ~Alive(c)
      BY <3>1, <3>3 DEF PcbInv, DeletedOnlyAfterClose
    <3> QED
      BY <3>2, <3>3
  <2> QED
    BY <2>1, <2>2 DEF PcbInv
<1> QED
  BY <1>3, <1>4, <1>5, <1>6, <1>7

-----------------------------------------------------------------------------
(* The loop thread's handlers. *)

\* An entry whose number is free belongs to a connection whose target has closed.
LEMMA EntryUnderFreeNumber ==
  ASSUME ForwardingInv, NEW g \in Free, g \in DOMAIN tcpConnections
  PROVE  /\ tcpConnections[g] \in Conns /\ Alive(tcpConnections[g])
         /\ conn[tcpConnections[g]].localSock = None
         /\ pcb[tcpConnections[g]] \in {"ended", "none"}
<1> USE DEF ForwardingInv, SocketsInv
<1>1. tcpConnections[g] \in Range(tcpConnections)
  BY DEF Range
<1>2. g \in Fds /\ sockets[g] = Closed
  BY DEF Free
<1>3. conn[tcpConnections[g]].localSock # g
  <2> SUFFICES ASSUME conn[tcpConnections[g]].localSock = g PROVE FALSE
    OBVIOUS
  <2>1. g # None
    BY <1>2, NoneAssumption
  <2>2. sockets[g] = [kind |-> "conn", of |-> tcpConnections[g]]
    BY <1>1, <2>1 DEF RemembersItsSockets
  <2> QED
    BY SMT, <1>2, <2>2 DEF Closed
<1> QED
  BY <1>1, <1>3 DEF KeyIsOwnSocket, TypeOK, Alive

\* A failed accept erases at most an entry under the number it was given, whose
\* connection had no socket any more.
LEMMA AcceptFailsStep ==
  ASSUME ForwardingInv, NEW p \in Ports, p \in DOMAIN tcpListeners, AcceptFails(p)
  PROVE  ForwardingInv'
<1> USE DEF ForwardingInv, SocketsInv, PcbInv
<1>1. PICK g \in Free :
        /\ tcpConnections' \in {tcpConnections, Remove(tcpConnections, g)}
        /\ conn' = [c \in Conns |->
             IF Alive(c) /\ c \notin Range(tcpConnections') THEN Unused ELSE conn[c]]
  BY DEF AcceptFails
<1>2. UNCHANGED <<sockets, tcpListeners, udpBindings, pcb, running, freed>>
  BY DEF AcceptFails
<1>3. TypeOK /\ g \in Fds /\ IsInjective(tcpConnections)
  BY DEF Free, OneEntry
<1>4. readable' \in [Fds -> {"no", "data", "eof", "hup"}]
  BY <1>3 DEF AcceptFails, TypeOK
<1>5. CASE tcpConnections' = tcpConnections \/ g \notin DOMAIN tcpConnections
  <2>1. /\ DOMAIN tcpConnections' = DOMAIN tcpConnections
        /\ \A k \in DOMAIN tcpConnections : tcpConnections'[k] = tcpConnections[k]
    BY <1>1, <1>5 DEF Remove, Restrict
  <2>2. Range(tcpConnections') = Range(tcpConnections) /\ IsInjective(tcpConnections')
    BY <1>3, <2>1 DEF Range, IsInjective
  <2>3. conn' = conn
    <3>1. \A c \in Conns : conn'[c] = conn[c]
      BY <1>1, <2>2 DEF Alive
    <3> QED
      BY <1>1, <1>3, <3>1 DEF TypeOK
  <2>4. TypeOK'
    BY <1>2, <1>4, <2>1, <2>2, <2>3 DEF TypeOK
  <2>5. RemembersItsSockets' /\ KeyIsOwnSocket' /\ OneEntry'
    BY <1>2, <2>1, <2>2, <2>3 DEF RemembersItsSockets, KeyIsOwnSocket, OneEntry, Alive
  <2>6. NoSocketLeak' /\ PcbInv'
    BY <1>2, <2>2, <2>3 DEF NoSocketLeak, PcbIsLive, DeletedOnlyAfterClose, Alive
  <2> QED
    BY <2>4, <2>5, <2>6
<1>6. CASE tcpConnections' = Remove(tcpConnections, g) /\ g \in DOMAIN tcpConnections
  <2> DEFINE old == tcpConnections[g]
  <2>1. /\ DOMAIN tcpConnections' = DOMAIN tcpConnections \ {g}
        /\ \A k \in DOMAIN tcpConnections' : tcpConnections'[k] = tcpConnections[k]
    BY <1>6 DEF Remove, Restrict
  <2>2. Range(tcpConnections') = Range(tcpConnections) \ {old} /\ IsInjective(tcpConnections')
    BY <1>3, <1>6, RemoveFromInjective
  <2>3. /\ old \in Conns /\ Alive(old) /\ conn[old].localSock = None
        /\ pcb[old] \in {"ended", "none"}
    BY <1>6, EntryUnderFreeNumber
  <2> HIDE DEF old
  <2>4. /\ conn'[old] = Unused
        /\ \A c \in Conns : c # old => conn'[c] = conn[c]
        /\ conn' \in [Conns -> [localSock : Fds \cup {None}, pcb : BOOLEAN, connected : BOOLEAN]]
    BY <1>1, <1>3, <2>2, <2>3 DEF TypeOK, Unused, Alive
  <2>5. TypeOK'
    BY <1>2, <1>4, <2>1, <2>2, <2>4 DEF TypeOK
  <2>6. RemembersItsSockets'
    BY ZenonT(40), <1>2, <2>2, <2>4 DEF RemembersItsSockets, TypeOK
  <2>7. KeyIsOwnSocket'
    <3> SUFFICES ASSUME NEW k \in DOMAIN tcpConnections', NEW c, c = tcpConnections'[k]
                 PROVE  /\ conn'[c].localSock \in {k, None}
                        /\ conn'[c].localSock = None => pcb'[c] \in {"ended", "none"}
      BY DEF KeyIsOwnSocket
    <3>1. k \in DOMAIN tcpConnections /\ c = tcpConnections[k] /\ c \in Range(tcpConnections')
      BY <2>1 DEF Range
    <3>2. conn'[c] = conn[c]
      BY <2>2, <2>4, <3>1 DEF TypeOK
    <3> QED
      BY <1>2, <3>1, <3>2 DEF KeyIsOwnSocket
  <2>8. OneEntry'
    BY SMT, <1>2, <2>2, <2>4 DEF OneEntry, Alive, Unused
  <2>9. NoSocketLeak'
    <3>1. ASSUME NEW f \in Fds, sockets[f].kind = "conn"
          PROVE  sockets[f].of # old /\ sockets[f].of \in Conns
      BY SMT, <1>3, <2>3, <3>1, NoneAssumption DEF NoSocketLeak, Alive, TypeOK
    <3> QED
      BY <1>2, <2>2, <2>4, <3>1 DEF NoSocketLeak, Alive
  <2>10. PcbInv'
    BY <1>2, <2>2, <2>3, <2>4 DEF PcbIsLive, DeletedOnlyAfterClose, Alive, TypeOK
  <2> QED
    BY <2>5, <2>6, <2>7, <2>8, <2>9, <2>10
<1> QED
  BY <1>1, <1>5, <1>6

\* An accepted connection gets a free number and a connection object without pcb;
\* the entry it may replace belonged to a connection without a socket.
LEMMA AcceptStep ==
  ASSUME ForwardingInv, NEW p \in Ports, p \in DOMAIN tcpListeners, Accept(p)
  PROVE  ForwardingInv'
<1> USE DEF ForwardingInv, SocketsInv, PcbInv
<1>1. PICK g \in Free, c \in {d \in Conns : pcb[d] = "none" /\ ~Alive(d)} :
        /\ sockets' = [sockets EXCEPT ![g] = [kind |-> "conn", of |-> c]]
        /\ readable' = [readable EXCEPT ![tcpListeners[p]] = "no", ![g] = "no"]
        /\ tcpConnections' = Put(tcpConnections, g, c)
        /\ conn' = [d \in Conns |->
             IF d = c THEN [localSock |-> g, pcb |-> TRUE, connected |-> FALSE]
             ELSE IF Alive(d) /\ d \notin Range(tcpConnections') THEN Unused
             ELSE conn[d]]
        /\ pcb' = [pcb EXCEPT ![c] = "connecting"]
  BY DEF Accept
<1>2. UNCHANGED <<tcpListeners, udpBindings, running, freed>>
  BY DEF Accept
<1>3. /\ TypeOK /\ IsInjective(tcpConnections) /\ g \in Fds /\ g # None /\ sockets[g] = Closed
      /\ c \in Conns /\ pcb[c] = "none" /\ c \notin Range(tcpConnections)
  BY NoneAssumption DEF Free, OneEntry, Alive
<1>4. /\ DOMAIN tcpConnections' = DOMAIN tcpConnections \cup {g} /\ tcpConnections'[g] = c
      /\ \A k \in DOMAIN tcpConnections : k # g => tcpConnections'[k] = tcpConnections[k]
  BY <1>1 DEF Put
<1> DEFINE gone == IF g \in DOMAIN tcpConnections THEN {tcpConnections[g]} ELSE {}
<1>5. Range(tcpConnections') = (Range(tcpConnections) \ gone) \cup {c} /\ IsInjective(tcpConnections')
  BY SMT, <1>1, <1>3, PutInInjective
<1>6. \A d \in gone : /\ d \in Conns /\ Alive(d) /\ conn[d].localSock = None
                       /\ pcb[d] \in {"ended", "none"}
  BY EntryUnderFreeNumber
<1> HIDE DEF gone
<1>7. /\ conn'[c] = [localSock |-> g, pcb |-> TRUE, connected |-> FALSE]
      /\ \A d \in gone : conn'[d] = Unused
      /\ \A d \in Conns : d # c /\ d \notin gone => conn'[d] = conn[d]
      /\ conn' \in [Conns -> [localSock : Fds \cup {None}, pcb : BOOLEAN, connected : BOOLEAN]]
  BY <1>1, <1>3, <1>5, <1>6 DEF TypeOK, Unused, Alive
<1>8. /\ sockets'[g] = [kind |-> "conn", of |-> c]
      /\ \A f \in Fds : f # g => sockets'[f] = sockets[f]
      /\ pcb'[c] = "connecting" /\ \A d \in Conns : d # c => pcb'[d] = pcb[d]
  BY <1>1, <1>3 DEF TypeOK
<1>9. TypeOK'
  <2>1. /\ sockets' \in [Fds -> [kind : {"closed", "listener", "conn", "binding"},
                                  of : Ports \cup Conns \cup {None}]]
        /\ readable' \in [Fds -> {"no", "data", "eof", "hup"}]
        /\ pcb' \in [Conns -> {"none", "connecting", "open", "ended", "closing"}]
    BY <1>1, <1>3 DEF TypeOK
  <2>2. DOMAIN tcpConnections' \subseteq Fds /\ Range(tcpConnections') \subseteq Conns
    BY <1>3, <1>4, <1>5 DEF TypeOK
  <2> QED
    BY <1>2, <1>7, <2>1, <2>2 DEF TypeOK
<1>10. RemembersItsSockets'
  <2>1. ASSUME NEW q \in DOMAIN tcpListeners
        PROVE  sockets'[tcpListeners[q]] = [kind |-> "listener", of |-> q]
    <3>1. tcpListeners[q] \in Fds /\ sockets[tcpListeners[q]] = [kind |-> "listener", of |-> q]
      BY ZenonT(40) DEF RemembersItsSockets, TypeOK, Range
    <3>2. tcpListeners[q] # g
      BY SMT, <1>3, <3>1 DEF Closed
    <3> QED
      BY <1>8, <3>1, <3>2
  <2>2. ASSUME NEW q \in DOMAIN udpBindings
        PROVE  sockets'[udpBindings[q]] = [kind |-> "binding", of |-> q]
    <3>1. udpBindings[q] \in Fds /\ sockets[udpBindings[q]] = [kind |-> "binding", of |-> q]
      BY ZenonT(40) DEF RemembersItsSockets, TypeOK, Range
    <3>2. udpBindings[q] # g
      BY SMT, <1>3, <3>1 DEF Closed
    <3> QED
      BY <1>8, <3>1, <3>2
  <2>3. ASSUME NEW d \in Range(tcpConnections'), conn'[d].localSock # None
        PROVE  sockets'[conn'[d].localSock] = [kind |-> "conn", of |-> d]
    <3>1. CASE d = c
      BY SMT, <1>7, <1>8, <3>1
    <3>2. CASE d # c
      <4>1. d \in Range(tcpConnections) /\ d \in Conns /\ conn'[d] = conn[d]
        BY <1>5, <1>7, <3>2 DEF TypeOK
      <4>2. /\ conn[d].localSock \in Fds
            /\ sockets[conn[d].localSock] = [kind |-> "conn", of |-> d]
        BY ZenonT(40), <2>3, <4>1 DEF RemembersItsSockets, TypeOK
      <4> QED
        BY SMT, <1>3, <1>8, <4>1, <4>2 DEF Closed
    <3> QED
      BY <3>1, <3>2
  <2> QED
    BY <1>2, <2>1, <2>2, <2>3 DEF RemembersItsSockets
<1>11. KeyIsOwnSocket'
  <2> SUFFICES ASSUME NEW k \in DOMAIN tcpConnections', NEW d, d = tcpConnections'[k]
               PROVE  /\ conn'[d].localSock \in {k, None}
                      /\ conn'[d].localSock = None => pcb'[d] \in {"ended", "none"}
    BY DEF KeyIsOwnSocket
  <2>1. CASE k = g
    BY SMT, <1>3, <1>4, <1>7, <2>1
  <2>2. CASE k # g
    <3>1. k \in DOMAIN tcpConnections /\ d = tcpConnections[k] /\ d \in Range(tcpConnections)
          /\ d \in Range(tcpConnections')
      BY <1>4, <2>2 DEF Range
    <3>2. d \in Conns /\ d # c /\ conn'[d] = conn[d] /\ pcb'[d] = pcb[d]
      BY <1>3, <1>5, <1>7, <1>8, <3>1 DEF TypeOK
    <3> QED
      BY <3>1, <3>2 DEF KeyIsOwnSocket
  <2> QED
    BY <2>1, <2>2
<1>12. OneEntry'
  <2> SUFFICES ASSUME NEW d \in Conns
               PROVE  IF d \in Range(tcpConnections') THEN pcb'[d] # "closing"
                      ELSE conn'[d].localSock = None
    BY <1>5 DEF OneEntry, Alive
  <2>1. CASE d = c
    BY <1>5, <1>8, <2>1
  <2>2. CASE d \in gone /\ d # c
    BY SMT, <1>5, <1>7, <2>2 DEF Unused
  <2>3. CASE d \notin gone /\ d # c
    BY <1>5, <1>7, <1>8, <2>3 DEF OneEntry, Alive
  <2> QED
    BY <2>1, <2>2, <2>3
<1>13. NoSocketLeak'
  <2> SUFFICES ASSUME NEW f \in Fds
               PROVE  /\ sockets'[f].kind = "listener" =>
                           sockets'[f].of \in DOMAIN tcpListeners' /\ tcpListeners'[sockets'[f].of] = f
                      /\ sockets'[f].kind = "binding" =>
                           sockets'[f].of \in DOMAIN udpBindings' /\ udpBindings'[sockets'[f].of] = f
                      /\ sockets'[f].kind = "conn" =>
                           sockets'[f].of \in Range(tcpConnections') /\ conn'[sockets'[f].of].localSock = f
    BY DEF NoSocketLeak, Alive
  <2>1. CASE f = g
    BY SMT, <1>5, <1>7, <1>8, <2>1
  <2>2. CASE f # g
    <3>1. ASSUME sockets[f].kind = "conn"
          PROVE  /\ sockets[f].of \in Range(tcpConnections) /\ sockets[f].of \in Conns
                 /\ conn[sockets[f].of].localSock = f /\ sockets[f].of # c
                 /\ sockets[f].of \notin gone
      <4>1. sockets[f].of \in Range(tcpConnections) /\ conn[sockets[f].of].localSock = f
        BY <3>1 DEF NoSocketLeak, Alive
      <4>2. sockets[f].of \in Conns /\ sockets[f].of # c
        BY <1>3, <4>1 DEF TypeOK
      <4>3. f # None
        BY NoneAssumption
      <4> QED
        BY <1>6, <4>1, <4>2, <4>3
    <3>2. sockets'[f] = sockets[f]
      BY <1>8, <2>2
    <3>3. sockets[f].kind = "conn" =>
            sockets[f].of \in Range(tcpConnections') /\ conn'[sockets[f].of].localSock = f
      BY <1>5, <1>7, <3>1
    <3> QED
      BY <1>2, <3>2, <3>3 DEF NoSocketLeak
  <2> QED
    BY <2>1, <2>2
<1>14. PcbInv'
  <2>1. PcbIsLive'
    <3> SUFFICES ASSUME NEW d \in Range(tcpConnections')
                 PROVE  conn'[d].pcb <=> pcb'[d] \in {"connecting", "open", "ended"}
      BY DEF PcbIsLive
    <3>1. CASE d = c
      BY SMT, <1>7, <1>8, <3>1
    <3>2. CASE d # c
      <4>1. d \in Range(tcpConnections) /\ d \notin gone /\ d \in Conns
        BY <1>5, <3>2 DEF TypeOK
      <4>2. conn'[d] = conn[d] /\ pcb'[d] = pcb[d]
        BY <1>7, <1>8, <3>2, <4>1
      <4> QED
        BY <4>1, <4>2 DEF PcbIsLive
    <3> QED
      BY <3>1, <3>2
  <2>2. DeletedOnlyAfterClose'
    BY <1>5, <1>6, <1>8 DEF DeletedOnlyAfterClose, Alive
  <2> QED
    BY <2>1, <2>2
<1> QED
  BY <1>9, <1>10, <1>11, <1>12, <1>13, <1>14

\* A socket that is closed because it is c's own takes nothing from anyone else.
LEMMA CloseOwnSocket ==
  ASSUME ForwardingInv, NEW c \in Conns, Close({conn[c].localSock})
  PROVE  /\ sockets' \in [Fds -> [kind : {"closed", "listener", "conn", "binding"},
                                   of : Ports \cup Conns \cup {None}]]
         /\ readable' \in [Fds -> {"no", "data", "eof", "hup"}]
         /\ \A f \in Fds : sockets[f] # [kind |-> "conn", of |-> c] => sockets'[f] = sockets[f]
         /\ \A f \in Fds : \/ sockets'[f] = Closed
                           \/ sockets'[f] = sockets[f] /\ f # conn[c].localSock
<1> USE DEF ForwardingInv, SocketsInv
<1>1. TypeOK
  OBVIOUS
<1>2. /\ sockets' \in [Fds -> [kind : {"closed", "listener", "conn", "binding"},
                                of : Ports \cup Conns \cup {None}]]
      /\ readable' \in [Fds -> {"no", "data", "eof", "hup"}]
  BY <1>1 DEF Close, TypeOK, Closed
<1>3. \A f \in Fds : sockets'[f] = IF f = conn[c].localSock THEN Closed ELSE sockets[f]
  BY DEF Close
<1>4. ASSUME NEW f \in Fds, f = conn[c].localSock
      PROVE  sockets[f] = [kind |-> "conn", of |-> c]
  <2>1. conn[c].localSock # None
    BY <1>4, NoneAssumption
  <2>2. c \in Range(tcpConnections)
    BY <2>1 DEF OneEntry, Alive
  <2> QED
    BY <1>4, <2>1, <2>2 DEF RemembersItsSockets
<1> QED
  BY <1>2, <1>3, <1>4

\* pollTcpConnections removes an entry: its socket is closed, and its pcb closed or
\* aborted unless lwIP has freed it.
LEMMA RemoveConnStep ==
  ASSUME ForwardingInv, NEW g \in DOMAIN tcpConnections, NEW closing \in BOOLEAN,
         RemoveConn(g, tcpConnections[g], closing),
         UNCHANGED <<tcpListeners, udpBindings, running, freed>>
  PROVE  ForwardingInv'
<1> USE DEF ForwardingInv, SocketsInv, PcbInv
<1> DEFINE c == tcpConnections[g]
<1>1. /\ TypeOK /\ IsInjective(tcpConnections) /\ c \in Conns /\ c \in Range(tcpConnections)
  BY DEF OneEntry, TypeOK, Range
<1>2. /\ Close({conn[c].localSock})
      /\ pcb' = [pcb EXCEPT ![c] = IF ~conn[c].pcb THEN @
                                    ELSE IF closing THEN "closing" ELSE "none"]
      /\ conn' = [conn EXCEPT ![c] = Unused]
      /\ tcpConnections' = Remove(tcpConnections, g)
  BY DEF RemoveConn
<1>3. /\ DOMAIN tcpConnections' = DOMAIN tcpConnections \ {g}
      /\ \A k \in DOMAIN tcpConnections' : tcpConnections'[k] = tcpConnections[k]
  BY <1>2 DEF Remove, Restrict
<1>4. Range(tcpConnections') = Range(tcpConnections) \ {c} /\ IsInjective(tcpConnections')
  BY <1>1, <1>2, RemoveFromInjective
<1> HIDE DEF c
<1>5. /\ conn'[c] = Unused
      /\ \A d \in Conns : d # c => conn'[d] = conn[d] /\ pcb'[d] = pcb[d]
      /\ pcb'[c] \in IF conn[c].pcb THEN {"closing", "none"} ELSE {pcb[c]}
      /\ conn' \in [Conns -> [localSock : Fds \cup {None}, pcb : BOOLEAN, connected : BOOLEAN]]
      /\ pcb' \in [Conns -> {"none", "connecting", "open", "ended", "closing"}]
  BY <1>1, <1>2 DEF TypeOK, Unused
<1>6a. /\ sockets' \in [Fds -> [kind : {"closed", "listener", "conn", "binding"},
                                 of : Ports \cup Conns \cup {None}]]
       /\ readable' \in [Fds -> {"no", "data", "eof", "hup"}]
  BY <1>1, <1>2, CloseOwnSocket
<1>6b. \A f \in Fds : sockets[f] # [kind |-> "conn", of |-> c] => sockets'[f] = sockets[f]
  BY <1>1, <1>2, CloseOwnSocket
<1>6c. \A f \in Fds : sockets'[f] = Closed \/ (sockets'[f] = sockets[f] /\ f # conn[c].localSock)
  BY <1>1, <1>2, CloseOwnSocket
<1>7. TypeOK'
  BY <1>3, <1>4, <1>5, <1>6a DEF TypeOK
<1>8. RemembersItsSockets'
  <2>1. ASSUME NEW q \in DOMAIN tcpListeners
        PROVE  sockets'[tcpListeners[q]] = [kind |-> "listener", of |-> q]
    <3>1. tcpListeners[q] \in Fds /\ sockets[tcpListeners[q]] = [kind |-> "listener", of |-> q]
      BY ZenonT(40) DEF RemembersItsSockets, TypeOK, Range
    <3> QED
      BY SMT, <1>6b, <3>1
  <2>2. ASSUME NEW q \in DOMAIN udpBindings
        PROVE  sockets'[udpBindings[q]] = [kind |-> "binding", of |-> q]
    <3>1. udpBindings[q] \in Fds /\ sockets[udpBindings[q]] = [kind |-> "binding", of |-> q]
      BY SMT DEF RemembersItsSockets, TypeOK, Range
    <3> QED
      BY SMT, <1>6b, <3>1
  <2>3. ASSUME NEW d \in Range(tcpConnections'), conn'[d].localSock # None
        PROVE  sockets'[conn'[d].localSock] = [kind |-> "conn", of |-> d]
    <3>1. d \in Range(tcpConnections) /\ d # c /\ d \in Conns /\ conn'[d] = conn[d]
      BY <1>4, <1>5 DEF TypeOK
    <3>2. /\ conn[d].localSock \in Fds
          /\ sockets[conn[d].localSock] = [kind |-> "conn", of |-> d]
      BY <2>3, <3>1 DEF RemembersItsSockets, TypeOK
    <3> QED
      BY SMT, <1>6b, <3>1, <3>2
  <2> QED
    BY <2>1, <2>2, <2>3 DEF RemembersItsSockets
<1>9. KeyIsOwnSocket'
  <2> SUFFICES ASSUME NEW k \in DOMAIN tcpConnections', NEW d, d = tcpConnections'[k]
               PROVE  /\ conn'[d].localSock \in {k, None}
                      /\ conn'[d].localSock = None => pcb'[d] \in {"ended", "none"}
    BY DEF KeyIsOwnSocket
  <2>1. k \in DOMAIN tcpConnections /\ d = tcpConnections[k] /\ d \in Range(tcpConnections')
    BY <1>3 DEF Range
  <2>2. conn'[d] = conn[d] /\ pcb'[d] = pcb[d]
    BY <1>4, <1>5, <2>1 DEF TypeOK
  <2> QED
    BY <2>1, <2>2 DEF KeyIsOwnSocket
<1>10. OneEntry'
  BY SMT, <1>4, <1>5 DEF OneEntry, Alive, Unused
<1>11. NoSocketLeak'
  <2> SUFFICES ASSUME NEW f \in Fds
               PROVE  /\ sockets'[f].kind = "listener" =>
                           sockets'[f].of \in DOMAIN tcpListeners' /\ tcpListeners'[sockets'[f].of] = f
                      /\ sockets'[f].kind = "binding" =>
                           sockets'[f].of \in DOMAIN udpBindings' /\ udpBindings'[sockets'[f].of] = f
                      /\ sockets'[f].kind = "conn" =>
                           sockets'[f].of \in Range(tcpConnections') /\ conn'[sockets'[f].of].localSock = f
    BY DEF NoSocketLeak, Alive
  <2>1. CASE sockets'[f] = Closed
    BY SMT, <2>1 DEF Closed
  <2>2. CASE sockets'[f] # Closed
    <3>1. sockets'[f] = sockets[f] /\ f # conn[c].localSock
      BY <1>6c, <2>2
    <3>2. ASSUME sockets[f].kind = "conn"
          PROVE  /\ sockets[f].of \in Range(tcpConnections) /\ sockets[f].of \in Conns
                 /\ conn[sockets[f].of].localSock = f /\ sockets[f].of # c
      BY <3>1, <3>2 DEF NoSocketLeak, Alive, TypeOK
    <3>3. sockets[f].kind = "conn" =>
            sockets[f].of \in Range(tcpConnections') /\ conn'[sockets[f].of].localSock = f
      BY <1>4, <1>5, <3>2
    <3> QED
      BY <3>1, <3>3 DEF NoSocketLeak
  <2> QED
    BY <2>1, <2>2
<1>12. PcbInv'
  <2>1. PcbIsLive'
    BY <1>4, <1>5 DEF PcbIsLive, TypeOK
  <2>2. DeletedOnlyAfterClose'
    BY <1>1, <1>4, <1>5 DEF DeletedOnlyAfterClose, PcbIsLive, Alive, TypeOK
  <2> QED
    BY <2>1, <2>2
<1> QED
  BY <1>7, <1>8, <1>9, <1>10, <1>11, <1>12

-----------------------------------------------------------------------------
(* lwIP's callbacks. *)

\* onTcpConnected, onTcpError and the end of a tcp_close leave the sockets alone.
LEMMA PcbCallbackStep ==
  ASSUME ForwardingInv, NEW c \in Conns, OnTcpConnected(c) \/ OnTcpError(c) \/ TcpCloseEnds(c)
  PROVE  ForwardingInv'
<1> USE DEF ForwardingInv, SocketsInv, PcbInv, tables
<1>1. /\ TypeOK /\ UNCHANGED <<sockets, readable, tcpListeners, tcpConnections, udpBindings, running>>
      /\ \A d \in Conns : Alive(d)' = Alive(d)
  BY DEF OnTcpConnected, OnTcpError, TcpCloseEnds, Alive
<1>2. /\ \A d \in Conns : d # c => conn'[d] = conn[d] /\ pcb'[d] = pcb[d]
      /\ \A d \in Conns : conn'[d].localSock = conn[d].localSock
      /\ \/ pcb[c] = "connecting" /\ pcb'[c] = "open" /\ conn'[c].pcb = conn[c].pcb
         \/ pcb'[c] = "none" /\ conn'[c].pcb = FALSE
         \/ pcb'[c] = "none" /\ pcb[c] = "closing"
  BY SMT, <1>1 DEF OnTcpConnected, OnTcpError, TcpCloseEnds, TypeOK
<1>3. TypeOK'
  <2>1. conn' \in [Conns -> [localSock : Fds \cup {None}, pcb : BOOLEAN, connected : BOOLEAN]]
    <3>1. CASE OnTcpConnected(c)
      <4> DEFINE b == Alive(c)
      <4>1. b \in BOOLEAN
        BY SMT DEF Alive
      <4>2. conn' = [conn EXCEPT ![c].connected = b]
        BY <3>1 DEF OnTcpConnected
      <4> HIDE DEF b
      <4> QED
        BY ZenonT(40), <1>1, <4>1, <4>2 DEF TypeOK
    <3>2. CASE OnTcpError(c)
      BY ZenonT(40), <1>1, <3>2 DEF OnTcpError, TypeOK
    <3>3. CASE TcpCloseEnds(c)
      BY <1>1, <3>3 DEF TcpCloseEnds, TypeOK
    <3> QED
      BY <3>1, <3>2, <3>3
  <2>2. pcb' \in [Conns -> {"none", "connecting", "open", "ended", "closing"}]
    BY ZenonT(40), <1>1 DEF OnTcpConnected, OnTcpError, TcpCloseEnds, TypeOK
  <2>3. freed' \in BOOLEAN
    BY <1>1 DEF OnTcpConnected, OnTcpError, TcpCloseEnds, TypeOK, Alive
  <2> QED
    BY <1>1, <2>1, <2>2, <2>3 DEF TypeOK
<1>4. RemembersItsSockets'
  <2>1. \A d \in Range(tcpConnections) : conn'[d].localSock = conn[d].localSock
    BY <1>1, <1>2 DEF TypeOK
  <2> QED
    BY <1>1, <2>1 DEF RemembersItsSockets
<1>5. KeyIsOwnSocket'
  <2> SUFFICES ASSUME NEW k \in DOMAIN tcpConnections, NEW d, d = tcpConnections[k]
               PROVE  /\ conn'[d].localSock \in {k, None}
                      /\ conn'[d].localSock = None => pcb'[d] \in {"ended", "none"}
    BY <1>1 DEF KeyIsOwnSocket
  <2>1. d \in Conns
    BY <1>1 DEF TypeOK, Range
  <2> QED
    BY <1>2, <2>1 DEF KeyIsOwnSocket
<1>6. OneEntry'
  <2> SUFFICES ASSUME NEW d \in Conns
               PROVE  IF Alive(d) THEN pcb'[d] # "closing" ELSE conn'[d].localSock = None
    BY <1>1 DEF OneEntry
  <2> QED
    BY <1>1, <1>2 DEF OneEntry
<1>7. NoSocketLeak'
  <2>1. \A f \in Fds : sockets[f].kind = "conn" => sockets[f].of \in Conns
    BY <1>1 DEF NoSocketLeak, Alive, TypeOK
  <2> QED
    BY <1>1, <1>2, <2>1 DEF NoSocketLeak, Alive
<1>8. PcbInv'
  <2>1. PcbIsLive'
    BY <1>1, <1>2 DEF PcbIsLive, OneEntry, Alive, TypeOK
  <2>2. DeletedOnlyAfterClose'
    BY <1>1, <1>2 DEF DeletedOnlyAfterClose
  <2> QED
    BY <2>1, <2>2
<1> QED
  BY <1>3, <1>4, <1>5, <1>6, <1>7, <1>8

\* onTcpRecv at the end of the target's data: the entry stays, without its socket.
LEMMA RecvEndStep ==
  ASSUME ForwardingInv, NEW c \in Conns, OnTcpRecvEnd(c)
  PROVE  ForwardingInv'
<1> USE DEF ForwardingInv, SocketsInv, PcbInv, tables
<1>1. /\ TypeOK /\ UNCHANGED <<tcpListeners, tcpConnections, udpBindings, running>>
      /\ \A d \in Conns : Alive(d)' = Alive(d)
      /\ Close({conn[c].localSock}) /\ pcb[c] \in {"open", "closing"}
      /\ pcb' = [pcb EXCEPT ![c] = IF @ = "open" THEN "ended" ELSE @]
      /\ conn' = [conn EXCEPT ![c].localSock = None]
      /\ freed' \in BOOLEAN
  BY DEF OnTcpRecvEnd, Alive, TypeOK
<1>2. /\ \A d \in Conns : d # c => conn'[d] = conn[d] /\ pcb'[d] = pcb[d]
      /\ \A d \in Conns : conn'[d].pcb = conn[d].pcb
      /\ conn'[c].localSock = None
      /\ pcb'[c] = IF pcb[c] = "open" THEN "ended" ELSE pcb[c]
      /\ conn' \in [Conns -> [localSock : Fds \cup {None}, pcb : BOOLEAN, connected : BOOLEAN]]
      /\ pcb' \in [Conns -> {"none", "connecting", "open", "ended", "closing"}]
  BY ZenonT(40), <1>1 DEF TypeOK
<1>3a. /\ sockets' \in [Fds -> [kind : {"closed", "listener", "conn", "binding"},
                                 of : Ports \cup Conns \cup {None}]]
       /\ readable' \in [Fds -> {"no", "data", "eof", "hup"}]
  BY <1>1, CloseOwnSocket
<1>3b. \A f \in Fds : sockets[f] # [kind |-> "conn", of |-> c] => sockets'[f] = sockets[f]
  BY <1>1, CloseOwnSocket
<1>3c. \A f \in Fds : sockets'[f] = Closed \/ (sockets'[f] = sockets[f] /\ f # conn[c].localSock)
  BY <1>1, CloseOwnSocket
<1>4. TypeOK'
  BY <1>1, <1>2, <1>3a DEF TypeOK
<1>5. RemembersItsSockets'
  <2>1. ASSUME NEW q \in DOMAIN tcpListeners
        PROVE  sockets'[tcpListeners[q]] = [kind |-> "listener", of |-> q]
    <3>1. tcpListeners[q] \in Fds /\ sockets[tcpListeners[q]] = [kind |-> "listener", of |-> q]
      BY ZenonT(40) DEF RemembersItsSockets, TypeOK, Range
    <3> QED
      BY SMT, <1>3b, <3>1
  <2>2. ASSUME NEW q \in DOMAIN udpBindings
        PROVE  sockets'[udpBindings[q]] = [kind |-> "binding", of |-> q]
    <3>1. udpBindings[q] \in Fds /\ sockets[udpBindings[q]] = [kind |-> "binding", of |-> q]
      BY SMT DEF RemembersItsSockets, TypeOK, Range
    <3> QED
      BY SMT, <1>3b, <3>1
  <2>3. ASSUME NEW d \in Range(tcpConnections), conn'[d].localSock # None
        PROVE  sockets'[conn'[d].localSock] = [kind |-> "conn", of |-> d]
    <3>1. d # c /\ d \in Conns /\ conn'[d] = conn[d]
      BY <1>1, <1>2, <2>3 DEF TypeOK
    <3>2. /\ conn[d].localSock \in Fds
          /\ sockets[conn[d].localSock] = [kind |-> "conn", of |-> d]
      BY ZenonT(40), <2>3, <3>1 DEF RemembersItsSockets, TypeOK
    <3> QED
      BY SMT, <1>3b, <3>1, <3>2
  <2> QED
    BY <1>1, <2>1, <2>2, <2>3 DEF RemembersItsSockets
<1>6. KeyIsOwnSocket'
  <2> SUFFICES ASSUME NEW k \in DOMAIN tcpConnections, NEW d, d = tcpConnections[k]
               PROVE  /\ conn'[d].localSock \in {k, None}
                      /\ conn'[d].localSock = None => pcb'[d] \in {"ended", "none"}
    BY <1>1 DEF KeyIsOwnSocket
  <2>1. d \in Conns /\ Alive(d)
    BY <1>1 DEF TypeOK, Range, Alive
  <2>2. pcb[d] # "closing"
    BY <2>1 DEF OneEntry
  <2> QED
    BY <1>1, <1>2, <2>1, <2>2 DEF KeyIsOwnSocket
<1>7. OneEntry'
  <2> SUFFICES ASSUME NEW d \in Conns
               PROVE  IF Alive(d) THEN pcb'[d] # "closing" ELSE conn'[d].localSock = None
    BY <1>1 DEF OneEntry
  <2> QED
    BY <1>1, <1>2 DEF OneEntry
<1>8. NoSocketLeak'
  <2> SUFFICES ASSUME NEW f \in Fds
               PROVE  /\ sockets'[f].kind = "listener" =>
                           sockets'[f].of \in DOMAIN tcpListeners /\ tcpListeners[sockets'[f].of] = f
                      /\ sockets'[f].kind = "binding" =>
                           sockets'[f].of \in DOMAIN udpBindings /\ udpBindings[sockets'[f].of] = f
                      /\ sockets'[f].kind = "conn" =>
                           sockets'[f].of \in Range(tcpConnections) /\ conn'[sockets'[f].of].localSock = f
    BY <1>1 DEF NoSocketLeak, Alive
  <2>1. CASE sockets'[f] = Closed
    BY SMT, <2>1 DEF Closed
  <2>2. CASE sockets'[f] # Closed
    <3>1. sockets'[f] = sockets[f] /\ f # conn[c].localSock
      BY <1>3c, <2>2
    <3>2. ASSUME sockets[f].kind = "conn"
          PROVE  /\ sockets[f].of \in Range(tcpConnections) /\ sockets[f].of \in Conns
                 /\ conn[sockets[f].of].localSock = f /\ sockets[f].of # c
      BY <3>1, <3>2 DEF NoSocketLeak, Alive, TypeOK
    <3>3. sockets[f].kind = "conn" =>
            sockets[f].of \in Range(tcpConnections) /\ conn'[sockets[f].of].localSock = f
      BY <1>2, <3>2
    <3> QED
      BY <3>1, <3>3 DEF NoSocketLeak
  <2> QED
    BY <2>1, <2>2
<1>9. PcbInv'
  <2>1. PcbIsLive'
    BY SMT, <1>1, <1>2 DEF PcbIsLive, TypeOK
  <2>2. DeletedOnlyAfterClose'
    BY <1>1, <1>2 DEF DeletedOnlyAfterClose
  <2> QED
    BY <2>1, <2>2
<1> QED
  BY <1>4, <1>5, <1>6, <1>7, <1>8, <1>9

-----------------------------------------------------------------------------
(* The theorems. *)

\* No call of the application, handler of the loop thread, callback of lwIP or act
\* of a client breaks ForwardingInv.
LEMMA ForwardingInvStep ==
  ASSUME ForwardingInv, [Next]_vars
  PROVE  ForwardingInv'
<1>0. TypeOK
  BY DEF ForwardingInv, SocketsInv
<1>1. CASE App
  <2>1. CASE Start
    <3>1. TypeOK'
      BY <1>0, <2>1 DEF Start, TypeOK, tables
    <3> QED
      BY <2>1, <3>1, QuietStep DEF Start
  <2> QED
    BY <1>1, <2>1, StopStep, StartRelayStep DEF App
<1>2. ASSUME NEW p \in Ports, PollTcpListener(p) PROVE ForwardingInv'
  BY <1>2, AcceptStep, AcceptFailsStep DEF PollTcpListener
<1>3. ASSUME NEW p \in Ports, PollUdpSocket(p) PROVE ForwardingInv'
  <2>1. TypeOK'
    BY <1>0, <1>3 DEF PollUdpSocket, TypeOK, tables
  <2> QED
    BY <1>3, <2>1, QuietStep DEF PollUdpSocket
<1>4. ASSUME NEW g \in Fds, PollTcpConnection(g) PROVE ForwardingInv'
  <2>1. /\ g \in DOMAIN tcpConnections
        /\ UNCHANGED <<tcpListeners, udpBindings, running, freed>>
    BY <1>4 DEF PollTcpConnection
  <2>2. ASSUME NEW closing \in BOOLEAN, RemoveConn(g, tcpConnections[g], closing)
        PROVE  ForwardingInv'
    BY <2>1, <2>2, RemoveConnStep
  <2>3. CASE /\ readable' = [readable EXCEPT ![g] = "no"]
             /\ UNCHANGED <<sockets, tcpConnections, conn, pcb>>
    <3>1. TypeOK'
      BY <1>0, <2>1, <2>3 DEF TypeOK
    <3> QED
      BY <2>1, <2>3, <3>1, QuietStep DEF tables
  <2> QED
    BY <1>4, <2>2, <2>3 DEF PollTcpConnection
<1>5. CASE Lwip
  BY <1>5, PcbCallbackStep, RecvEndStep DEF Lwip
<1>6. CASE Client
  <2>1. ASSUME NEW p \in Ports, ClientConnects(p) PROVE ForwardingInv'
    <3>1. TypeOK'
      BY <1>0, <2>1 DEF ClientConnects, TypeOK, tables
    <3> QED
      BY <2>1, <3>1, QuietStep DEF ClientConnects
  <2>2. ASSUME NEW f \in Fds, NEW what \in {"data", "eof", "hup"}, ClientActs(f, what)
        PROVE  ForwardingInv'
    <3>1. TypeOK'
      BY <1>0, <2>2 DEF ClientActs, TypeOK, tables
    <3> QED
      BY <2>2, <3>1, QuietStep DEF ClientActs
  <2> QED
    BY <1>6, <2>1, <2>2 DEF Client
<1>7. CASE UNCHANGED vars
  <2>1. TypeOK'
    BY <1>0, <1>7 DEF vars, tables, TypeOK
  <2> QED
    BY <1>7, <2>1, QuietStep DEF vars
<1> QED
  BY <1>1, <1>2, <1>3, <1>4, <1>5, <1>6, <1>7 DEF Next, Poll

\* The tables, the sockets and the pcbs agree in every state LwipRelay reaches.
THEOREM ForwardingInvariant == Spec => []ForwardingInv
<1>1. Init => ForwardingInv
  BY InitForwardingInv
<1>2. ForwardingInv /\ [Next]_vars => ForwardingInv'
  BY ForwardingInvStep
<1> QED
  BY <1>1, <1>2, PTL DEF Spec

\* However descriptors are reused, a number the relay remembers is the socket it
\* was opened for (tcpListeners_, udpBindings_ and TcpConnection::localSock).
THEOREM SocketsStayTheirs == Spec => []SocketsInv
<1>1. ForwardingInv => SocketsInv
  BY DEF ForwardingInv
<1> QED
  BY <1>1, ForwardingInvariant, PTL

\* No open socket is missing from the tables that stop() closes.
THEOREM NoSocketIsLost == Spec => []NoSocketLeak
<1>1. ForwardingInv => NoSocketLeak
  BY DEF ForwardingInv
<1> QED
  BY <1>1, ForwardingInvariant, PTL

\* A connection's pcb pointer is to a live pcb, and lwIP keeps a deleted connection
\* only after tcp_close or after the target's end (onTcpRecv, pollTcpConnections).
THEOREM PcbPointersHold == Spec => []PcbInv
<1>1. ForwardingInv => PcbInv
  BY DEF ForwardingInv
<1> QED
  BY <1>1, ForwardingInvariant, PTL
=============================================================================
