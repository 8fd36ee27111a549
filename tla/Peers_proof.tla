---------------------------- MODULE Peers_proof -----------------------------
(***************************************************************************)
(* Proofs about the peer table, for every WG_MAX_PEERS and every number of *)
(* handshakes.  The inductive invariant is PeersInv: the entries are in    *)
(* their ranges and of one piece; and until two threads have overlapped on *)
(* a peer (raced), the handshakes in progress are new ones                 *)
(* (HandshakesFresh), the counters taken are used once (CountersInv), and  *)
(* the receive thread has in the session what it has of the handshake      *)
(* (InstallInv).  The last three need each other: resetting a counter is   *)
(* safe because the keys it comes with are new, they are new because a     *)
(* sender never holds a counter across the reset.                          *)
(***************************************************************************)
EXTENDS Peers, TLAPS

USE ZenonT(30)

\* The ranges of indices grow with the next index.
LEMMA Below ==
  \A k, n \in Nat : n >= k => 0 .. k - 1 \subseteq 0 .. n - 1 /\ 0 .. k \subseteq 0 .. n
BY SMT

\* An entry of the table is not 0, the place of a thread that is idle.
LEMMA Above == \A n \in Nat : \A p \in 1 .. n : p \in 0 .. n /\ p # 0
BY SMT

\* What was in range stays so as the next index grows: indices, keys, sessions,
\* entries and messages.
LEMMA Grow ==
  ASSUME nextId \in Nat, nextId' \in Nat, nextId' >= nextId
  PROVE  /\ Index \subseteq Index' /\ Key \subseteq Key' /\ Session \subseteq Session'
         /\ Entry \subseteq Entry' /\ \A m : MsgOK(m) => MsgOK(m)'
<1>1. Index \subseteq Index'
  BY Below DEF Index
<1>2. Key \subseteq Key'
  BY <1>1 DEF Key
<1>3. Session \subseteq Session'
  BY <1>1, <1>2 DEF Session
<1>4. Entry \subseteq Entry'
  BY <1>1, <1>3 DEF Entry
<1>5. ASSUME NEW m, MsgOK(m) PROVE MsgOK(m)'
  BY <1>1, <1>2, <1>5 DEF MsgOK
<1> QED
  BY <1>1, <1>2, <1>3, <1>4, <1>5

\* The cleared session and the cleared entry are in their ranges.
LEMMA Zeros ==
  ASSUME nextId \in Nat \ {0}
  PROVE  /\ 0 \in Index /\ NoKey \in Key /\ ZeroSession \in Session
         /\ nextId' = nextId + 1 => nextId \in Index' /\ nextId \notin Index
<1>1. 0 \in Index /\ (nextId' = nextId + 1 => nextId \in Index' /\ nextId \notin Index)
  BY SMT DEF Index
<1>2. NoKey \in Key
  BY SMT, <1>1 DEF NoKey, Kdf2, Key
<1> QED
  BY SMT, <1>1, <1>2 DEF ZeroSession, Session

\* A step never takes an index back, nor a message that was sent.
LEMMA Grows ==
  ASSUME nextId \in Nat \ {0}, Next
  PROVE  nextId' \in Nat \ {0} /\ nextId' >= nextId /\ net \subseteq net'
<1>1. CASE AddPeer
  BY SMT, <1>1 DEF AddPeer
<1>2. CASE HandshakeInitPeer
  BY SMT, <1>2 DEF HandshakeInitPeer
<1>3. CASE InitSend
  BY SMT, <1>3 DEF InitSend
<1>4. CASE InitSave
  BY SMT, <1>4 DEF InitSave
<1>5. CASE SendCheck
  BY SMT, <1>5 DEF SendCheck
<1>6. ASSUME NEW t \in {"loop", "ka", "recv"}, SendLock(t)
      PROVE  nextId' \in Nat \ {0} /\ nextId' >= nextId /\ net \subseteq net'
  BY SMT, <1>6 DEF SendLock
<1>7. ASSUME NEW t \in Threads, StoreCounter(t)
      PROVE  nextId' \in Nat \ {0} /\ nextId' >= nextId /\ net \subseteq net'
  BY SMT, <1>7 DEF StoreCounter
<1>8. ASSUME NEW t \in Threads, Encrypt(t)
      PROVE  nextId' \in Nat \ {0} /\ nextId' >= nextId /\ net \subseteq net'
  BY SMT, <1>8 DEF Encrypt
<1>9. CASE KaWipe
  BY SMT, <1>9 DEF KaWipe
<1>10. CASE PassiveRotate
  BY SMT, <1>10 DEF PassiveRotate
<1>11. CASE SetKeys
  BY SMT, <1>11 DEF SetKeys
<1>12. CASE PassiveReset
  BY SMT, <1>12 DEF PassiveReset
<1>13. CASE RecvKeepalive
  BY SMT, <1>13 DEF RecvKeepalive
<1>14. CASE ResponseReset
  BY SMT, <1>14 DEF ResponseReset
<1>15. CASE RecvAccept
  BY SMT, <1>15 DEF RecvAccept
<1>16. ASSUME NEW p \in Ids, KaCheck(p)
       PROVE  nextId' \in Nat \ {0} /\ nextId' >= nextId /\ net \subseteq net'
  BY SMT, <1>16 DEF KaCheck
<1>17. ASSUME NEW p \in Ids, Tick(p)
       PROVE  nextId' \in Nat \ {0} /\ nextId' >= nextId /\ net \subseteq net'
  BY SMT, <1>17 DEF Tick
<1>18. ASSUME NEW p \in Ids, PeerInitiate(p)
       PROVE  nextId' \in Nat \ {0} /\ nextId' >= nextId /\ net \subseteq net'
  BY SMT, <1>18 DEF PeerInitiate
<1>19. ASSUME NEW p \in Ids, NetifOutput(p)
       PROVE  nextId' \in Nat \ {0} /\ nextId' >= nextId /\ net \subseteq net'
  BY SMT, <1>19 DEF NetifOutput
<1>20. ASSUME NEW m \in net, RecvInit(m)
       PROVE  nextId' \in Nat \ {0} /\ nextId' >= nextId /\ net \subseteq net'
  BY SMT, <1>20 DEF RecvInit
<1>21. ASSUME NEW m \in net, RecvResponse(m)
       PROVE  nextId' \in Nat \ {0} /\ nextId' >= nextId /\ net \subseteq net'
  BY SMT, <1>21 DEF RecvResponse
<1>22. ASSUME NEW m \in net, PeerAnswer(m)
       PROVE  nextId' \in Nat \ {0} /\ nextId' >= nextId /\ net \subseteq net'
  BY SMT, <1>22 DEF PeerAnswer
<1>23. ASSUME NEW idx, RecvMatch(idx)
       PROVE  nextId' \in Nat \ {0} /\ nextId' >= nextId /\ net \subseteq net'
  BY SMT, <1>23 DEF RecvMatch
<1> QED
  BY <1>1, <1>2, <1>3, <1>4, <1>5, <1>6, <1>7, <1>8, <1>9, <1>10, <1>11, <1>12,
     <1>13, <1>14, <1>15, <1>16, <1>17, <1>18, <1>19, <1>20, <1>21, <1>22, <1>23 DEF
     Next, LoopStep, KaStep, RecvStep, Threads

\* A busy thread works on an entry of the table.
LEMMA Working ==
  ASSUME TypeOK
  PROVE  /\ Configured \subseteq Ids
         /\ \A t \in Threads : pc[t] # "idle" => who[t] \in Ids /\ who[t] # 0
         /\ \A t \in Threads : who[t] \in 0 .. peer_count
<1>1. peer_count \in Nat /\ WG_MAX_PEERS \in Nat /\ peer_count <= WG_MAX_PEERS
  BY SMT, PeersAssumption DEF TypeOK
<1>2. \A c, n \in Nat : c <= n => \A x \in 0 .. c : x # 0 => x \in 1 .. n
  BY SMT
<1>3. \A c, n \in Nat : c <= n => 1 .. c \subseteq 1 .. n
  BY SMT
<1>4. \A t \in Threads : who[t] \in 0 .. peer_count /\ (who[t] = 0 <=> pc[t] = "idle")
  BY DEF TypeOK, PlacesOK
<1> QED
  BY <1>1, <1>2, <1>3, <1>4 DEF Configured, Ids

\* A step leaves every thread at a place of its own code, and send_mutex with the
\* sender that is between taking a counter and sending the packet.
LEMMA PlacesStep == TypeOK /\ Next => PlacesOK'
<1> SUFFICES ASSUME TypeOK, Next PROVE PlacesOK'
  OBVIOUS
<1>a. /\ PlacesOK /\ peer_count \in Nat
      /\ \A x \in Configured : x \in 0 .. peer_count /\ x # 0
  BY SMT, Above DEF TypeOK, Configured
<1> USE DEF PlacesOK, Counted, Installing, Threads, Goto, Call
<1>1. CASE AddPeer
  <2>1. 0 .. peer_count \subseteq 0 .. peer_count'
    BY SMT, <1>1, <1>a, Below DEF AddPeer
  <2> QED
    BY <1>1, <1>a, <2>1 DEF AddPeer
<1>2. CASE HandshakeInitPeer
  BY <1>2, <1>a DEF HandshakeInitPeer
<1>3. CASE InitSend
  BY <1>3, <1>a DEF InitSend
<1>4. CASE InitSave
  BY SMT, <1>4, <1>a DEF InitSave
<1>5. CASE SendCheck
  BY SMT, <1>5, <1>a DEF SendCheck
<1>6. ASSUME NEW t \in {"loop", "ka", "recv"}, SendLock(t) PROVE PlacesOK'
  BY <1>6, <1>a DEF SendLock, TakeCounter
<1>7. ASSUME NEW t \in Threads, StoreCounter(t) PROVE PlacesOK'
  BY <1>7, <1>a DEF StoreCounter
<1>8. ASSUME NEW t \in Threads, Encrypt(t) PROVE PlacesOK'
  BY SMT, <1>8, <1>a DEF Encrypt
<1>9. CASE KaWipe
  BY SMT, <1>9, <1>a DEF KaWipe
<1>10. CASE PassiveRotate
  BY <1>10, <1>a DEF PassiveRotate
<1>11. CASE SetKeys
  BY <1>11, <1>a DEF SetKeys
<1>12. CASE PassiveReset
  BY <1>12, <1>a DEF PassiveReset
<1>13. CASE RecvKeepalive
  BY SMT, <1>13, <1>a DEF RecvKeepalive, TakeCounter, First
<1>14. CASE ResponseReset
  BY SMT, <1>14, <1>a DEF ResponseReset
<1>15. CASE RecvAccept
  BY SMT, <1>15, <1>a DEF RecvAccept
<1>16. ASSUME NEW p \in Ids, KaCheck(p) PROVE PlacesOK'
  BY SMT, <1>16, <1>a DEF KaCheck
<1>17. ASSUME NEW p \in Ids, Tick(p) PROVE PlacesOK'
  BY <1>17, <1>a DEF Tick
<1>18. ASSUME NEW p \in Ids, PeerInitiate(p) PROVE PlacesOK'
  BY <1>18, <1>a DEF PeerInitiate
<1>19. ASSUME NEW p \in Ids, NetifOutput(p) PROVE PlacesOK'
  BY SMT, <1>19, <1>a DEF NetifOutput
<1>20. ASSUME NEW m \in net, RecvInit(m) PROVE PlacesOK'
  BY <1>20, <1>a DEF RecvInit
<1>21. ASSUME NEW m \in net, RecvResponse(m) PROVE PlacesOK'
  BY SMT, <1>21, <1>a DEF RecvResponse, First, Answered
<1>22. ASSUME NEW m \in net, PeerAnswer(m) PROVE PlacesOK'
  BY <1>22, <1>a DEF PeerAnswer
<1>23. ASSUME NEW idx, RecvMatch(idx) PROVE PlacesOK'
  BY SMT, <1>23, <1>a DEF RecvMatch, First
<1> QED
  BY <1>1, <1>2, <1>3, <1>4, <1>5, <1>6, <1>7, <1>8, <1>9, <1>10, <1>11, <1>12,
     <1>13, <1>14, <1>15, <1>16, <1>17, <1>18, <1>19, <1>20, <1>21, <1>22, <1>23 DEF
     Next, LoopStep, KaStep, RecvStep, Threads

\* A step leaves the entries of the table in their ranges.
LEMMA EntriesStep == TypeOK /\ Next => peer' \in [Ids -> Entry']
<1> SUFFICES ASSUME TypeOK, Next PROVE peer' \in [Ids -> Entry']
  OBVIOUS
<1>a. /\ nextId \in Nat \ {0} /\ peer \in [Ids -> Entry] /\ tx \in [Threads -> Nat]
      /\ hs \in [Threads -> Index \X Index] /\ \A m \in net : MsgOK(m)
      /\ pc["recv"] \in {"idle", "keepalive", "accept", "lock"} \cup Counted \cup Installing
  BY DEF TypeOK, PlacesOK
<1>b. /\ Index \subseteq Index' /\ Key \subseteq Key' /\ Session \subseteq Session'
      /\ Entry \subseteq Entry'
      /\ 0 \in Index' /\ ZeroSession \in Session'
      /\ nextId' = nextId + 1 => nextId \in Index'
  BY <1>a, Grow, Grows, Zeros
<1>c. /\ peer \in [Ids -> Entry'] /\ hs \in [Threads -> Index' \X Index']
  BY <1>a, <1>b
<1>w. /\ \A t \in Threads : pc[t] # "idle" => who[t] \in Ids
      /\ Configured \subseteq Ids
  BY Working
<1>e. \A f \in [Ids -> Entry'] : \A p \in Ids : \A s \in Session' :
        /\ [f EXCEPT ![p].session = s] \in [Ids -> Entry']
        /\ [f EXCEPT ![p].prev = s] \in [Ids -> Entry']
  BY ZenonT(40) DEF Entry
<1>h. \A f \in [Ids -> Entry'] : \A p \in Ids : \A x \in Index' :
        [f EXCEPT ![p].pending_hs = x] \in [Ids -> Entry']
  BY DEF Entry
<1>o. \A f \in [Ids -> Entry'] : \A p \in Ids : \A b \in BOOLEAN :
        [f EXCEPT ![p].connected = b] \in [Ids -> Entry']
  BY DEF Entry
<1>s. ASSUME NEW p \in Ids
      PROVE  peer[p].session \in Session' /\ peer[p].prev \in Session'
  BY <1>c DEF Entry
<1>z. 0 \in Nat /\ 0 \in 0 .. 2 /\ TRUE \in BOOLEAN /\ FALSE \in BOOLEAN
  BY SMT
<1>1. CASE AddPeer
  BY <1>1, <1>c DEF AddPeer
<1>2. CASE HandshakeInitPeer
  <2>1. who["loop"] \in Ids
    BY <1>2, <1>w DEF HandshakeInitPeer, Threads
  <2>0. nextId \in Index'
    BY <1>2, <1>b DEF HandshakeInitPeer
  <2>2. PICK s : s = peer[who["loop"]].session
    OBVIOUS
  <2>3. PICK e : e = [s EXCEPT !.local_index = nextId]
    OBVIOUS
  <2>4. s \in Session'
    BY <1>s, <2>1, <2>2
  <2>5. e \in Session'
    BY <1>b, <1>z, <2>0, <2>3, <2>4 DEF Session
  <2>6. peer' = [peer EXCEPT ![who["loop"]].session = e]
    BY <1>2, <1>c, <2>1, <2>2, <2>3 DEF HandshakeInitPeer, Entry, Session
  <2> QED
    BY <1>c, <1>e, <2>1, <2>5, <2>6
<1>3. CASE InitSend
  BY <1>3, <1>c DEF InitSend
<1>4. CASE InitSave
  <2>1. who["loop"] \in Ids
    BY <1>4, <1>w DEF InitSave, Threads
  <2>2. hs["loop"][1] \in Index'
    BY <1>c DEF Threads
  <2> QED
    BY <1>4, <1>b, <1>c, <1>h, <2>1, <2>2 DEF InitSave
<1>5. CASE SendCheck
  BY <1>5, <1>c DEF SendCheck
<1>6. ASSUME NEW t \in {"loop", "ka", "recv"}, SendLock(t) PROVE peer' \in [Ids -> Entry']
  BY <1>6, <1>c DEF SendLock
<1>7. ASSUME NEW t \in Threads, StoreCounter(t) PROVE peer' \in [Ids -> Entry']
  <2>1. who[t] \in Ids
    BY <1>7, <1>w DEF StoreCounter, Threads
  <2>0. tx[t] + 1 \in Nat
    BY SMT, <1>a
  <2>2. PICK s : s = peer[who[t]].session
    OBVIOUS
  <2>3. PICK e : e = [s EXCEPT !.sending_counter = tx[t] + 1]
    OBVIOUS
  <2>4. s \in Session'
    BY <1>s, <2>1, <2>2
  <2>5. e \in Session'
    BY <1>b, <1>z, <2>0, <2>3, <2>4 DEF Session
  <2>6. peer' = [peer EXCEPT ![who[t]].session = e]
    BY <1>7, <1>c, <2>1, <2>2, <2>3 DEF StoreCounter, Entry, Session
  <2> QED
    BY <1>c, <1>e, <2>1, <2>5, <2>6
<1>8. ASSUME NEW t \in Threads, Encrypt(t) PROVE peer' \in [Ids -> Entry']
  BY <1>8, <1>c DEF Encrypt
<1>9. CASE KaWipe
  <2>1. who["ka"] \in Ids
    BY <1>9, <1>w DEF KaWipe, Threads
  <2>2. PICK f : f = [peer EXCEPT ![who["ka"]].session = ZeroSession]
    OBVIOUS
  <2>3. PICK g : g = [f EXCEPT ![who["ka"]].prev = ZeroSession]
    OBVIOUS
  <2>4. f \in [Ids -> Entry'] /\ g \in [Ids -> Entry']
    BY <1>b, <1>c, <1>e, <1>z, <2>1, <2>2, <2>3
  <2>5. peer' = [g EXCEPT ![who["ka"]].connected = FALSE]
    BY <1>9, <2>2, <2>3 DEF KaWipe
  <2> QED
    BY <1>o, <1>z, <2>1, <2>4, <2>5
<1>10. CASE PassiveRotate
  <2>1. who["recv"] \in Ids
    BY <1>10, <1>w DEF PassiveRotate, Threads
  <2> QED
    BY <1>10, <1>b, <1>c, <1>e, <1>s, <1>z, <2>1 DEF PassiveRotate
<1>11. CASE SetKeys
  <2>a. PICK d \in {1, 2} :
          peer' = [peer EXCEPT
            ![who["recv"]].session.sending_key = Kdf2(hs["recv"][1], hs["recv"][2], d),
            ![who["recv"]].session.receiving_key = Kdf2(hs["recv"][1], hs["recv"][2], 3 - d)]
    BY <1>11 DEF SetKeys
  <2>b. PICK k, l \in Key' : /\ k = Kdf2(hs["recv"][1], hs["recv"][2], d)
                             /\ l = Kdf2(hs["recv"][1], hs["recv"][2], 3 - d)
    <3>1. hs["recv"][1] \in Index' /\ hs["recv"][2] \in Index'
      BY <1>c DEF Threads
    <3>2. d \in 0 .. 2 /\ 3 - d \in 0 .. 2
      BY SMT
    <3>3. /\ Kdf2(hs["recv"][1], hs["recv"][2], d) \in Key'
          /\ Kdf2(hs["recv"][1], hs["recv"][2], 3 - d) \in Key'
      BY <3>1, <3>2 DEF Kdf2, Key
    <3> QED
      BY <3>3
  <2>1. who["recv"] \in Ids
    BY <1>11, <1>w DEF SetKeys, Threads
  <2>2. PICK s : s = peer[who["recv"]].session
    OBVIOUS
  <2>3. PICK e : e = [s EXCEPT !.sending_key = k, !.receiving_key = l]
    OBVIOUS
  <2>4. s \in Session'
    BY <1>s, <2>1, <2>2
  <2>5. e \in Session'
    BY <1>b, <1>z, <2>b, <2>3, <2>4 DEF Session
  <2>6. peer' = [peer EXCEPT ![who["recv"]].session = e]
    BY ZenonT(40), <1>c, <2>1, <2>2, <2>3, <2>a, <2>b DEF Entry, Session
  <2> QED
    BY <1>c, <1>e, <2>1, <2>5, <2>6
<1>12. CASE PassiveReset
  <2>1. who["recv"] \in Ids
    BY <1>12, <1>w DEF PassiveReset, Threads
  <2>0. hs["recv"][1] \in Index' /\ hs["recv"][2] \in Index'
    BY <1>c DEF Threads
  <2>2. PICK s : s = peer[who["recv"]].session
    OBVIOUS
  <2>3. PICK e : e = [s EXCEPT !.sending_counter = 0, !.local_index = hs["recv"][2],
                              !.remote_index = hs["recv"][1], !.age = 0, !.valid = TRUE]
    OBVIOUS
  <2>4. s \in Session'
    BY <1>s, <2>1, <2>2
  <2>5. e \in Session'
    BY <1>b, <1>z, <2>0, <2>3, <2>4 DEF Session
  <2>6. PICK f : f = [peer EXCEPT ![who["recv"]].connected = TRUE]
    OBVIOUS
  <2>7. f \in [Ids -> Entry'] /\ f[who["recv"]].session = s
    <3>1. f \in [Ids -> Entry']
      BY <1>c, <1>o, <1>z, <2>1, <2>6
    <3>2. f[who["recv"]].session = s
      BY <1>c, <2>1, <2>2, <2>6 DEF Entry
    <3> QED
      BY <3>1, <3>2
  <2>8. peer' = [f EXCEPT ![who["recv"]].session = e]
    BY <1>12, <1>c, <2>1, <2>2, <2>3, <2>6, <2>7 DEF PassiveReset
  <2> QED
    BY <1>b, <1>e, <1>z, <2>1, <2>5, <2>7, <2>8
<1>13. CASE RecvKeepalive
  BY <1>13, <1>c DEF RecvKeepalive
<1>14. CASE ResponseReset
  <2>1. who["recv"] \in Ids
    BY <1>14, <1>w DEF ResponseReset, Threads
  <2>2. PICK s : s = peer[who["recv"]].session
    OBVIOUS
  <2>3. PICK e : e = [s EXCEPT !.sending_counter = 0, !.age = 0, !.valid = TRUE]
    OBVIOUS
  <2>4. s \in Session'
    BY <1>s, <2>1, <2>2
  <2>5. e \in Session'
    BY <1>b, <1>z, <2>3, <2>4 DEF Session
  <2>6. peer' = [peer EXCEPT ![who["recv"]].session = e]
    BY <1>14, <1>c, <2>1, <2>2, <2>3 DEF ResponseReset, Entry, Session
  <2> QED
    BY <1>c, <1>e, <2>1, <2>5, <2>6
<1>15. CASE RecvAccept
  <2>1. who["recv"] \in Ids
    BY <1>15, <1>w DEF RecvAccept, Threads
  <2>2. peer' = peer \/ peer' = [peer EXCEPT ![who["recv"]].connected = TRUE]
    BY <1>15 DEF RecvAccept
  <2>3. CASE peer' = [peer EXCEPT ![who["recv"]].connected = TRUE]
    BY <1>c, <1>o, <1>z, <2>1, <2>3
  <2> QED
    BY <1>c, <2>2, <2>3
<1>16. ASSUME NEW p \in Ids, KaCheck(p) PROVE peer' \in [Ids -> Entry']
  BY <1>16, <1>c DEF KaCheck
<1>17. ASSUME NEW p \in Ids, Tick(p) PROVE peer' \in [Ids -> Entry']
  <2>1. \A s \in Session' : Older(s) \in Session'
    BY SMT DEF Older, Session
  <2>2. PICK f : f = [peer EXCEPT ![p].session = Older(peer[p].session)]
    OBVIOUS
  <2>3. f \in [Ids -> Entry'] /\ f[p].prev = peer[p].prev
    <3>1. f \in [Ids -> Entry']
      BY <1>c, <1>e, <1>s, <2>1, <2>2
    <3>2. f[p].prev = peer[p].prev
      BY <1>c, <2>2 DEF Entry
    <3> QED
      BY <3>1, <3>2
  <2>4. peer' = [f EXCEPT ![p].prev = Older(peer[p].prev)]
    BY <1>17, <1>c, <2>2, <2>3 DEF Tick
  <2> QED
    BY <1>b, <1>e, <1>s, <1>z, <2>1, <2>3, <2>4
<1>18. ASSUME NEW p \in Ids, PeerInitiate(p) PROVE peer' \in [Ids -> Entry']
  BY <1>18, <1>c DEF PeerInitiate
<1>19. ASSUME NEW p \in Ids, NetifOutput(p) PROVE peer' \in [Ids -> Entry']
  BY <1>19, <1>c DEF NetifOutput
<1>20. ASSUME NEW m \in net, RecvInit(m) PROVE peer' \in [Ids -> Entry']
  BY <1>20, <1>c DEF RecvInit
<1>21. ASSUME NEW m \in net, RecvResponse(m) PROVE peer' \in [Ids -> Entry']
  <2>1. m.sender \in Index'
    BY <1>21, <1>a, <1>b DEF RecvResponse, MsgOK
  <2>2. PICK q \in First(Answered(m)) :
          peer' = [peer EXCEPT ![q].session.remote_index = m.sender, ![q].pending_hs = 0]
    BY <1>21 DEF RecvResponse
  <2>3. q \in Ids
    BY <1>w DEF First, Answered
  <2>4. PICK e : e = [peer[q].session EXCEPT !.remote_index = m.sender]
    OBVIOUS
  <2>5. e \in Session'
    BY <1>s, <2>1, <2>3, <2>4 DEF Session
  <2>6. PICK f : f = [peer EXCEPT ![q].session = e]
    OBVIOUS
  <2>7. f \in [Ids -> Entry']
    BY <1>b, <1>c, <1>e, <1>z, <2>3, <2>5, <2>6
  <2>8. peer' = [f EXCEPT ![q].pending_hs = 0]
    BY <2>2, <2>3, <2>4, <2>6, <1>c
  <2> QED
    BY <1>b, <1>h, <2>3, <2>7, <2>8
<1>22. ASSUME NEW m \in net, PeerAnswer(m) PROVE peer' \in [Ids -> Entry']
  BY <1>22, <1>c DEF PeerAnswer
<1>23. ASSUME NEW idx, RecvMatch(idx) PROVE peer' \in [Ids -> Entry']
  <2>1. \/ peer' = peer
        \/ \E q \in Configured : peer' = [peer EXCEPT ![q].prev = ZeroSession]
    BY <1>23 DEF RecvMatch, First
  <2>2. ASSUME NEW q \in Configured, peer' = [peer EXCEPT ![q].prev = ZeroSession]
        PROVE  peer' \in [Ids -> Entry']
    <3>1. q \in Ids /\ ZeroSession \in Session'
      BY <1>b, <1>w
    <3> QED
      BY <1>c, <1>e, <2>2, <3>1
  <2> QED
    BY <1>c, <2>1, <2>2
<1> QED
  BY <1>1, <1>2, <1>3, <1>4, <1>5, <1>6, <1>7, <1>8, <1>9, <1>10, <1>11, <1>12,
     <1>13, <1>14, <1>15, <1>16, <1>17, <1>18, <1>19, <1>20, <1>21, <1>22, <1>23 DEF
     Next, LoopStep, KaStep, RecvStep, Threads

\* A step leaves the locals of the threads and the messages in their ranges.
LEMMA RestStep ==
  TypeOK /\ Next => /\ peer_count' \in 0 .. WG_MAX_PEERS /\ raced' \in BOOLEAN
                    /\ hs' \in [Threads -> Index' \X Index'] /\ tx' \in [Threads -> Nat]
                    /\ rx' \in {"session", "prev"} /\ \A m \in net' : MsgOK(m)'
<1> DEFINE Goal == /\ peer_count' \in 0 .. WG_MAX_PEERS /\ raced' \in BOOLEAN
                   /\ hs' \in [Threads -> Index' \X Index'] /\ tx' \in [Threads -> Nat]
                   /\ rx' \in {"session", "prev"} /\ \A m \in net' : MsgOK(m)'
<1> SUFFICES ASSUME TypeOK, Next PROVE Goal
  OBVIOUS
<1>a. /\ nextId \in Nat \ {0} /\ peer \in [Ids -> Entry] /\ tx \in [Threads -> Nat]
      /\ hs \in [Threads -> Index \X Index] /\ rx \in {"session", "prev"} /\ raced \in BOOLEAN
      /\ peer_count \in 0 .. WG_MAX_PEERS /\ WG_MAX_PEERS \in Nat
  BY PeersAssumption DEF TypeOK
<1>b. /\ Index \subseteq Index' /\ Key \subseteq Key' /\ 0 \in Index'
      /\ nextId' = nextId + 1 => nextId \in Index' /\ nextId # 0
      /\ \A m \in net : MsgOK(m)'
  BY <1>a, Grow, Grows, Zeros DEF TypeOK
<1>c. /\ hs \in [Threads -> Index' \X Index']
      /\ \A t \in Threads : hs[t][1] \in Index' /\ hs[t][2] \in Index'
  BY <1>a, <1>b
<1>w. /\ \A t \in Threads : pc[t] # "idle" => who[t] \in Ids
      /\ Configured \subseteq Ids
  BY Working
<1>q. ASSUME peer_count' = peer_count, raced' \in BOOLEAN, tx' = tx, rx' = rx,
             \/ net' = net
             \/ \E x : net' = net \cup {x} /\ MsgOK(x)',
             \/ hs' = hs
             \/ \E t \in Threads, i, r \in Index' : hs' = [hs EXCEPT ![t] = <<i, r>>]
      PROVE  Goal
  <2>1. hs' \in [Threads -> Index' \X Index']
    BY SMT, <1>c, <1>q
  <2>2. \A m \in net' : MsgOK(m)'
    BY <1>b, <1>q
  <2> QED
    BY <1>a, <1>q, <2>1, <2>2
<1>t. ASSUME NEW t \in Threads, peer_count' = peer_count, rx' = rx, hs' = hs, net' = net,
             who'[t] \in Ids, TakeCounter(t)
      PROVE  Goal
  <2>1. peer[who'[t]].session.sending_counter \in Nat
    BY <1>a, <1>t DEF Entry, Session
  <2>2. tx' \in [Threads -> Nat] /\ raced' \in BOOLEAN
    BY <1>a, <1>t, <2>1 DEF TakeCounter
  <2> QED
    BY <1>a, <1>b, <1>c, <1>t, <2>2
<1> HIDE DEF Goal
<1>1. CASE AddPeer
  <2>1. peer_count' \in 0 .. WG_MAX_PEERS
    BY SMT, <1>1, <1>a DEF AddPeer
  <2> QED
    BY <1>1, <1>a, <1>b, <1>c, <2>1 DEF AddPeer, Goal
<1>2. CASE HandshakeInitPeer
  <2>1. raced' \in BOOLEAN /\ nextId \in Index'
    BY <1>2, <1>a, <1>b DEF HandshakeInitPeer
  <2> QED
    BY <1>2, <1>b, <1>q, <2>1 DEF HandshakeInitPeer, Threads
<1>3. CASE InitSend
  <2>1. PICK x : x = Msg("init_out", who["loop"], hs["loop"][1], 0)
    OBVIOUS
  <2>2. who["loop"] \in Ids
    BY <1>3, <1>w DEF InitSend, Threads
  <2>3. hs["loop"][1] # 0
    BY <1>3 DEF InitSend, TypeOK
  <2>4. MsgOK(x)'
    BY <1>b, <1>c, <2>1, <2>2, <2>3 DEF MsgOK, Msg, Threads
  <2> QED
    BY <1>3, <1>a, <1>q, <2>1, <2>4 DEF InitSend
<1>4. CASE InitSave
  BY <1>4, <1>a, <1>b, <1>q DEF InitSave, Threads
<1>5. CASE SendCheck
  BY <1>5, <1>a, <1>q DEF SendCheck
<1>6. ASSUME NEW t \in {"loop", "ka", "recv"}, SendLock(t) PROVE Goal
  <2>1. who'[t] \in Ids
    BY <1>6, <1>w DEF SendLock, Goto, Threads
  <2> QED
    BY <1>6, <1>t, <2>1 DEF SendLock, Threads
<1>7. ASSUME NEW t \in Threads, StoreCounter(t) PROVE Goal
  BY <1>7, <1>a, <1>q DEF StoreCounter
<1>8. ASSUME NEW t \in Threads, Encrypt(t) PROVE Goal
  <2>1. PICK x : x = Data(who[t], peer[who[t]].session.sending_key, tx[t])
    OBVIOUS
  <2>2. who[t] \in Ids
    BY <1>8, <1>w DEF Encrypt
  <2>3. peer[who[t]].session.sending_key \in Key'
    BY <1>a, <1>b, <2>2 DEF Entry, Session
  <2>4. MsgOK(x)'
    BY <1>a, <2>1, <2>2, <2>3 DEF MsgOK, Data
  <2>5. net' = net \cup {x} /\ tx' \in [Threads -> Nat]
    BY <1>8, <1>a, <2>1 DEF Encrypt
  <2>6. \A m \in net' : MsgOK(m)'
    BY <1>b, <2>4, <2>5
  <2> QED
    BY <1>8, <1>a, <1>c, <2>5, <2>6 DEF Encrypt, Goal
<1>9. CASE KaWipe
  <2>1. raced' \in BOOLEAN
    BY <1>9, <1>a DEF KaWipe
  <2> QED
    BY <1>9, <1>q, <2>1 DEF KaWipe
<1>10. CASE PassiveRotate
  BY <1>10, <1>a, <1>q DEF PassiveRotate
<1>11. CASE SetKeys
  <2>1. raced' \in BOOLEAN
    BY <1>11, <1>a DEF SetKeys, Overwrites
  <2> QED
    BY <1>11, <1>q, <2>1 DEF SetKeys
<1>12. CASE PassiveReset
  <2>1. PICK x : x = Msg("response_out", who["recv"], hs["recv"][2], hs["recv"][1])
    OBVIOUS
  <2>2. who["recv"] \in Ids
    BY <1>12, <1>w DEF PassiveReset, Threads
  <2>3. MsgOK(x)'
    BY <1>c, <2>1, <2>2 DEF MsgOK, Msg, Threads
  <2>4. raced' \in BOOLEAN
    BY <1>12, <1>a DEF PassiveReset, Overwrites
  <2> QED
    BY <1>12, <1>b, <1>q, <2>1, <2>3, <2>4 DEF PassiveReset, Threads
<1>13. CASE RecvKeepalive
  BY <1>13, <1>a, <1>q DEF RecvKeepalive
<1>14. CASE ResponseReset
  <2>1. raced' \in BOOLEAN
    BY <1>14, <1>a DEF ResponseReset, Overwrites
  <2> QED
    BY <1>14, <1>b, <1>q, <2>1 DEF ResponseReset, Threads
<1>15. CASE RecvAccept
  BY <1>15, <1>a, <1>b, <1>c DEF RecvAccept, Goal
<1>16. ASSUME NEW p \in Ids, KaCheck(p) PROVE Goal
  BY <1>16, <1>a, <1>q DEF KaCheck
<1>17. ASSUME NEW p \in Ids, Tick(p) PROVE Goal
  BY <1>17, <1>a, <1>q DEF Tick
<1>18. ASSUME NEW p \in Ids, PeerInitiate(p) PROVE Goal
  <2>1. PICK x : x = Msg("init", p, nextId, 0)
    OBVIOUS
  <2>2. MsgOK(x)'
    BY <1>18, <1>b, <2>1 DEF PeerInitiate, MsgOK, Msg
  <2> QED
    BY <1>18, <1>a, <1>q, <2>1, <2>2 DEF PeerInitiate
<1>19. ASSUME NEW p \in Ids, NetifOutput(p) PROVE Goal
  BY <1>19, <1>a, <1>q DEF NetifOutput
<1>20. ASSUME NEW m \in net, RecvInit(m) PROVE Goal
  <2>1. m.sender \in Index' /\ nextId \in Index'
    BY <1>20, <1>b DEF RecvInit, MsgOK
  <2> QED
    BY <1>20, <1>a, <1>q, <2>1 DEF RecvInit, Threads
<1>21. ASSUME NEW m \in net, RecvResponse(m) PROVE Goal
  <2>1. m.sender \in Index' /\ m.receiver \in Index'
    BY <1>21, <1>b DEF RecvResponse, MsgOK
  <2>2. \/ hs' = hs
        \/ hs' = [hs EXCEPT !["recv"] = <<m.receiver, m.sender>>]
    BY <1>21 DEF RecvResponse
  <2> QED
    BY <1>21, <1>a, <1>q, <2>1, <2>2 DEF RecvResponse, Threads
<1>22. ASSUME NEW m \in net, PeerAnswer(m) PROVE Goal
  <2>1. PICK x : x = Msg("response", m.peer, nextId, m.sender)
    OBVIOUS
  <2>2. m.peer \in Ids /\ m.sender \in Index' /\ m.sender # 0
    BY <1>22, <1>b DEF PeerAnswer, TypeOK, MsgOK
  <2>3. MsgOK(x)'
    BY <1>22, <1>b, <2>1, <2>2 DEF PeerAnswer, MsgOK, Msg
  <2> QED
    BY <1>22, <1>a, <1>q, <2>1, <2>3 DEF PeerAnswer
<1>23. ASSUME NEW idx, RecvMatch(idx) PROVE Goal
  BY <1>23, <1>a, <1>b, <1>c DEF RecvMatch, Goal
<1> QED
  BY <1>1, <1>2, <1>3, <1>4, <1>5, <1>6, <1>7, <1>8, <1>9, <1>10, <1>11, <1>12,
     <1>13, <1>14, <1>15, <1>16, <1>17, <1>18, <1>19, <1>20, <1>21, <1>22, <1>23 DEF
     Next, LoopStep, KaStep, RecvStep, Threads

\* The index of the initiation that the loop thread sends is never 0.
LEMMA LoopIndexStep ==
  TypeOK /\ Next => (pc'["loop"] \in {"init_send", "init_save"} => hs'["loop"][1] # 0)
<1> SUFFICES ASSUME TypeOK, Next, pc'["loop"] \in {"init_send", "init_save"}
             PROVE  hs'["loop"][1] # 0
  OBVIOUS
<1>a. /\ pc \in [Threads -> {"idle", "check", "lock", "init", "init_send", "init_save", "wipe",
                             "keepalive", "accept"} \cup Counted \cup Installing]
      /\ nextId # 0 /\ DOMAIN hs = Threads
      /\ pc["loop"] \in {"init_send", "init_save"} => hs["loop"][1] # 0
  BY DEF TypeOK, PlacesOK
<1> USE DEF Goto, Call, Threads
<1>1. CASE AddPeer
  BY <1>1, <1>a DEF AddPeer
<1>2. CASE HandshakeInitPeer
  BY <1>2, <1>a DEF HandshakeInitPeer
<1>3. CASE InitSend
  BY <1>3, <1>a DEF InitSend
<1>4. CASE InitSave
  BY <1>4, <1>a DEF InitSave
<1>5. CASE SendCheck
  BY <1>5, <1>a DEF SendCheck
<1>6. ASSUME NEW t \in {"loop", "ka", "recv"}, SendLock(t) PROVE hs'["loop"][1] # 0
  BY <1>6, <1>a DEF SendLock
<1>7. ASSUME NEW t \in Threads, StoreCounter(t) PROVE hs'["loop"][1] # 0
  BY <1>7, <1>a DEF StoreCounter
<1>8. ASSUME NEW t \in Threads, Encrypt(t) PROVE hs'["loop"][1] # 0
  BY <1>8, <1>a DEF Encrypt
<1>9. CASE KaWipe
  BY <1>9, <1>a DEF KaWipe
<1>10. CASE PassiveRotate
  BY <1>10, <1>a DEF PassiveRotate
<1>11. CASE SetKeys
  BY <1>11, <1>a DEF SetKeys
<1>12. CASE PassiveReset
  BY <1>12, <1>a DEF PassiveReset
<1>13. CASE RecvKeepalive
  BY <1>13, <1>a DEF RecvKeepalive
<1>14. CASE ResponseReset
  BY <1>14, <1>a DEF ResponseReset
<1>15. CASE RecvAccept
  BY <1>15, <1>a DEF RecvAccept
<1>16. ASSUME NEW p \in Ids, KaCheck(p) PROVE hs'["loop"][1] # 0
  BY <1>16, <1>a DEF KaCheck
<1>17. ASSUME NEW p \in Ids, Tick(p) PROVE hs'["loop"][1] # 0
  BY <1>17, <1>a DEF Tick
<1>18. ASSUME NEW p \in Ids, PeerInitiate(p) PROVE hs'["loop"][1] # 0
  BY <1>18, <1>a DEF PeerInitiate
<1>19. ASSUME NEW p \in Ids, NetifOutput(p) PROVE hs'["loop"][1] # 0
  BY <1>19, <1>a DEF NetifOutput
<1>20. ASSUME NEW m \in net, RecvInit(m) PROVE hs'["loop"][1] # 0
  BY <1>20, <1>a DEF RecvInit
<1>21. ASSUME NEW m \in net, RecvResponse(m) PROVE hs'["loop"][1] # 0
  BY <1>21, <1>a DEF RecvResponse
<1>22. ASSUME NEW m \in net, PeerAnswer(m) PROVE hs'["loop"][1] # 0
  BY <1>22, <1>a DEF PeerAnswer
<1>23. ASSUME NEW idx, RecvMatch(idx) PROVE hs'["loop"][1] # 0
  BY <1>23, <1>a DEF RecvMatch
<1> QED
  BY <1>1, <1>2, <1>3, <1>4, <1>5, <1>6, <1>7, <1>8, <1>9, <1>10, <1>11, <1>12,
     <1>13, <1>14, <1>15, <1>16, <1>17, <1>18, <1>19, <1>20, <1>21, <1>22, <1>23 DEF
     Next, LoopStep, KaStep, RecvStep, Threads

\* A step preserves the type invariant.
LEMMA TypeStep == TypeOK /\ Next => TypeOK'
BY EntriesStep, PlacesStep, RestStep, LoopIndexStep, Grows DEF TypeOK

\* What a step keeps of the entry q: the fields the invariant reads.
KeysKept(q) == /\ peer'[q].session.sending_key = peer[q].session.sending_key
               /\ peer'[q].session.receiving_key = peer[q].session.receiving_key
CounterKept(q) == peer'[q].session.sending_counter = peer[q].session.sending_counter
IndicesKept(q) == /\ peer'[q].session.local_index = peer[q].session.local_index
                  /\ peer'[q].session.remote_index = peer[q].session.remote_index
ValidKept(q) == peer'[q].session.valid = peer[q].session.valid
PendingKept(q) == peer'[q].pending_hs = peer[q].pending_hs
Kept(q) == KeysKept(q) /\ CounterKept(q) /\ IndicesKept(q) /\ ValidKept(q) /\ PendingKept(q)

\* The fields of an entry and of its session.
LEMMA Shapes ==
  TypeOK => /\ DOMAIN peer = Ids
            /\ \A q \in Ids :
                 /\ DOMAIN peer[q] = {"connected", "pending_hs", "session", "prev"}
                 /\ DOMAIN peer[q].session = {"sending_key", "receiving_key", "sending_counter",
                                              "local_index", "remote_index", "age", "valid"}
<1> SUFFICES ASSUME TypeOK, NEW q \in Ids
             PROVE  /\ DOMAIN peer = Ids
                    /\ DOMAIN peer[q] = {"connected", "pending_hs", "session", "prev"}
                    /\ DOMAIN peer[q].session = {"sending_key", "receiving_key", "sending_counter",
                                                 "local_index", "remote_index", "age", "valid"}
  BY DEF TypeOK
<1>1. peer \in [Ids -> Entry]
  BY DEF TypeOK
<1>2. peer[q] \in Entry
  BY <1>1
<1>3. peer[q].session \in Session
  BY <1>2 DEF Entry
<1> QED
  BY <1>1, <1>2, <1>3 DEF Entry, Session

\* wg_handshake_init_peer writes the local index of one session.
LEMMA InitEffect ==
  ASSUME TypeOK, HandshakeInitPeer
  PROVE  \A q \in Ids : /\ KeysKept(q) /\ CounterKept(q) /\ ValidKept(q) /\ PendingKept(q)
                        /\ q # who["loop"] => IndicesKept(q)
<1>1. who["loop"] \in Ids
  BY Working DEF HandshakeInitPeer, Threads
<1> QED
  BY Shapes, <1>1 DEF HandshakeInitPeer, KeysKept, CounterKept, IndicesKept, ValidKept,
     PendingKept, Kept

\* Saving the handshake writes pending_hs of one entry.
LEMMA SaveEffect ==
  ASSUME TypeOK, InitSave
  PROVE  /\ who["loop"] \in Ids /\ peer'[who["loop"]].pending_hs = hs["loop"][1]
         /\ \A q \in Ids : /\ KeysKept(q) /\ CounterKept(q) /\ IndicesKept(q) /\ ValidKept(q)
                           /\ q # who["loop"] => PendingKept(q)
<1>1. who["loop"] \in Ids
  BY Working DEF InitSave, Threads
<1> QED
  BY Shapes, <1>1 DEF InitSave, KeysKept, CounterKept, IndicesKept, ValidKept,
     PendingKept, Kept

\* Storing the counter writes sending_counter of one session.
LEMMA StoreEffect ==
  ASSUME TypeOK, NEW t \in Threads, StoreCounter(t)
  PROVE  /\ who[t] \in Ids /\ peer'[who[t]].session.sending_counter = tx[t] + 1
         /\ \A q \in Ids : /\ KeysKept(q) /\ IndicesKept(q) /\ ValidKept(q) /\ PendingKept(q)
                           /\ q # who[t] => CounterKept(q)
<1>1. who[t] \in Ids
  BY Working DEF StoreCounter, Threads
<1> QED
  BY ZenonT(40), Shapes, <1>1 DEF StoreCounter, KeysKept, CounterKept, IndicesKept, ValidKept,
     PendingKept, Kept

\* The wipe clears one session and leaves pending_hs.
LEMMA WipeEffect ==
  ASSUME TypeOK, KaWipe
  PROVE  /\ who["ka"] \in Ids /\ peer'[who["ka"]].session = ZeroSession
         /\ \A q \in Ids : PendingKept(q) /\ (q # who["ka"] => Kept(q))
<1>1. who["ka"] \in Ids
  BY Working DEF KaWipe, Threads
<1> QED
  BY Shapes, <1>1 DEF KaWipe, KeysKept, CounterKept, IndicesKept, ValidKept, PendingKept,
     Kept

\* Installing keys writes the two keys of one session, each from its output of
\* wg_kdf2.
LEMMA KeysEffect ==
  ASSUME TypeOK, SetKeys, NEW i, NEW r, i = hs["recv"][1], r = hs["recv"][2]
  PROVE  /\ who["recv"] \in Ids
         /\ \A q \in Ids : /\ CounterKept(q) /\ IndicesKept(q) /\ ValidKept(q) /\ PendingKept(q)
                           /\ q # who["recv"] => KeysKept(q)
         /\ pc["recv"] = "keys" => /\ peer'[who["recv"]].session.sending_key = Kdf2(i, r, 2)
                                  /\ peer'[who["recv"]].session.receiving_key = Kdf2(i, r, 1)
         /\ pc["recv"] = "r_keys" => /\ peer'[who["recv"]].session.sending_key = Kdf2(i, r, 1)
                                    /\ peer'[who["recv"]].session.receiving_key = Kdf2(i, r, 2)
<1>1. who["recv"] \in Ids
  BY Working DEF SetKeys, Threads
<1> DEFINE d == IF pc["recv"] = "keys" THEN 2 ELSE 1
           sending == Kdf2(i, r, d)
           receiving == Kdf2(i, r, 3 - d)
<1>2. peer' = [peer EXCEPT ![who["recv"]].session.sending_key = sending,
                           ![who["recv"]].session.receiving_key = receiving]
  BY DEF SetKeys
<1>3. /\ pc["recv"] = "keys" => d = 2 /\ 3 - d = 1
      /\ pc["recv"] = "r_keys" => d = 1 /\ 3 - d = 2
  BY SMT
<1>4. /\ pc["recv"] = "keys" => sending = Kdf2(i, r, 2) /\ receiving = Kdf2(i, r, 1)
      /\ pc["recv"] = "r_keys" => sending = Kdf2(i, r, 1) /\ receiving = Kdf2(i, r, 2)
  <2> HIDE DEF d
  <2> QED  BY <1>3
<1> HIDE DEF d, sending, receiving
<1>5. /\ peer'[who["recv"]].session.sending_key = sending
      /\ peer'[who["recv"]].session.receiving_key = receiving
  BY Shapes, <1>1, <1>2
<1>6. \A q \in Ids : /\ CounterKept(q) /\ IndicesKept(q) /\ ValidKept(q) /\ PendingKept(q)
                     /\ q # who["recv"] => KeysKept(q)
  BY Shapes, <1>1, <1>2 DEF KeysKept, CounterKept, IndicesKept, ValidKept, PendingKept
<1> QED
  BY <1>1, <1>4, <1>5, <1>6

\* The responder's reset writes the counter, the indices and valid of one session.
LEMMA PassiveEffect ==
  ASSUME TypeOK, PassiveReset, NEW i, NEW r, i = hs["recv"][1], r = hs["recv"][2]
  PROVE  /\ who["recv"] \in Ids
         /\ \A q \in Ids : KeysKept(q) /\ PendingKept(q) /\ (q # who["recv"] => Kept(q))
         /\ peer'[who["recv"]].session.sending_counter = 0
         /\ peer'[who["recv"]].session.local_index = r
         /\ peer'[who["recv"]].session.remote_index = i
<1>1. who["recv"] \in Ids
  BY Working DEF PassiveReset, Threads
<1> QED
  BY Shapes, <1>1 DEF PassiveReset, KeysKept, CounterKept, IndicesKept, ValidKept,
     PendingKept, Kept

\* The initiator's reset writes the counter and valid of one session.
LEMMA ResetEffect ==
  ASSUME TypeOK, ResponseReset
  PROVE  /\ who["recv"] \in Ids
         /\ \A q \in Ids : /\ KeysKept(q) /\ IndicesKept(q) /\ PendingKept(q)
                           /\ q # who["recv"] => Kept(q)
         /\ peer'[who["recv"]].session.sending_counter = 0
<1>1. who["recv"] \in Ids
  BY Working DEF ResponseReset, Threads
<1> QED
  BY Shapes, <1>1 DEF ResponseReset, KeysKept, CounterKept, IndicesKept, ValidKept,
     PendingKept, Kept

\* A response is taken for one entry of the table, whose session is not valid; its
\* remote index is written and pending_hs is taken.
LEMMA ResponseEffect ==
  ASSUME TypeOK, NEW m \in net, RecvResponse(m)
  PROVE  \E p \in Ids :
           /\ p \in Answered(m)
           /\ \A q \in Ids : /\ KeysKept(q) /\ CounterKept(q) /\ ValidKept(q)
                             /\ q # p => Kept(q)
           /\ peer'[p].session.local_index = m.receiver /\ peer'[p].session.remote_index = m.sender
           /\ peer'[p].pending_hs = 0
           /\ \/ /\ peer[p].pending_hs = m.receiver
                 /\ hs' = [hs EXCEPT !["recv"] = <<m.receiver, m.sender>>]
                 /\ Call("recv", "r_keys", p)
              \/ /\ peer[p].pending_hs # m.receiver /\ hs' = hs /\ Goto("recv", "idle")
<1>1. PICK p \in First(Answered(m)) :
        /\ peer' = [peer EXCEPT ![p].session.remote_index = m.sender, ![p].pending_hs = 0]
        /\ \/ /\ peer[p].pending_hs = m.receiver
              /\ hs' = [hs EXCEPT !["recv"] = <<m.receiver, m.sender>>]
              /\ Call("recv", "r_keys", p)
           \/ /\ peer[p].pending_hs # m.receiver /\ hs' = hs /\ Goto("recv", "idle")
  BY DEF RecvResponse
<1>2. p \in Ids /\ p \in Answered(m) /\ peer[p].session.local_index = m.receiver
  BY Working DEF First, Answered
<1>3. /\ peer'[p].session.local_index = m.receiver /\ peer'[p].session.remote_index = m.sender
      /\ peer'[p].pending_hs = 0
      /\ \A q \in Ids : KeysKept(q) /\ CounterKept(q) /\ ValidKept(q) /\ (q # p => Kept(q))
  BY Shapes, <1>1, <1>2 DEF KeysKept, CounterKept, IndicesKept, ValidKept, PendingKept, Kept
<1> QED
  BY <1>1, <1>2, <1>3

\* Rotating, accepting a packet, dropping prev_session and ageing leave what the
\* invariant reads of an entry.
LEMMA PrevEffect ==
  ASSUME TypeOK,
         \/ PassiveRotate
         \/ RecvAccept
         \/ \E idx : RecvMatch(idx)
         \/ \E p \in Ids : Tick(p)
  PROVE  \A q \in Ids : Kept(q)
<1> USE DEF KeysKept, CounterKept, IndicesKept, ValidKept, PendingKept, Kept
<1>1. CASE PassiveRotate
  <2>1. who["recv"] \in Ids
    BY <1>1, Working DEF PassiveRotate, Threads
  <2> QED
    BY <1>1, <2>1, Shapes DEF PassiveRotate
<1>2. CASE RecvAccept
  <2>1. who["recv"] \in Ids
    BY <1>2, Working DEF RecvAccept, Threads
  <2> QED
    BY SMT, <1>2, <2>1, Shapes DEF RecvAccept
<1>3. ASSUME NEW idx, RecvMatch(idx) PROVE \A q \in Ids : Kept(q)
  <2>1. \/ peer' = peer
        \/ \E p \in Configured : peer' = [peer EXCEPT ![p].prev = ZeroSession]
    BY <1>3 DEF RecvMatch, First
  <2> QED
    BY SMT, <2>1, Shapes, Working
<1>4. ASSUME NEW p \in Ids, Tick(p) PROVE \A q \in Ids : Kept(q)
  <2>1. /\ \A q \in Ids : q # p => peer'[q] = peer[q]
        /\ peer'[p].session = Older(peer[p].session) /\ peer'[p].pending_hs = peer[p].pending_hs
    BY SMT, <1>4, Shapes DEF Tick
  <2>2. PICK s : s = peer[p].session
    OBVIOUS
  <2>3. \A f \in {"sending_key", "receiving_key", "sending_counter", "local_index",
                  "remote_index", "valid"} : Older(s)[f] = s[f]
    BY <2>2, Shapes DEF Older
  <2> QED
    BY <2>1, <2>2, <2>3
<1> QED
  BY <1>1, <1>2, <1>3, <1>4

\* Unused(p, x) after the step.
UnusedNext(p, x) ==
  /\ \A m \in net' : m.type = "data" /\ m.peer = p => m.key.i # x
  /\ peer'[p].session.sending_key.i # x
  /\ who'["recv"] = p /\ pc'["recv"] \in Installing => hs'["recv"][1] # x
  /\ \A m \in net' : m.type = "init" => m.sender # x

\* HandshakesFresh after a step, with its definitions expanded.
LEMMA FreshRule ==
  ASSUME \A p \in Ids : peer'[p].pending_hs # 0 => UnusedNext(p, peer'[p].pending_hs),
         pc'["loop"] \in {"init_send", "init_save"} =>
           /\ hs'["loop"][1] # peer'[who'["loop"]].pending_hs
           /\ UnusedNext(who'["loop"], hs'["loop"][1]),
         pc'["recv"] \in Installing =>
           \A m \in net' : m.type = "data" /\ m.peer = who'["recv"] =>
              <<m.key.i, m.key.r>> # hs'["recv"],
         pc'["recv"] \in {"rotate", "keys", "r_keys"} =>
           <<peer'[who'["recv"]].session.sending_key.i, peer'[who'["recv"]].session.sending_key.r>>
             # hs'["recv"]
  PROVE  HandshakesFresh'
BY DEF HandshakesFresh, Unused, UnusedNext, DataOf

\* A step preserves that handshakes are new, unless two threads overlap in it: a new
\* index is no index in use, and a handshake is completed once, because its
\* pending_hs is taken with it.
LEMMA FreshStep == PeersInv /\ Next /\ ~raced' => HandshakesFresh'
<1> SUFFICES ASSUME PeersInv, Next, ~raced' PROVE HandshakesFresh'
  OBVIOUS
<1>a. /\ TypeOK /\ ~raced /\ HandshakesFresh /\ CountersInv
      /\ nextId \in Nat \ {0} /\ peer \in [Ids -> Entry] /\ hs \in [Threads -> Index \X Index]
      /\ DOMAIN pc = Threads /\ DOMAIN who = Threads
  BY DEF PeersInv, Next, TypeOK, PlacesOK
<1>w. /\ \A t \in Threads : pc[t] # "idle" => who[t] \in Ids
      /\ Configured \subseteq Ids
  BY <1>a, Working
<1>n. /\ nextId \notin Index
      /\ \A p \in Ids : /\ peer[p].pending_hs \in Index
                        /\ peer[p].session.sending_key \in Key
      /\ \A t \in Threads : hs[t][1] \in Index /\ hs[t][2] \in Index
      /\ \A m \in net : /\ m.type = "data" => m.key.i \in Index /\ m.key.r \in Index
                        /\ m.type = "init" => m.sender \in Index
  <2>1. nextId \notin Index
    BY SMT, <1>a DEF Index
  <2>2. \A p \in Ids : peer[p].pending_hs \in Index /\ peer[p].session.sending_key \in Key
    BY <1>a DEF Entry, Session
  <2>3. \A t \in Threads : hs[t][1] \in Index /\ hs[t][2] \in Index
    BY <1>a
  <2>4. \A m \in net : /\ m.type = "data" => m.key.i \in Index /\ m.key.r \in Index
                       /\ m.type = "init" => m.sender \in Index
    BY <1>a DEF TypeOK, MsgOK, Key
  <2> QED
    BY <2>1, <2>2, <2>3, <2>4
<1>q. ASSUME \A p \in Ids : KeysKept(p) /\ PendingKept(p),
             \A m \in net' : m \in net \/ m.type \notin {"data", "init"},
             hs'["loop"] = hs["loop"],
             pc'["loop"] \in {"init_send", "init_save"} =>
               pc["loop"] \in {"init_send", "init_save"} /\ who'["loop"] = who["loop"],
             pc'["recv"] \in Installing =>
               pc["recv"] \in Installing /\ who'["recv"] = who["recv"] /\ hs'["recv"] = hs["recv"],
             pc'["recv"] \in {"rotate", "keys", "r_keys"} =>
               pc["recv"] \in {"rotate", "keys", "r_keys"}
      PROVE  HandshakesFresh'
  <2>1. \A p \in Ids : \A x : Unused(p, x) => UnusedNext(p, x)
    BY <1>q DEF Unused, UnusedNext, DataOf, KeysKept
  <2>2. \A p \in Ids : peer'[p].pending_hs # 0 => UnusedNext(p, peer'[p].pending_hs)
    BY <1>a, <1>q, <2>1 DEF HandshakesFresh, PendingKept
  <2>3. pc'["loop"] \in {"init_send", "init_save"} =>
           /\ hs'["loop"][1] # peer'[who'["loop"]].pending_hs
           /\ UnusedNext(who'["loop"], hs'["loop"][1])
    BY <1>a, <1>q, <1>w, <2>1 DEF HandshakesFresh, PendingKept, Threads
  <2>4. pc'["recv"] \in Installing =>
           \A m \in net' : m.type = "data" /\ m.peer = who'["recv"] =>
              <<m.key.i, m.key.r>> # hs'["recv"]
    BY <1>a, <1>q DEF HandshakesFresh, DataOf
  <2>5. pc'["recv"] \in {"rotate", "keys", "r_keys"} =>
          <<peer'[who'["recv"]].session.sending_key.i, peer'[who'["recv"]].session.sending_key.r>>
            # hs'["recv"]
    BY <1>a, <1>q, <1>w DEF HandshakesFresh, KeysKept, Installing, Threads
  <2> QED
    BY FreshRule, <2>2, <2>3, <2>4, <2>5
<1>1. CASE AddPeer
  BY <1>1, <1>a, <1>q DEF AddPeer, Goto, Call, Installing, Threads, KeysKept, PendingKept
<1>2. CASE HandshakeInitPeer
  <2>a. /\ who["loop"] \in Ids /\ \A p \in Ids : KeysKept(p) /\ PendingKept(p)
        /\ who' = who /\ pc'["recv"] = pc["recv"] /\ hs'["recv"] = hs["recv"] /\ net' = net
        /\ hs'["loop"][1] = nextId
    <3>1. who["loop"] \in Ids /\ \A p \in Ids : KeysKept(p) /\ PendingKept(p)
      BY <1>2, <1>a, <1>w, InitEffect DEF HandshakeInitPeer, Threads
    <3>2. who' = who /\ pc'["recv"] = pc["recv"] /\ net' = net
      BY <1>2, <1>a DEF HandshakeInitPeer, Goto, Threads
    <3>3. hs'["recv"] = hs["recv"] /\ hs'["loop"][1] = nextId
      BY <1>2, <1>a DEF HandshakeInitPeer, Threads
    <3> QED
      BY <3>1, <3>2, <3>3
  <2>1. \A p \in Ids : \A x : Unused(p, x) => UnusedNext(p, x)
    BY <2>a DEF Unused, UnusedNext, DataOf, KeysKept
  <2>2. \A p \in Ids : peer'[p].pending_hs # 0 => UnusedNext(p, peer'[p].pending_hs)
    BY <1>a, <2>1, <2>a DEF HandshakesFresh, PendingKept
  <2>3. /\ hs'["loop"][1] # peer'[who'["loop"]].pending_hs
        /\ UnusedNext(who'["loop"], hs'["loop"][1])
    BY <1>n, <2>a DEF UnusedNext, PendingKept, KeysKept, Key, Threads
  <2>4. pc'["recv"] \in Installing =>
           \A m \in net' : m.type = "data" /\ m.peer = who'["recv"] =>
              <<m.key.i, m.key.r>> # hs'["recv"]
    BY <1>a, <2>a DEF HandshakesFresh, DataOf
  <2>5. pc'["recv"] \in {"rotate", "keys", "r_keys"} =>
          <<peer'[who'["recv"]].session.sending_key.i, peer'[who'["recv"]].session.sending_key.r>>
            # hs'["recv"]
    BY <1>a, <1>w, <2>a DEF HandshakesFresh, KeysKept, Threads
  <2> QED
    BY FreshRule, <2>2, <2>3, <2>4, <2>5
<1>3. CASE InitSend
  BY SMT, <1>3, <1>a, <1>q DEF InitSend, Msg, Goto, Call, Installing, Threads, KeysKept,
     PendingKept
<1>4. CASE InitSave
  <2>a. /\ who["loop"] \in Ids /\ peer'[who["loop"]].pending_hs = hs["loop"][1]
        /\ \A p \in Ids : KeysKept(p) /\ (p # who["loop"] => PendingKept(p))
        /\ pc'["loop"] = "idle" /\ net' = net
        /\ pc'["recv"] = pc["recv"] /\ who'["recv"] = who["recv"] /\ hs'["recv"] = hs["recv"]
    BY <1>4, <1>a, SaveEffect DEF InitSave, Goto, Threads
  <2>1. \A p \in Ids : \A x : Unused(p, x) => UnusedNext(p, x)
    BY <2>a DEF Unused, UnusedNext, DataOf, KeysKept
  <2>2. \A p \in Ids : peer'[p].pending_hs # 0 => UnusedNext(p, peer'[p].pending_hs)
    BY <1>4, <1>a, <2>1, <2>a DEF HandshakesFresh, PendingKept, InitSave
  <2>4. pc'["recv"] \in Installing =>
           \A m \in net' : m.type = "data" /\ m.peer = who'["recv"] =>
              <<m.key.i, m.key.r>> # hs'["recv"]
    BY <1>a, <2>a DEF HandshakesFresh, DataOf
  <2>5. pc'["recv"] \in {"rotate", "keys", "r_keys"} =>
          <<peer'[who'["recv"]].session.sending_key.i, peer'[who'["recv"]].session.sending_key.r>>
            # hs'["recv"]
    BY <1>a, <1>w, <2>a DEF HandshakesFresh, KeysKept, Threads
  <2> QED
    BY FreshRule, <2>2, <2>4, <2>5, <2>a
<1>5. CASE SendCheck
  BY <1>5, <1>a, <1>q DEF SendCheck, Goto, Call, Installing, Threads, KeysKept, PendingKept
<1>6. ASSUME NEW t \in {"loop", "ka", "recv"}, SendLock(t) PROVE HandshakesFresh'
  BY <1>6, <1>a, <1>q DEF SendLock, Goto, Call, Installing, Threads, KeysKept, PendingKept
<1>7. ASSUME NEW t \in Threads, StoreCounter(t) PROVE HandshakesFresh'
  <2>1. \A q \in Ids : KeysKept(q) /\ PendingKept(q)
    BY <1>7, <1>a, StoreEffect
  <2> QED
    BY <1>7, <1>a, <1>q, <2>1 DEF StoreCounter, Goto, Call, Installing, Threads, Msg
<1>8. ASSUME NEW t \in Threads, Encrypt(t) PROVE HandshakesFresh'
  <2>a. /\ who[t] \in Ids /\ peer' = peer /\ hs' = hs /\ pc[t] = "encrypt" /\ pc'[t] = "idle"
        /\ \A u \in Threads : u # t => pc'[u] = pc[u] /\ who'[u] = who[u]
        /\ \A m \in net' : \/ m \in net
                           \/ /\ m.type = "data" /\ m.peer = who[t]
                              /\ m.key = peer[who[t]].session.sending_key
    BY SMT, <1>8, <1>a, <1>w DEF Encrypt, Goto, Data
  <2>1. \A p \in Ids : \A x : Unused(p, x) => UnusedNext(p, x)
    BY SMT, <2>a DEF Unused, UnusedNext, DataOf, Installing, Threads
  <2>2. \A p \in Ids : peer'[p].pending_hs # 0 => UnusedNext(p, peer'[p].pending_hs)
    BY <1>a, <2>1, <2>a DEF HandshakesFresh
  <2>3. pc'["loop"] \in {"init_send", "init_save"} =>
           /\ hs'["loop"][1] # peer'[who'["loop"]].pending_hs
           /\ UnusedNext(who'["loop"], hs'["loop"][1])
    BY <1>a, <1>w, <2>1, <2>a DEF HandshakesFresh, Threads
  <2>4. pc'["recv"] \in Installing =>
           \A m \in net' : m.type = "data" /\ m.peer = who'["recv"] =>
              <<m.key.i, m.key.r>> # hs'["recv"]
    <3> SUFFICES ASSUME pc'["recv"] \in Installing, NEW m \in net', m.type = "data",
                        m.peer = who'["recv"]
                 PROVE  <<m.key.i, m.key.r>> # hs'["recv"]
      OBVIOUS
    <3>1. t # "recv" /\ pc["recv"] \in Installing /\ who'["recv"] = who["recv"]
      BY <2>a DEF Installing, Threads
    <3>2. CASE m \in net
      BY <1>a, <2>a, <3>1, <3>2 DEF HandshakesFresh, DataOf
    <3>3. CASE m \notin net
      <4>1. m.peer = who[t] /\ m.key = peer[who["recv"]].session.sending_key /\ who["recv"] = who[t]
        BY <2>a, <3>1, <3>3
      <4>2. pc["recv"] \notin {"reset", "r_reset"}
        BY <1>a, <2>a, <3>1, <4>1 DEF CountersInv, Counted, Threads
      <4>3. pc["recv"] \in {"rotate", "keys", "r_keys"}
        BY <3>1, <4>2 DEF Installing
      <4> QED
        BY <1>a, <2>a, <4>1, <4>3 DEF HandshakesFresh
    <3> QED
      BY <3>2, <3>3
  <2>5. pc'["recv"] \in {"rotate", "keys", "r_keys"} =>
          <<peer'[who'["recv"]].session.sending_key.i, peer'[who'["recv"]].session.sending_key.r>>
            # hs'["recv"]
    BY <1>a, <2>a DEF HandshakesFresh, Threads
  <2> QED
    BY FreshRule, <2>2, <2>3, <2>4, <2>5
<1>9. CASE KaWipe
  <2>a. /\ who["ka"] \in Ids /\ peer'[who["ka"]].session = ZeroSession
        /\ \A q \in Ids : PendingKept(q) /\ (q # who["ka"] => Kept(q))
        /\ hs' = hs /\ net' = net
        /\ \A u \in {"recv", "loop"} : pc'[u] = pc[u] /\ who'[u] = who[u]
        /\ pc["recv"] \in Installing => who["recv"] # who["ka"]
    BY <1>9, <1>a, WipeEffect DEF KaWipe, Goto, Threads, Elsewhere
  <2>1. \A p \in Ids : \A x : x # 0 /\ Unused(p, x) => UnusedNext(p, x)
    BY SMT, <2>a DEF Unused, UnusedNext, DataOf, Kept, KeysKept, ZeroSession, NoKey, Kdf2
  <2>2. \A p \in Ids : peer'[p].pending_hs # 0 => UnusedNext(p, peer'[p].pending_hs)
    BY <1>a, <2>1, <2>a DEF HandshakesFresh, PendingKept
  <2>3. pc'["loop"] \in {"init_send", "init_save"} =>
           /\ hs'["loop"][1] # peer'[who'["loop"]].pending_hs
           /\ UnusedNext(who'["loop"], hs'["loop"][1])
    BY <1>a, <1>w, <2>1, <2>a DEF HandshakesFresh, PendingKept, Threads, TypeOK
  <2>4. pc'["recv"] \in Installing =>
           \A m \in net' : m.type = "data" /\ m.peer = who'["recv"] =>
              <<m.key.i, m.key.r>> # hs'["recv"]
    BY <1>a, <2>a DEF HandshakesFresh, DataOf
  <2>5. pc'["recv"] \in {"rotate", "keys", "r_keys"} =>
          <<peer'[who'["recv"]].session.sending_key.i, peer'[who'["recv"]].session.sending_key.r>>
            # hs'["recv"]
    BY <1>a, <1>w, <2>a DEF HandshakesFresh, Kept, KeysKept, Threads, Installing
  <2> QED
    BY FreshRule, <2>2, <2>3, <2>4, <2>5
<1>10. CASE PassiveRotate
  <2>1. \A q \in Ids : KeysKept(q) /\ PendingKept(q)
    BY <1>10, <1>a, PrevEffect DEF Kept
  <2> QED
    BY <1>10, <1>a, <1>q, <2>1 DEF PassiveRotate, Goto, Call, Installing, Threads
<1>11. CASE SetKeys
  <2>0. PICK i, r : i = hs["recv"][1] /\ r = hs["recv"][2]
    OBVIOUS
  <2>a. /\ who["recv"] \in Ids /\ \A q \in Ids : PendingKept(q)
        /\ \A q \in Ids : q # who["recv"] => KeysKept(q)
        /\ peer'[who["recv"]].session.sending_key.i = i
        /\ hs' = hs /\ net' = net /\ who' = who /\ pc'["loop"] = pc["loop"]
        /\ pc["recv"] \in Installing /\ pc'["recv"] \in {"reset", "r_reset"}
    <3>1. /\ who["recv"] \in Ids /\ \A q \in Ids : PendingKept(q)
          /\ \A q \in Ids : q # who["recv"] => KeysKept(q)
      BY <1>11, <1>a, <2>0, KeysEffect
    <3>2. /\ hs' = hs /\ net' = net /\ who' = who /\ pc'["loop"] = pc["loop"]
          /\ pc["recv"] \in {"keys", "r_keys"} /\ pc'["recv"] \in {"reset", "r_reset"}
      BY <1>11, <1>a DEF SetKeys, Goto, Threads
    <3>3. \E d \in {1, 2} : peer'[who["recv"]].session.sending_key = Kdf2(i, r, d)
      BY <1>11, <1>a, <2>0, <3>2, KeysEffect
    <3>4. peer'[who["recv"]].session.sending_key.i = i
      BY SMT, <3>3 DEF Kdf2
    <3> QED
      BY <3>1, <3>2, <3>4 DEF Installing
  <2>1. \A p \in Ids : \A x : Unused(p, x) => UnusedNext(p, x)
    BY <2>0, <2>a DEF Unused, UnusedNext, DataOf, KeysKept
  <2>2. \A p \in Ids : peer'[p].pending_hs # 0 => UnusedNext(p, peer'[p].pending_hs)
    BY <1>a, <2>1, <2>a DEF HandshakesFresh, PendingKept
  <2>3. pc'["loop"] \in {"init_send", "init_save"} =>
           /\ hs'["loop"][1] # peer'[who'["loop"]].pending_hs
           /\ UnusedNext(who'["loop"], hs'["loop"][1])
    BY <1>a, <1>w, <2>1, <2>a DEF HandshakesFresh, PendingKept, Threads
  <2>4. \A m \in net' : m.type = "data" /\ m.peer = who'["recv"] =>
           <<m.key.i, m.key.r>> # hs'["recv"]
    BY <1>a, <2>a DEF HandshakesFresh, DataOf
  <2> QED
    BY FreshRule, <2>2, <2>3, <2>4, <2>a
<1>12. CASE PassiveReset
  <2>1. \A q \in Ids : KeysKept(q) /\ PendingKept(q)
    BY <1>12, <1>a, PassiveEffect
  <2> QED
    BY SMT, <1>12, <1>a, <1>q, <2>1 DEF PassiveReset, Goto, Call, Installing, Threads, Msg
<1>13. CASE RecvKeepalive
  BY <1>13, <1>a, <1>q DEF RecvKeepalive, Goto, Call, Installing, Threads, KeysKept,
     PendingKept
<1>14. CASE ResponseReset
  <2>1. \A q \in Ids : KeysKept(q) /\ PendingKept(q)
    BY <1>14, <1>a, ResetEffect
  <2> QED
    BY <1>14, <1>a, <1>q, <2>1 DEF ResponseReset, Goto, Call, Installing, Threads, Msg
<1>15. CASE RecvAccept
  <2>1. \A q \in Ids : KeysKept(q) /\ PendingKept(q)
    BY <1>15, <1>a, PrevEffect DEF Kept
  <2> QED
    BY <1>15, <1>a, <1>q, <2>1 DEF RecvAccept, Goto, Call, Installing, Threads
<1>16. ASSUME NEW p \in Ids, KaCheck(p) PROVE HandshakesFresh'
  BY <1>16, <1>a, <1>q DEF KaCheck, Goto, Call, Installing, Threads, KeysKept, PendingKept
<1>17. ASSUME NEW p \in Ids, Tick(p) PROVE HandshakesFresh'
  <2>1. \A q \in Ids : KeysKept(q) /\ PendingKept(q)
    BY <1>17, <1>a, PrevEffect DEF Kept
  <2> QED
    BY <1>17, <1>a, <1>q, <2>1 DEF Tick, Goto, Call, Installing, Threads
<1>18. ASSUME NEW p \in Ids, PeerInitiate(p) PROVE HandshakesFresh'
  <2>a. /\ peer' = peer /\ hs' = hs /\ pc' = pc /\ who' = who
        /\ \A m \in net' : m \in net \/ (m.type = "init" /\ m.sender = nextId)
    BY SMT, <1>18 DEF PeerInitiate, Msg
  <2>1. \A q \in Ids : \A x \in Index : Unused(q, x) => UnusedNext(q, x)
    BY <1>n, <2>a DEF Unused, UnusedNext, DataOf
  <2>2. \A q \in Ids : peer'[q].pending_hs # 0 => UnusedNext(q, peer'[q].pending_hs)
    BY <1>a, <1>n, <2>1, <2>a DEF HandshakesFresh
  <2>3. pc'["loop"] \in {"init_send", "init_save"} =>
           /\ hs'["loop"][1] # peer'[who'["loop"]].pending_hs
           /\ UnusedNext(who'["loop"], hs'["loop"][1])
    BY <1>a, <1>n, <1>w, <2>1, <2>a DEF HandshakesFresh, Threads
  <2>4. pc'["recv"] \in Installing =>
           \A m \in net' : m.type = "data" /\ m.peer = who'["recv"] =>
              <<m.key.i, m.key.r>> # hs'["recv"]
    BY <1>a, <2>a DEF HandshakesFresh, DataOf
  <2>5. pc'["recv"] \in {"rotate", "keys", "r_keys"} =>
          <<peer'[who'["recv"]].session.sending_key.i, peer'[who'["recv"]].session.sending_key.r>>
            # hs'["recv"]
    BY <1>a, <2>a DEF HandshakesFresh
  <2> QED
    BY FreshRule, <2>2, <2>3, <2>4, <2>5
<1>19. ASSUME NEW p \in Ids, NetifOutput(p) PROVE HandshakesFresh'
  BY <1>19, <1>a, <1>q DEF NetifOutput, Goto, Call, Installing, Threads, KeysKept,
     PendingKept
<1>20. ASSUME NEW m \in net, RecvInit(m) PROVE HandshakesFresh'
  <2>a. /\ peer' = peer /\ net' = net /\ m \in net /\ m.type = "init" /\ m.peer \in Ids
        /\ hs'["loop"] = hs["loop"] /\ hs'["recv"] = <<m.sender, nextId>>
        /\ pc'["loop"] = pc["loop"] /\ who'["loop"] = who["loop"]
        /\ pc'["recv"] = "rotate" /\ who'["recv"] = m.peer
    BY <1>20, <1>a, <1>w DEF RecvInit, Call, Threads
  <2>1. \A q \in Ids : \A x : Unused(q, x) => UnusedNext(q, x)
    BY SMT, <2>a DEF Unused, UnusedNext, DataOf
  <2>2. \A q \in Ids : peer'[q].pending_hs # 0 => UnusedNext(q, peer'[q].pending_hs)
    BY <1>a, <2>1, <2>a DEF HandshakesFresh
  <2>3. pc'["loop"] \in {"init_send", "init_save"} =>
           /\ hs'["loop"][1] # peer'[who'["loop"]].pending_hs
           /\ UnusedNext(who'["loop"], hs'["loop"][1])
    BY <1>a, <1>w, <2>1, <2>a DEF HandshakesFresh, Threads
  <2>4. \A n \in net' : n.type = "data" /\ n.peer = who'["recv"] =>
           <<n.key.i, n.key.r>> # hs'["recv"]
    BY SMT, <1>n, <2>a
  <2>5. <<peer'[who'["recv"]].session.sending_key.i, peer'[who'["recv"]].session.sending_key.r>>
            # hs'["recv"]
    BY SMT, <1>n, <2>a DEF Key
  <2> QED
    BY FreshRule, <2>2, <2>3, <2>4, <2>5
<1>21. ASSUME NEW m \in net, RecvResponse(m) PROVE HandshakesFresh'
  <2>0. PICK p \in Ids :
          /\ \A q \in Ids : KeysKept(q) /\ (q # p => Kept(q))
          /\ peer'[p].pending_hs = 0
          /\ \/ /\ peer[p].pending_hs = m.receiver
                /\ hs' = [hs EXCEPT !["recv"] = <<m.receiver, m.sender>>]
                /\ Call("recv", "r_keys", p)
             \/ /\ hs' = hs /\ Goto("recv", "idle")
    BY <1>21, <1>a, ResponseEffect
  <2>a. /\ net' = net /\ m.receiver # 0 /\ pc["recv"] = "idle"
    BY <1>21, <1>a DEF RecvResponse, TypeOK, MsgOK
  <2>b. /\ hs'["loop"] = hs["loop"] /\ pc'["loop"] = pc["loop"] /\ who'["loop"] = who["loop"]
        /\ \/ /\ peer[p].pending_hs = m.receiver /\ hs'["recv"] = <<m.receiver, m.sender>>
              /\ pc'["recv"] = "r_keys" /\ who'["recv"] = p
           \/ pc'["recv"] = "idle"
    BY <1>a, <2>0 DEF Call, Goto, Threads
  <2>1. \A q \in Ids : \A x : Unused(q, x) /\ (q = p => x # peer[p].pending_hs) => UnusedNext(q, x)
    BY SMT, <2>0, <2>a, <2>b DEF Unused, UnusedNext, DataOf, KeysKept, Installing
  <2>2. \A q \in Ids : peer'[q].pending_hs # 0 => UnusedNext(q, peer'[q].pending_hs)
    BY <1>a, <2>0, <2>1 DEF HandshakesFresh, PendingKept, Kept
  <2>3. pc'["loop"] \in {"init_send", "init_save"} =>
           /\ hs'["loop"][1] # peer'[who'["loop"]].pending_hs
           /\ UnusedNext(who'["loop"], hs'["loop"][1])
    BY <1>a, <1>w, <2>0, <2>1, <2>b DEF HandshakesFresh, PendingKept, Kept, Threads, TypeOK
  <2>4. pc'["recv"] \in Installing =>
           \A n \in net' : n.type = "data" /\ n.peer = who'["recv"] =>
              <<n.key.i, n.key.r>> # hs'["recv"]
    BY SMTT(30), <1>a, <2>a, <2>b DEF HandshakesFresh, DataOf, Unused, Installing
  <2>5. pc'["recv"] \in {"rotate", "keys", "r_keys"} =>
          <<peer'[who'["recv"]].session.sending_key.i, peer'[who'["recv"]].session.sending_key.r>>
            # hs'["recv"]
    BY SMT, <1>a, <2>0, <2>a, <2>b DEF HandshakesFresh, Unused, KeysKept
  <2> QED
    BY FreshRule, <2>2, <2>3, <2>4, <2>5
<1>22. ASSUME NEW m \in net, PeerAnswer(m) PROVE HandshakesFresh'
  BY SMT, <1>22, <1>a, <1>q DEF PeerAnswer, Msg, Goto, Call, Installing, Threads, KeysKept,
     PendingKept
<1>23. ASSUME NEW idx, RecvMatch(idx) PROVE HandshakesFresh'
  <2>1. \A q \in Ids : KeysKept(q) /\ PendingKept(q)
    BY <1>23, <1>a, PrevEffect DEF Kept
  <2> QED
    BY <1>23, <1>a, <1>q, <2>1 DEF RecvMatch, Goto, Call, Installing, Threads
<1> QED
  BY <1>1, <1>2, <1>3, <1>4, <1>5, <1>6, <1>7, <1>8, <1>9, <1>10, <1>11, <1>12,
     <1>13, <1>14, <1>15, <1>16, <1>17, <1>18, <1>19, <1>20, <1>21, <1>22, <1>23 DEF
     Next, LoopStep, KaStep, RecvStep, Threads

\* CountersInv after a step, with its definitions expanded.
LEMMA CountersRule ==
  ASSUME \A p \in Ids : \A m \in net' : m.type = "data" /\ m.peer = p =>
           (m.key = peer'[p].session.sending_key /\ m.key # NoKey =>
              m.counter < peer'[p].session.sending_counter),
         \A t \in Threads :
           /\ pc'[t] = "store" => tx'[t] = peer'[who'[t]].session.sending_counter
           /\ pc'[t] = "encrypt" =>
                /\ tx'[t] < peer'[who'[t]].session.sending_counter
                /\ \A m \in net' : m.type = "data" /\ m.peer = who'[t] =>
                     (m.key = peer'[who'[t]].session.sending_key => m.counter # tx'[t])
           /\ pc'[t] \in Counted => \A u \in Threads \ {t} : who'[u] = who'[t] =>
                /\ pc'[u] \notin {"reset", "r_reset"}
                /\ pc'[u] \in Counted => tx'[u] # tx'[t]
           /\ pc'[t] \in Sending => peer'[who'[t]].session.sending_key # NoKey
  PROVE  CountersInv'
BY DEF CountersInv, DataOf

\* A step preserves that counters are used once, unless two threads overlap in it:
\* senders exclude each other by send_mutex, and a reset of the counter comes with
\* keys under which nothing was sent.
LEMMA CountersStep == PeersInv /\ Next /\ ~raced' => CountersInv'
<1> SUFFICES ASSUME PeersInv, Next, ~raced' PROVE CountersInv'
  OBVIOUS
<1>a. /\ TypeOK /\ ~raced /\ HandshakesFresh /\ CountersInv /\ InstallInv
      /\ tx \in [Threads -> Nat] /\ DOMAIN pc = Threads /\ DOMAIN who = Threads
      /\ pc["loop"] \notin Installing /\ pc["ka"] \notin Installing
  BY DEF PeersInv, Next, TypeOK, PlacesOK, Installing, Counted
<1>w. /\ \A t \in Threads : pc[t] # "idle" => who[t] \in Ids
      /\ \A t \in Threads : who[t] = 0 <=> pc[t] = "idle"
      /\ Configured \subseteq Ids /\ 0 \notin Ids
  BY SMT, <1>a, Working DEF TypeOK, PlacesOK, Ids
<1>n. \A p \in Ids : peer[p].session.sending_counter \in Nat
  BY <1>a DEF TypeOK, Entry, Session
<1>d. \A m \in net : m.type = "data" => m.counter \in Nat
  BY <1>a DEF TypeOK, MsgOK
<1>c. \A p \in Ids : \A m \in net : m.type = "data" /\ m.peer = p =>
        (m.key = peer[p].session.sending_key /\ m.key # NoKey =>
           m.counter < peer[p].session.sending_counter)
  BY <1>a DEF CountersInv, DataOf
<1>t. \A t \in Threads :
        /\ pc[t] = "store" => tx[t] = peer[who[t]].session.sending_counter
        /\ pc[t] = "encrypt" =>
             /\ tx[t] < peer[who[t]].session.sending_counter
             /\ \A m \in net : m.type = "data" /\ m.peer = who[t] =>
                  (m.key = peer[who[t]].session.sending_key => m.counter # tx[t])
        /\ pc[t] \in Counted => \A u \in Threads \ {t} : who[u] = who[t] =>
             /\ pc[u] \notin {"reset", "r_reset"}
             /\ pc[u] \in Counted => tx[u] # tx[t]
        /\ pc[t] \in Sending => peer[who[t]].session.sending_key # NoKey
  BY <1>a DEF CountersInv, DataOf
<1>v. \A p \in Ids : peer[p].session.valid => peer[p].session.sending_key # NoKey
  BY <1>a DEF InstallInv
<1>u. ASSUME NEW u \in Threads, pc'[u] = pc[u], who'[u] = who[u], tx'[u] = tx[u],
             pc[u] # "idle" => KeysKept(who[u]) /\ CounterKept(who[u]),
             \A m \in net' : m \in net \/ m.type # "data"
      PROVE  /\ pc'[u] = "store" => tx'[u] = peer'[who'[u]].session.sending_counter
             /\ pc'[u] = "encrypt" =>
                  /\ tx'[u] < peer'[who'[u]].session.sending_counter
                  /\ \A m \in net' : m.type = "data" /\ m.peer = who'[u] =>
                       (m.key = peer'[who'[u]].session.sending_key => m.counter # tx'[u])
             /\ pc'[u] \in Sending => peer'[who'[u]].session.sending_key # NoKey
  <2>1. CASE pc[u] \notin Sending
    BY <1>u, <2>1 DEF Sending
  <2>2. CASE pc[u] \in Sending
    <3>1. /\ peer'[who'[u]].session.sending_key = peer[who[u]].session.sending_key
          /\ peer'[who'[u]].session.sending_counter = peer[who[u]].session.sending_counter
      BY <1>u, <2>2 DEF Sending, KeysKept, CounterKept
    <3> QED
      BY <1>t, <1>u, <2>2, <3>1
  <2> QED
    BY <2>1, <2>2
<1>q. ASSUME \A p \in Ids : KeysKept(p) /\ CounterKept(p),
             \A m \in net' : m \in net \/ m.type # "data",
             tx' = tx,
             \A t \in Threads :
               /\ pc'[t] \in Counted \cup {"reset", "r_reset"} => pc'[t] = pc[t] /\ who'[t] = who[t]
               /\ pc'[t] = "lock" =>
                    who'[t] \in Ids /\ peer[who'[t]].session.sending_key # NoKey
      PROVE  CountersInv'
  <2>1. \A p \in Ids : \A m \in net' : m.type = "data" /\ m.peer = p =>
          (m.key = peer'[p].session.sending_key /\ m.key # NoKey =>
             m.counter < peer'[p].session.sending_counter)
    BY <1>c, <1>q DEF KeysKept, CounterKept
  <2>2. ASSUME NEW t \in Threads
        PROVE  /\ pc'[t] = "store" => tx'[t] = peer'[who'[t]].session.sending_counter
               /\ pc'[t] = "encrypt" =>
                    /\ tx'[t] < peer'[who'[t]].session.sending_counter
                    /\ \A m \in net' : m.type = "data" /\ m.peer = who'[t] =>
                         (m.key = peer'[who'[t]].session.sending_key => m.counter # tx'[t])
               /\ pc'[t] \in Sending => peer'[who'[t]].session.sending_key # NoKey
    <3>1. CASE pc'[t] \in Counted
      <4>1. /\ pc'[t] = pc[t] /\ who'[t] = who[t] /\ tx'[t] = tx[t]
            /\ pc[t] # "idle" => KeysKept(who[t]) /\ CounterKept(who[t])
        BY <1>q, <1>w, <3>1
      <4> QED
        BY <1>q, <1>u, <4>1
    <3>2. CASE pc'[t] \notin Counted
      BY <1>q, <3>2 DEF Counted, Sending, KeysKept
    <3> QED
      BY <3>1, <3>2
  <2>3. ASSUME NEW t \in Threads, pc'[t] \in Counted, NEW u \in Threads \ {t}, who'[u] = who'[t]
        PROVE  /\ pc'[u] \notin {"reset", "r_reset"}
               /\ pc'[u] \in Counted => tx'[u] # tx'[t]
    BY ZenonT(40), <1>q, <1>t, <2>3 DEF Counted
  <2> QED
    BY CountersRule, <2>1, <2>2, <2>3
<1>k. ASSUME NEW t \in Threads, who'[t] \in Ids, pc'[t] = "store", TakeCounter(t),
             peer' = peer, net' = net, peer[who'[t]].session.sending_key # NoKey,
             \A u \in Threads \ {t} : pc'[u] = pc[u] /\ who'[u] = who[u]
      PROVE  CountersInv'
  <2>a. /\ tx'[t] = peer[who'[t]].session.sending_counter
        /\ \A u \in Threads \ {t} : tx'[u] = tx[u]
        /\ \A u \in Threads \ {t} : who[u] = who'[t] => pc[u] \notin {"store", "reset", "r_reset"}
    BY <1>a, <1>k DEF TakeCounter, Elsewhere, Unsettled
  <2>1. \A p \in Ids : \A m \in net' : m.type = "data" /\ m.peer = p =>
          (m.key = peer'[p].session.sending_key /\ m.key # NoKey =>
             m.counter < peer'[p].session.sending_counter)
    BY <1>c, <1>k
  <2>2. ASSUME NEW u \in Threads
        PROVE  /\ pc'[u] = "store" => tx'[u] = peer'[who'[u]].session.sending_counter
               /\ pc'[u] = "encrypt" =>
                    /\ tx'[u] < peer'[who'[u]].session.sending_counter
                    /\ \A m \in net' : m.type = "data" /\ m.peer = who'[u] =>
                         (m.key = peer'[who'[u]].session.sending_key => m.counter # tx'[u])
               /\ pc'[u] \in Sending => peer'[who'[u]].session.sending_key # NoKey
    BY SMT, <1>k, <1>t, <2>a
  <2>3. ASSUME NEW u \in Threads \ {t}, pc[u] \in Counted, who[u] = who'[t]
        PROVE  tx'[u] # tx'[t]
    <3>1. pc[u] = "encrypt" /\ tx[u] < peer[who'[t]].session.sending_counter
      BY <1>t, <2>3, <2>a DEF Counted
    <3> QED
      BY SMT, <1>a, <1>k, <1>n, <2>a, <3>1
  <2>4. ASSUME NEW s \in Threads, pc'[s] \in Counted, NEW u \in Threads \ {s}, who'[u] = who'[s]
        PROVE  /\ pc'[u] \notin {"reset", "r_reset"}
               /\ pc'[u] \in Counted => tx'[u] # tx'[s]
    <3>1. CASE s = t
      BY <1>k, <2>3, <2>4, <2>a, <3>1
    <3>2. CASE u = t
      BY <1>k, <2>3, <2>4, <2>a, <3>2
    <3>3. CASE s # t /\ u # t
      BY SMT, <1>k, <1>t, <2>4, <2>a, <3>3
    <3> QED
      BY <3>1, <3>2, <3>3
  <2> QED
    BY CountersRule, <2>1, <2>2, <2>4
<1>1. CASE AddPeer
  BY <1>1, <1>a, <1>q, <1>t, <1>w DEF AddPeer, KeysKept, CounterKept, Sending, Goto, Call,
     Counted, Installing, Threads
<1>2. CASE HandshakeInitPeer
  <2>1. \A q \in Ids : KeysKept(q) /\ CounterKept(q)
    BY <1>2, <1>a, InitEffect
  <2> QED
    BY <1>2, <1>a, <1>q, <1>t, <1>w, <2>1 DEF HandshakeInitPeer, Goto, Call, Counted,
       Installing, Threads, Sending
<1>3. CASE InitSend
  BY SMT, <1>3, <1>a, <1>q, <1>t, <1>w DEF InitSend, Msg, KeysKept, CounterKept, Sending, Goto,
     Call, Counted, Installing, Threads
<1>4. CASE InitSave
  <2>1. \A q \in Ids : KeysKept(q) /\ CounterKept(q)
    BY <1>4, <1>a, SaveEffect
  <2> QED
    BY <1>4, <1>a, <1>q, <1>t, <1>w, <2>1 DEF InitSave, Goto, Call, Counted, Installing,
       Threads, Sending
<1>5. CASE SendCheck
  <2>1. who["loop"] \in Ids
    BY <1>5, <1>w DEF SendCheck, Threads
  <2>2. pc'["loop"] = "lock" => peer[who["loop"]].session.sending_key # NoKey /\ who' = who
    BY <1>5, <1>a, <1>v, <2>1 DEF SendCheck, Goto, Ready, Threads
  <2> QED
    BY <1>5, <1>a, <1>q, <1>t, <1>w, <2>1, <2>2 DEF SendCheck, KeysKept, CounterKept,
       Sending, Goto, Call, Counted, Installing, Threads
<1>6. ASSUME NEW t \in {"loop", "ka", "recv"}, SendLock(t) PROVE CountersInv'
  <2>1. who[t] \in Ids /\ t \in Threads
    BY <1>6, <1>w DEF SendLock, Threads
  <2>2. peer[who[t]].session.sending_key # NoKey
    BY <1>6, <1>t, <2>1 DEF SendLock, Sending
  <2> QED
    BY <1>6, <1>a, <1>k, <2>1, <2>2 DEF SendLock, Goto
<1>7. ASSUME NEW t \in Threads, StoreCounter(t) PROVE CountersInv'
  <2>a. /\ who[t] \in Ids /\ peer'[who[t]].session.sending_counter = tx[t] + 1
        /\ \A q \in Ids : KeysKept(q) /\ (q # who[t] => CounterKept(q))
    BY <1>7, <1>a, StoreEffect
  <2>b. /\ tx' = tx /\ net' = net /\ who' = who /\ pc[t] = "store" /\ pc'[t] = "encrypt"
        /\ \A u \in Threads \ {t} : pc'[u] = pc[u]
    BY <1>7, <1>a DEF StoreCounter, Goto
  <2>c. /\ tx[t] = peer[who[t]].session.sending_counter /\ tx[t] \in Nat
        /\ peer[who[t]].session.sending_key # NoKey
    BY <1>a, <1>t, <2>b DEF Sending
  <2>1. \A p \in Ids : \A m \in net' : m.type = "data" /\ m.peer = p =>
          (m.key = peer'[p].session.sending_key /\ m.key # NoKey =>
             m.counter < peer'[p].session.sending_counter)
    BY SMT, <1>c, <1>d, <2>a, <2>b, <2>c DEF KeysKept, CounterKept
  <2>2. ASSUME NEW u \in Threads
        PROVE  /\ pc'[u] = "store" => tx'[u] = peer'[who'[u]].session.sending_counter
               /\ pc'[u] = "encrypt" =>
                    /\ tx'[u] < peer'[who'[u]].session.sending_counter
                    /\ \A m \in net' : m.type = "data" /\ m.peer = who'[u] =>
                         (m.key = peer'[who'[u]].session.sending_key => m.counter # tx'[u])
               /\ pc'[u] \in Sending => peer'[who'[u]].session.sending_key # NoKey
    <3>1. CASE u = t
      <4>1. /\ tx'[u] < peer'[who'[u]].session.sending_counter
            /\ peer'[who'[u]].session.sending_key # NoKey
        BY SMT, <2>a, <2>b, <2>c, <3>1 DEF KeysKept
      <4>2. ASSUME NEW m \in net', m.type = "data", m.peer = who'[u],
                   m.key = peer'[who'[u]].session.sending_key
            PROVE  m.counter # tx'[u]
        BY SMT, <1>c, <1>d, <2>a, <2>b, <2>c, <3>1, <4>2 DEF KeysKept
      <4> QED
        BY <2>b, <3>1, <4>1, <4>2
    <3>2. CASE u # t /\ who[u] = who[t]
      <4>1. pc[u] # "store"
        BY SMT, <1>t, <2>b, <2>c, <3>2 DEF Counted
      <4>2. pc[u] = "encrypt" => tx[u] < tx[t] + 1
        BY SMT, <1>a, <1>t, <2>c, <3>2
      <4> QED
        BY ZenonT(40), <1>t, <2>a, <2>b, <3>2, <4>1, <4>2 DEF KeysKept, Sending
    <3>3. CASE u # t /\ who[u] # who[t]
      <4>1. pc[u] # "idle" => KeysKept(who[u]) /\ CounterKept(who[u])
        BY <1>w, <2>a, <3>3
      <4> QED
        BY <1>u, <2>b, <3>3, <4>1
    <3> QED
      BY <3>1, <3>2, <3>3
  <2>3. ASSUME NEW s \in Threads, pc'[s] \in Counted, NEW u \in Threads \ {s}, who'[u] = who'[s]
        PROVE  /\ pc'[u] \notin {"reset", "r_reset"}
               /\ pc'[u] \in Counted => tx'[u] # tx'[s]
    BY ZenonT(40), <1>t, <2>3, <2>b DEF Counted
  <2> QED
    BY CountersRule, <2>1, <2>2, <2>3
<1>8. ASSUME NEW t \in Threads, Encrypt(t) PROVE CountersInv'
  <2>a. /\ who[t] \in Ids /\ peer' = peer /\ pc[t] = "encrypt" /\ pc'[t] = "idle"
        /\ \A u \in Threads \ {t} : pc'[u] = pc[u] /\ who'[u] = who[u] /\ tx'[u] = tx[u]
        /\ who'[t] = 0
    BY <1>8, <1>a, <1>w DEF Encrypt, Goto
  <2>b. \A m \in net' : m \in net \/ m = Data(who[t], peer[who[t]].session.sending_key, tx[t])
    BY <1>8 DEF Encrypt
  <2>1. \A p \in Ids : \A m \in net' : m.type = "data" /\ m.peer = p =>
          (m.key = peer'[p].session.sending_key /\ m.key # NoKey =>
             m.counter < peer'[p].session.sending_counter)
    BY SMT, <1>c, <1>t, <2>a, <2>b DEF Data
  <2>2. ASSUME NEW u \in Threads
        PROVE  /\ pc'[u] = "store" => tx'[u] = peer'[who'[u]].session.sending_counter
               /\ pc'[u] = "encrypt" =>
                    /\ tx'[u] < peer'[who'[u]].session.sending_counter
                    /\ \A m \in net' : m.type = "data" /\ m.peer = who'[u] =>
                         (m.key = peer'[who'[u]].session.sending_key => m.counter # tx'[u])
               /\ pc'[u] \in Sending => peer'[who'[u]].session.sending_key # NoKey
    <3>1. CASE u = t
      BY <2>a, <3>1 DEF Sending
    <3>2. CASE u # t
      <4>1. ASSUME NEW m \in net', pc[u] = "encrypt", m.type = "data", m.peer = who[u],
                   m.key = peer[who[u]].session.sending_key
            PROVE  m.counter # tx[u]
        <5>1. CASE m \in net
          BY <1>t, <4>1, <5>1
        <5>2. CASE m \notin net
          <6>1. m.counter = tx[t] /\ who[u] = who[t]
            BY SMT, <2>b, <4>1, <5>2 DEF Data
          <6> QED
            BY SMT, <1>t, <2>a, <3>2, <4>1, <6>1 DEF Counted
        <5> QED
          BY <5>1, <5>2
      <4> QED
        BY ZenonT(40), <1>t, <2>a, <3>2, <4>1
    <3> QED
      BY <3>1, <3>2
  <2>3. ASSUME NEW s \in Threads, pc'[s] \in Counted, NEW u \in Threads \ {s}, who'[u] = who'[s]
        PROVE  /\ pc'[u] \notin {"reset", "r_reset"}
               /\ pc'[u] \in Counted => tx'[u] # tx'[s]
    <3>1. s # t
      BY <2>3, <2>a DEF Counted
    <3>2. CASE u = t
      BY <2>a, <3>2 DEF Counted
    <3>3. CASE u # t
      BY SMT, <1>t, <2>3, <2>a, <3>1, <3>3
    <3> QED
      BY <3>2, <3>3
  <2> QED
    BY CountersRule, <2>1, <2>2, <2>3
<1>9. CASE KaWipe
  <2>a. /\ who["ka"] \in Ids /\ peer'[who["ka"]].session = ZeroSession
        /\ \A q \in Ids : q # who["ka"] => Kept(q)
    BY <1>9, <1>a, WipeEffect
  <2>b. /\ tx' = tx /\ net' = net /\ pc'["ka"] \notin Sending /\ who'["ka"] \in {0, who["ka"]}
        /\ \A u \in Threads \ {"ka"} : pc'[u] = pc[u] /\ who'[u] = who[u]
    BY <1>9, <1>a DEF KaWipe, Goto, Sending, Threads
  <2>c. \A u \in Threads \ {"ka"} : who[u] = who["ka"] => pc[u] \notin Installing \cup Sending
    BY <1>9, <1>a DEF KaWipe, Elsewhere
  <2>1. \A p \in Ids : \A m \in net' : m.type = "data" /\ m.peer = p =>
          (m.key = peer'[p].session.sending_key /\ m.key # NoKey =>
             m.counter < peer'[p].session.sending_counter)
    BY SMT, <1>c, <2>a, <2>b DEF Kept, KeysKept, CounterKept, ZeroSession
  <2>2. ASSUME NEW u \in Threads
        PROVE  /\ pc'[u] = "store" => tx'[u] = peer'[who'[u]].session.sending_counter
               /\ pc'[u] = "encrypt" =>
                    /\ tx'[u] < peer'[who'[u]].session.sending_counter
                    /\ \A m \in net' : m.type = "data" /\ m.peer = who'[u] =>
                         (m.key = peer'[who'[u]].session.sending_key => m.counter # tx'[u])
               /\ pc'[u] \in Sending => peer'[who'[u]].session.sending_key # NoKey
    <3>1. CASE u = "ka"
      BY <2>b, <3>1 DEF Sending
    <3>2. CASE u # "ka" /\ who[u] = who["ka"]
      BY <2>b, <2>c, <3>2 DEF Sending
    <3>3. CASE u # "ka" /\ who[u] # who["ka"]
      <4>1. pc[u] # "idle" => KeysKept(who[u]) /\ CounterKept(who[u])
        BY <1>w, <2>a, <3>3 DEF Kept
      <4> QED
        BY <1>u, <2>b, <3>3, <4>1
    <3> QED
      BY <3>1, <3>2, <3>3
  <2>3. ASSUME NEW s \in Threads, pc'[s] \in Counted, NEW u \in Threads \ {s}, who'[u] = who'[s]
        PROVE  /\ pc'[u] \notin {"reset", "r_reset"}
               /\ pc'[u] \in Counted => tx'[u] # tx'[s]
    <3>1. s # "ka" /\ pc[s] \in Counted /\ who'[s] = who[s] /\ who[s] # who["ka"]
      BY <2>3, <2>b, <2>c DEF Counted, Sending
    <3>2. CASE u = "ka"
      BY <1>w, <2>3, <2>b, <3>1, <3>2 DEF Counted
    <3>3. CASE u # "ka"
      BY ZenonT(40), <1>t, <2>3, <2>b, <3>1, <3>3
    <3> QED
      BY <3>2, <3>3
  <2> QED
    BY CountersRule, <2>1, <2>2, <2>3
<1>10. CASE PassiveRotate
  <2>1. \A q \in Ids : KeysKept(q) /\ CounterKept(q)
    BY <1>10, <1>a, PrevEffect DEF Kept
  <2> QED
    BY <1>10, <1>a, <1>q, <1>t, <1>w, <2>1 DEF PassiveRotate, Goto, Call, Counted,
       Installing, Threads, Sending
<1>11. CASE SetKeys
  <2>0. PICK i, r : i = hs["recv"][1] /\ r = hs["recv"][2]
    OBVIOUS
  <2>a. /\ who["recv"] \in Ids
        /\ \A q \in Ids : CounterKept(q) /\ (q # who["recv"] => KeysKept(q))
        /\ \E d \in {1, 2} : peer'[who["recv"]].session.sending_key = Kdf2(i, r, d)
    BY <1>11, <1>a, <2>0, KeysEffect DEF SetKeys
  <2>b. /\ tx' = tx /\ net' = net /\ pc'["recv"] \notin Sending /\ who'["recv"] \in {0, who["recv"]}
        /\ \A u \in Threads \ {"recv"} : pc'[u] = pc[u] /\ who'[u] = who[u]
    BY <1>11, <1>a DEF SetKeys, Goto, Sending, Threads
  <2>c. \A u \in Threads \ {"recv"} : who[u] = who["recv"] => pc[u] \notin {"store", "encrypt"}
    BY <1>11, <1>a DEF SetKeys, Overwrites, Elsewhere
  <2>d. \A m \in net : m.type = "data" /\ m.peer = who["recv"] => <<m.key.i, m.key.r>> # hs["recv"]
    BY <1>11, <1>a DEF SetKeys, HandshakesFresh, DataOf, Installing
  <2>e. hs["recv"] = <<i, r>>
    BY SMT, <1>a, <2>0 DEF TypeOK, Threads
  <2>1. \A p \in Ids : \A m \in net' : m.type = "data" /\ m.peer = p =>
          (m.key = peer'[p].session.sending_key /\ m.key # NoKey =>
             m.counter < peer'[p].session.sending_counter)
    <3> SUFFICES ASSUME NEW p \in Ids, NEW m \in net', m.type = "data", m.peer = p,
                        m.key = peer'[p].session.sending_key, m.key # NoKey
                 PROVE  m.counter < peer'[p].session.sending_counter
      OBVIOUS
    <3>1. CASE p = who["recv"]
      <4>1. m \in net /\ \E d \in {1, 2} : m.key = Kdf2(i, r, d)
        BY <2>a, <2>b, <3>1
      <4>2. m.key.i = i /\ m.key.r = r
        BY SMT, <4>1 DEF Kdf2
      <4> QED
        BY <2>d, <2>e, <3>1, <4>1, <4>2
    <3>2. CASE p # who["recv"]
      BY <1>c, <2>a, <2>b, <3>2 DEF KeysKept, CounterKept
    <3> QED
      BY <3>1, <3>2
  <2>2. ASSUME NEW u \in Threads
        PROVE  /\ pc'[u] = "store" => tx'[u] = peer'[who'[u]].session.sending_counter
               /\ pc'[u] = "encrypt" =>
                    /\ tx'[u] < peer'[who'[u]].session.sending_counter
                    /\ \A m \in net' : m.type = "data" /\ m.peer = who'[u] =>
                         (m.key = peer'[who'[u]].session.sending_key => m.counter # tx'[u])
               /\ pc'[u] \in Sending => peer'[who'[u]].session.sending_key # NoKey
    <3>1. CASE u = "recv"
      BY <2>b, <3>1 DEF Sending
    <3>2. CASE u # "recv" /\ who[u] = who["recv"]
      BY SMT, <2>a, <2>b, <2>c, <3>2 DEF Kdf2, NoKey
    <3>3. CASE u # "recv" /\ who[u] # who["recv"]
      <4>1. pc[u] # "idle" => KeysKept(who[u]) /\ CounterKept(who[u])
        BY <1>w, <2>a, <3>3
      <4> QED
        BY <1>u, <2>b, <3>3, <4>1
    <3> QED
      BY <3>1, <3>2, <3>3
  <2>3. ASSUME NEW s \in Threads, pc'[s] \in Counted, NEW u \in Threads \ {s}, who'[u] = who'[s]
        PROVE  /\ pc'[u] \notin {"reset", "r_reset"}
               /\ pc'[u] \in Counted => tx'[u] # tx'[s]
    <3>1. s # "recv" /\ pc[s] \in Counted /\ who'[s] = who[s] /\ who[s] # who["recv"]
      BY <2>3, <2>b, <2>c DEF Counted, Sending
    <3>2. CASE u = "recv"
      BY <1>w, <2>3, <2>b, <3>1, <3>2 DEF Counted
    <3>3. CASE u # "recv"
      BY ZenonT(40), <1>t, <2>3, <2>b, <3>1, <3>3
    <3> QED
      BY <3>2, <3>3
  <2> QED
    BY CountersRule, <2>1, <2>2, <2>3
<1>12. CASE PassiveReset
  <2>0. PICK i, r : i = hs["recv"][1] /\ r = hs["recv"][2]
    OBVIOUS
  <2>a. /\ who["recv"] \in Ids
        /\ \A q \in Ids : KeysKept(q) /\ (q # who["recv"] => Kept(q))
        /\ peer[who["recv"]].session.sending_key = Kdf2(i, r, 2)
    BY <1>12, <1>a, <2>0, PassiveEffect DEF PassiveReset, InstallInv
  <2>b. /\ tx' = tx /\ \A m \in net' : m \in net \/ m.type # "data" 
        /\ pc'["recv"] \notin Sending /\ who'["recv"] \in {0, who["recv"]}
        /\ \A u \in Threads \ {"recv"} : pc'[u] = pc[u] /\ who'[u] = who[u]
    BY SMT, <1>12, <1>a DEF PassiveReset, Msg, Goto, Sending, Threads
  <2>c. \A u \in Threads \ {"recv"} : who[u] = who["recv"] => pc[u] \notin {"store", "encrypt"}
    BY <1>12, <1>a DEF PassiveReset, Overwrites, Elsewhere
  <2>d. \A m \in net : m.type = "data" /\ m.peer = who["recv"] => <<m.key.i, m.key.r>> # hs["recv"]
    BY <1>12, <1>a DEF PassiveReset, HandshakesFresh, DataOf, Installing
  <2>e. hs["recv"] = <<i, r>>
    BY SMT, <1>a, <2>0 DEF TypeOK, Threads
  <2>1. \A p \in Ids : \A m \in net' : m.type = "data" /\ m.peer = p =>
          (m.key = peer'[p].session.sending_key /\ m.key # NoKey =>
             m.counter < peer'[p].session.sending_counter)
    <3> SUFFICES ASSUME NEW p \in Ids, NEW m \in net', m.type = "data", m.peer = p,
                        m.key = peer'[p].session.sending_key, m.key # NoKey
                 PROVE  m.counter < peer'[p].session.sending_counter
      OBVIOUS
    <3>1. CASE p = who["recv"]
      <4>1. m \in net /\ \E d \in {1, 2} : m.key = Kdf2(i, r, d)
        BY <2>a, <2>b, <3>1 DEF KeysKept
      <4>2. m.key.i = i /\ m.key.r = r
        BY SMT, <4>1 DEF Kdf2
      <4> QED
        BY <2>d, <2>e, <3>1, <4>1, <4>2
    <3>2. CASE p # who["recv"]
      BY <1>c, <2>a, <2>b, <3>2 DEF Kept, KeysKept, CounterKept
    <3> QED
      BY <3>1, <3>2
  <2>2. ASSUME NEW u \in Threads
        PROVE  /\ pc'[u] = "store" => tx'[u] = peer'[who'[u]].session.sending_counter
               /\ pc'[u] = "encrypt" =>
                    /\ tx'[u] < peer'[who'[u]].session.sending_counter
                    /\ \A m \in net' : m.type = "data" /\ m.peer = who'[u] =>
                         (m.key = peer'[who'[u]].session.sending_key => m.counter # tx'[u])
               /\ pc'[u] \in Sending => peer'[who'[u]].session.sending_key # NoKey
    <3>1. CASE u = "recv"
      BY <2>b, <3>1 DEF Sending
    <3>2. CASE u # "recv" /\ who[u] = who["recv"]
      BY SMTT(30), <2>a, <2>b, <2>c, <3>2 DEF Kdf2, NoKey, KeysKept
    <3>3. CASE u # "recv" /\ who[u] # who["recv"]
      <4>1. pc[u] # "idle" => KeysKept(who[u]) /\ CounterKept(who[u])
        BY <1>w, <2>a, <3>3 DEF Kept
      <4> QED
        BY <1>u, <2>b, <3>3, <4>1
    <3> QED
      BY <3>1, <3>2, <3>3
  <2>3. ASSUME NEW s \in Threads, pc'[s] \in Counted, NEW u \in Threads \ {s}, who'[u] = who'[s]
        PROVE  /\ pc'[u] \notin {"reset", "r_reset"}
               /\ pc'[u] \in Counted => tx'[u] # tx'[s]
    <3>1. s # "recv" /\ pc[s] \in Counted /\ who'[s] = who[s] /\ who[s] # who["recv"]
      BY <2>3, <2>b, <2>c DEF Counted, Sending
    <3>2. CASE u = "recv"
      BY <1>w, <2>3, <2>b, <3>1, <3>2 DEF Counted
    <3>3. CASE u # "recv"
      BY ZenonT(40), <1>t, <2>3, <2>b, <3>1, <3>3
    <3> QED
      BY <3>2, <3>3
  <2> QED
    BY CountersRule, <2>1, <2>2, <2>3
<1>13. CASE RecvKeepalive
  <2>1. CASE Goto("recv", "idle")
    BY <1>13, <1>a, <1>q, <1>t, <1>w, <2>1 DEF RecvKeepalive, KeysKept, CounterKept,
       Sending, Goto, Counted, Installing, Threads
  <2>2. CASE \E p \in First({q \in Configured : Ready(q)}) : Call("recv", "lock", p)
    <3>1. PICK p \in First({q \in Configured : Ready(q)}) : Call("recv", "lock", p)
      BY <2>2
    <3>2. p \in Ids /\ peer[p].session.sending_key # NoKey
      BY <1>v, <1>w DEF First, Ready
    <3>3. /\ who'["recv"] = p /\ pc'["recv"] = "lock"
          /\ \A u \in Threads \ {"recv"} : pc'[u] = pc[u] /\ who'[u] = who[u]
      BY <1>a, <3>1 DEF Call, Threads
    <3> QED
      BY <1>13, <1>a, <1>q, <1>t, <1>w, <3>2, <3>3 DEF RecvKeepalive, KeysKept, CounterKept,
         Sending, Counted, Installing, Threads
  <2> QED
    BY <1>13, <2>1, <2>2 DEF RecvKeepalive
<1>14. CASE ResponseReset
  <2>0. PICK i, r : i = hs["recv"][1] /\ r = hs["recv"][2]
    OBVIOUS
  <2>a. /\ who["recv"] \in Ids
        /\ \A q \in Ids : KeysKept(q) /\ (q # who["recv"] => Kept(q))
        /\ peer[who["recv"]].session.sending_key = Kdf2(i, r, 1)
    BY <1>14, <1>a, <2>0, ResetEffect DEF ResponseReset, InstallInv
  <2>b. /\ tx' = tx /\ net' = net /\ pc'["recv"] \notin Sending /\ who'["recv"] \in {0, who["recv"]}
        /\ \A u \in Threads \ {"recv"} : pc'[u] = pc[u] /\ who'[u] = who[u]
    BY <1>14, <1>a DEF ResponseReset, Goto, Sending, Threads
  <2>c. \A u \in Threads \ {"recv"} : who[u] = who["recv"] => pc[u] \notin {"store", "encrypt"}
    BY <1>14, <1>a DEF ResponseReset, Overwrites, Elsewhere
  <2>d. \A m \in net : m.type = "data" /\ m.peer = who["recv"] => <<m.key.i, m.key.r>> # hs["recv"]
    BY <1>14, <1>a DEF ResponseReset, HandshakesFresh, DataOf, Installing
  <2>e. hs["recv"] = <<i, r>>
    BY SMT, <1>a, <2>0 DEF TypeOK, Threads
  <2>1. \A p \in Ids : \A m \in net' : m.type = "data" /\ m.peer = p =>
          (m.key = peer'[p].session.sending_key /\ m.key # NoKey =>
             m.counter < peer'[p].session.sending_counter)
    <3> SUFFICES ASSUME NEW p \in Ids, NEW m \in net', m.type = "data", m.peer = p,
                        m.key = peer'[p].session.sending_key, m.key # NoKey
                 PROVE  m.counter < peer'[p].session.sending_counter
      OBVIOUS
    <3>1. CASE p = who["recv"]
      <4>1. m \in net /\ \E d \in {1, 2} : m.key = Kdf2(i, r, d)
        BY <2>a, <2>b, <3>1 DEF KeysKept
      <4>2. m.key.i = i /\ m.key.r = r
        BY SMT, <4>1 DEF Kdf2
      <4> QED
        BY <2>d, <2>e, <3>1, <4>1, <4>2
    <3>2. CASE p # who["recv"]
      BY <1>c, <2>a, <2>b, <3>2 DEF Kept, KeysKept, CounterKept
    <3> QED
      BY <3>1, <3>2
  <2>2. ASSUME NEW u \in Threads
        PROVE  /\ pc'[u] = "store" => tx'[u] = peer'[who'[u]].session.sending_counter
               /\ pc'[u] = "encrypt" =>
                    /\ tx'[u] < peer'[who'[u]].session.sending_counter
                    /\ \A m \in net' : m.type = "data" /\ m.peer = who'[u] =>
                         (m.key = peer'[who'[u]].session.sending_key => m.counter # tx'[u])
               /\ pc'[u] \in Sending => peer'[who'[u]].session.sending_key # NoKey
    <3>1. CASE u = "recv"
      BY <2>b, <3>1 DEF Sending
    <3>2. CASE u # "recv" /\ who[u] = who["recv"]
      BY SMT, <2>a, <2>b, <2>c, <3>2 DEF Kdf2, NoKey, KeysKept
    <3>3. CASE u # "recv" /\ who[u] # who["recv"]
      <4>1. pc[u] # "idle" => KeysKept(who[u]) /\ CounterKept(who[u])
        BY <1>w, <2>a, <3>3 DEF Kept
      <4> QED
        BY <1>u, <2>b, <3>3, <4>1
    <3> QED
      BY <3>1, <3>2, <3>3
  <2>3. ASSUME NEW s \in Threads, pc'[s] \in Counted, NEW u \in Threads \ {s}, who'[u] = who'[s]
        PROVE  /\ pc'[u] \notin {"reset", "r_reset"}
               /\ pc'[u] \in Counted => tx'[u] # tx'[s]
    <3>1. s # "recv" /\ pc[s] \in Counted /\ who'[s] = who[s] /\ who[s] # who["recv"]
      BY <2>3, <2>b, <2>c DEF Counted, Sending
    <3>2. CASE u = "recv"
      BY <1>w, <2>3, <2>b, <3>1, <3>2 DEF Counted
    <3>3. CASE u # "recv"
      BY <1>t, <2>3, <2>b, <3>1, <3>3
    <3> QED
      BY <3>2, <3>3
  <2> QED
    BY CountersRule, <2>1, <2>2, <2>3
<1>15. CASE RecvAccept
  <2>1. \A q \in Ids : KeysKept(q) /\ CounterKept(q)
    BY <1>15, <1>a, PrevEffect DEF Kept
  <2> QED
    BY <1>15, <1>a, <1>q, <1>t, <1>w, <2>1 DEF RecvAccept, Goto, Call, Counted,
       Installing, Threads, Sending
<1>16. ASSUME NEW p \in Ids, KaCheck(p) PROVE CountersInv'
  <2>1. /\ peer' = peer /\ net' = net /\ tx' = tx /\ pc'["ka"] \in {"wipe", "lock"} /\ who'["ka"] = p
        /\ \A u \in Threads \ {"ka"} : pc'[u] = pc[u] /\ who'[u] = who[u]
    BY <1>16, <1>a DEF KaCheck, Call, Threads
  <2>2. peer[p].session.sending_key # NoKey
    BY <1>16, <1>v DEF KaCheck
  <2>3. ASSUME NEW t \in Threads
        PROVE  /\ pc'[t] \in Counted \cup {"reset", "r_reset"} => pc'[t] = pc[t] /\ who'[t] = who[t]
               /\ pc'[t] = "lock" => who'[t] \in Ids /\ peer[who'[t]].session.sending_key # NoKey
    <3>1. CASE t = "ka"
      BY <2>1, <2>2, <3>1 DEF Counted
    <3>2. CASE t # "ka"
      BY <1>t, <1>w, <2>1, <3>2 DEF Sending
    <3> QED
      BY <3>1, <3>2
  <2> QED
    BY <1>q, <2>1, <2>3 DEF KeysKept, CounterKept
<1>17. ASSUME NEW p \in Ids, Tick(p) PROVE CountersInv'
  <2>1. \A q \in Ids : KeysKept(q) /\ CounterKept(q)
    BY <1>17, <1>a, PrevEffect DEF Kept
  <2> QED
    BY <1>17, <1>a, <1>q, <1>t, <1>w, <2>1 DEF Tick, Goto, Call, Counted, Installing,
       Threads, Sending
<1>18. ASSUME NEW p \in Ids, PeerInitiate(p) PROVE CountersInv'
  BY SMT, <1>18, <1>a, <1>q, <1>t, <1>w DEF PeerInitiate, Msg, KeysKept, CounterKept, Sending,
     Goto, Call, Counted, Installing, Threads
<1>19. ASSUME NEW p \in Ids, NetifOutput(p) PROVE CountersInv'
  BY SMT, <1>19, <1>a, <1>q, <1>t, <1>w DEF NetifOutput, KeysKept, CounterKept, Sending, Goto,
     Call, Counted, Installing, Threads
<1>20. ASSUME NEW m \in net, RecvInit(m) PROVE CountersInv'
  BY <1>20, <1>a, <1>q, <1>t, <1>w DEF RecvInit, KeysKept, CounterKept, Sending, Goto,
     Call, Counted, Installing, Threads
<1>21. ASSUME NEW m \in net, RecvResponse(m) PROVE CountersInv'
  <2>1. \A q \in Ids : KeysKept(q) /\ CounterKept(q)
    BY <1>21, <1>a, ResponseEffect
  <2> QED
    BY SMT, <1>21, <1>a, <1>q, <1>t, <1>w, <2>1 DEF RecvResponse, Goto, Call, Counted,
       Installing, Threads, Sending
<1>22. ASSUME NEW m \in net, PeerAnswer(m) PROVE CountersInv'
  BY SMT, <1>22, <1>a, <1>q, <1>t, <1>w DEF PeerAnswer, Msg, KeysKept, CounterKept, Sending,
     Goto, Call, Counted, Installing, Threads
<1>23. ASSUME NEW idx, RecvMatch(idx) PROVE CountersInv'
  <2>1. \A q \in Ids : KeysKept(q) /\ CounterKept(q)
    BY <1>23, <1>a, PrevEffect DEF Kept
  <2> QED
    BY ZenonT(40), <1>23, <1>a, <1>q, <1>t, <1>w, <2>1 DEF RecvMatch, Goto, Call, Counted, Installing,
       Threads, Sending
<1> QED
  BY <1>1, <1>2, <1>3, <1>4, <1>5, <1>6, <1>7, <1>8, <1>9, <1>10, <1>11, <1>12,
     <1>13, <1>14, <1>15, <1>16, <1>17, <1>18, <1>19, <1>20, <1>21, <1>22, <1>23 DEF
     Next, LoopStep, KaStep, RecvStep, Threads

\* A step preserves what the receive thread has installed so far, unless two threads
\* overlap in it.
LEMMA InstallStep == PeersInv /\ Next /\ ~raced' => InstallInv'
<1> SUFFICES ASSUME PeersInv, Next, ~raced' PROVE InstallInv'
  OBVIOUS
<1>a. /\ TypeOK /\ ~raced /\ InstallInv /\ hs \in [Threads -> Index \X Index]
      /\ DOMAIN pc = Threads /\ DOMAIN who = Threads
  BY DEF PeersInv, Next, TypeOK, PlacesOK
<1>w. /\ \A t \in Threads : pc[t] # "idle" => who[t] \in Ids
      /\ Configured \subseteq Ids
  BY <1>a, Working
<1>v. \A p \in Ids : peer[p].session.valid => peer[p].session.sending_key # NoKey
  BY <1>a DEF InstallInv
<1>q. ASSUME \A p \in Ids : KeysKept(p) /\ ValidKept(p),
             pc'["recv"] \in {"r_keys", "r_reset", "reset"} =>
               /\ pc'["recv"] = pc["recv"] /\ who'["recv"] = who["recv"]
               /\ hs'["recv"] = hs["recv"] /\ IndicesKept(who["recv"])
      PROVE  InstallInv'
  <2>1. \A p \in Ids : peer'[p].session.valid => peer'[p].session.sending_key # NoKey
    BY <1>q, <1>v DEF KeysKept, ValidKept
  <2>2. CASE pc'["recv"] \in {"r_keys", "r_reset", "reset"}
    <3>1. who["recv"] \in Ids
      BY <1>q, <1>w, <2>2 DEF Threads
    <3> QED
      BY <1>a, <1>q, <2>1, <2>2, <3>1 DEF InstallInv, KeysKept, IndicesKept
  <2>3. CASE pc'["recv"] \notin {"r_keys", "r_reset", "reset"}
    BY <2>1, <2>3 DEF InstallInv
  <2> QED
    BY <2>2, <2>3
<1>1. CASE AddPeer
  BY <1>1, <1>a, <1>q DEF AddPeer, Goto, Call, Threads, KeysKept, ValidKept, IndicesKept
<1>2. CASE HandshakeInitPeer
  <2>1. \A q \in Ids : KeysKept(q) /\ ValidKept(q) /\ (q # who["loop"] => IndicesKept(q))
    BY <1>2, <1>a, InitEffect
  <2>2. pc["recv"] \in Installing => who["recv"] # who["loop"]
    BY <1>2 DEF HandshakeInitPeer, Elsewhere, Threads
  <2>3. pc'["recv"] = pc["recv"] /\ who' = who
    BY <1>2, <1>a DEF HandshakeInitPeer, Goto, Threads
  <2>4. hs'["recv"] = hs["recv"]
    BY <1>2, <1>a DEF HandshakeInitPeer, Threads
  <2> QED
    BY <1>q, <1>w, <2>1, <2>2, <2>3, <2>4 DEF Installing, Threads
<1>3. CASE InitSend
  BY <1>3, <1>a, <1>q DEF InitSend, Goto, Call, Threads, KeysKept, ValidKept, IndicesKept
<1>4. CASE InitSave
  <2>1. \A q \in Ids : KeysKept(q) /\ ValidKept(q) /\ IndicesKept(q)
    BY <1>4, <1>a, SaveEffect
  <2> QED
    BY <1>4, <1>a, <1>q, <1>w, <2>1 DEF InitSave, Goto, Call, Threads
<1>5. CASE SendCheck
  BY <1>5, <1>a, <1>q DEF SendCheck, Goto, Call, Threads, KeysKept, ValidKept, IndicesKept
<1>6. ASSUME NEW t \in {"loop", "ka", "recv"}, SendLock(t) PROVE InstallInv'
  BY <1>6, <1>a, <1>q DEF SendLock, Goto, Call, Threads, KeysKept, ValidKept, IndicesKept
<1>7. ASSUME NEW t \in Threads, StoreCounter(t) PROVE InstallInv'
  <2>1. \A q \in Ids : KeysKept(q) /\ ValidKept(q) /\ IndicesKept(q)
    BY <1>7, <1>a, StoreEffect
  <2> QED
    BY <1>7, <1>a, <1>q, <1>w, <2>1 DEF StoreCounter, Goto, Call, Threads
<1>8. ASSUME NEW t \in Threads, Encrypt(t) PROVE InstallInv'
  BY <1>8, <1>a, <1>q DEF Encrypt, Goto, Call, Threads, KeysKept, ValidKept, IndicesKept
<1>9. CASE KaWipe
  <2>1. /\ who["ka"] \in Ids /\ peer'[who["ka"]].session.valid = FALSE
        /\ \A q \in Ids : q # who["ka"] => Kept(q)
    BY SMT, <1>9, <1>a, WipeEffect DEF ZeroSession
  <2>2. pc["recv"] \in Installing => who["recv"] # who["ka"]
    BY <1>9 DEF KaWipe, Elsewhere, Threads
  <2>3. pc'["recv"] = pc["recv"] /\ who'["recv"] = who["recv"] /\ hs' = hs
    BY <1>9, <1>a DEF KaWipe, Goto, Threads
  <2>4. \A p \in Ids : peer'[p].session.valid => peer'[p].session.sending_key # NoKey
    BY <1>v, <2>1 DEF Kept, KeysKept, ValidKept
  <2>5. CASE pc["recv"] \in Installing
    <3>1. who["recv"] \in Ids /\ Kept(who["recv"])
      BY <1>w, <2>1, <2>2, <2>5 DEF Installing, Threads
    <3> QED
      BY <1>a, <2>3, <2>4, <3>1 DEF InstallInv, Kept, KeysKept, IndicesKept
  <2>6. CASE pc["recv"] \notin Installing
    BY <2>3, <2>4, <2>6 DEF InstallInv, Installing
  <2> QED
    BY <2>5, <2>6
<1>10. CASE PassiveRotate
  <2>1. \A q \in Ids : KeysKept(q) /\ ValidKept(q) /\ IndicesKept(q)
    BY <1>10, <1>a, PrevEffect DEF Kept
  <2> QED
    BY <1>10, <1>a, <1>q, <1>w, <2>1 DEF PassiveRotate, Goto, Call, Threads
<1>11. CASE SetKeys
  <2>0. PICK i, r : i = hs["recv"][1] /\ r = hs["recv"][2]
    OBVIOUS
  <2>1. /\ who["recv"] \in Ids
        /\ \A q \in Ids : IndicesKept(q) /\ ValidKept(q) /\ (q # who["recv"] => KeysKept(q))
        /\ pc["recv"] = "keys" => /\ peer'[who["recv"]].session.sending_key = Kdf2(i, r, 2)
                                 /\ peer'[who["recv"]].session.receiving_key = Kdf2(i, r, 1)
        /\ pc["recv"] = "r_keys" => /\ peer'[who["recv"]].session.sending_key = Kdf2(i, r, 1)
                                   /\ peer'[who["recv"]].session.receiving_key = Kdf2(i, r, 2)
    BY <1>11, <1>a, <2>0, KeysEffect
  <2>2. /\ who' = who /\ hs' = hs
        /\ \/ pc["recv"] = "keys" /\ pc'["recv"] = "reset"
           \/ pc["recv"] = "r_keys" /\ pc'["recv"] = "r_reset"
    BY <1>11, <1>a DEF SetKeys, Goto, Threads
  <2>3. \A p \in Ids : peer'[p].session.valid => peer'[p].session.sending_key # NoKey
    <3>1. peer'[who["recv"]].session.sending_key # NoKey
      <4>1. \E d \in {1, 2} : peer'[who["recv"]].session.sending_key = Kdf2(i, r, d)
        BY <2>1, <2>2
      <4> QED
        BY SMT, <4>1 DEF Kdf2, NoKey
    <3> QED
      BY <1>v, <2>1, <3>1 DEF KeysKept, ValidKept
  <2> QED
    BY <1>a, <2>0, <2>1, <2>2, <2>3 DEF InstallInv, IndicesKept
<1>12. CASE PassiveReset
  <2>0. PICK i, r : i = hs["recv"][1] /\ r = hs["recv"][2]
    OBVIOUS
  <2>1. /\ who["recv"] \in Ids
        /\ \A q \in Ids : KeysKept(q) /\ (q # who["recv"] => Kept(q))
        /\ peer[who["recv"]].session.sending_key = Kdf2(i, r, 2)
    BY <1>12, <1>a, <2>0, PassiveEffect DEF PassiveReset, InstallInv
  <2>2. pc'["recv"] = "keepalive"
    BY <1>12, <1>a DEF PassiveReset, Goto, Threads
  <2>3. \A p \in Ids : peer'[p].session.valid => peer'[p].session.sending_key # NoKey
    BY SMT, <1>v, <2>1 DEF Kept, KeysKept, ValidKept, Kdf2, NoKey
  <2> QED
    BY <2>2, <2>3 DEF InstallInv
<1>13. CASE RecvKeepalive
  BY <1>13, <1>a, <1>q DEF RecvKeepalive, Goto, Call, Threads, KeysKept, ValidKept,
     IndicesKept
<1>14. CASE ResponseReset
  <2>0. PICK i, r : i = hs["recv"][1] /\ r = hs["recv"][2]
    OBVIOUS
  <2>1. /\ who["recv"] \in Ids
        /\ \A q \in Ids : KeysKept(q) /\ (q # who["recv"] => Kept(q))
        /\ peer[who["recv"]].session.sending_key = Kdf2(i, r, 1)
    BY <1>14, <1>a, <2>0, ResetEffect DEF ResponseReset, InstallInv
  <2>2. pc'["recv"] = "idle"
    BY <1>14, <1>a DEF ResponseReset, Goto, Threads
  <2>3. \A p \in Ids : peer'[p].session.valid => peer'[p].session.sending_key # NoKey
    BY SMT, <1>v, <2>1 DEF Kept, KeysKept, ValidKept, Kdf2, NoKey
  <2> QED
    BY <2>2, <2>3 DEF InstallInv
<1>15. CASE RecvAccept
  <2>1. \A q \in Ids : KeysKept(q) /\ ValidKept(q) /\ IndicesKept(q)
    BY <1>15, <1>a, PrevEffect DEF Kept
  <2> QED
    BY <1>15, <1>a, <1>q, <1>w, <2>1 DEF RecvAccept, Goto, Call, Threads
<1>16. ASSUME NEW p \in Ids, KaCheck(p) PROVE InstallInv'
  BY <1>16, <1>a, <1>q DEF KaCheck, Goto, Call, Threads, KeysKept, ValidKept, IndicesKept
<1>17. ASSUME NEW p \in Ids, Tick(p) PROVE InstallInv'
  <2>1. \A q \in Ids : KeysKept(q) /\ ValidKept(q) /\ IndicesKept(q)
    BY <1>17, <1>a, PrevEffect DEF Kept
  <2> QED
    BY <1>17, <1>a, <1>q, <1>w, <2>1 DEF Tick, Goto, Call, Threads
<1>18. ASSUME NEW p \in Ids, PeerInitiate(p) PROVE InstallInv'
  BY <1>18, <1>a, <1>q DEF PeerInitiate, Goto, Call, Threads, KeysKept, ValidKept,
     IndicesKept
<1>19. ASSUME NEW p \in Ids, NetifOutput(p) PROVE InstallInv'
  BY <1>19, <1>a, <1>q DEF NetifOutput, Goto, Call, Threads, KeysKept, ValidKept,
     IndicesKept
<1>20. ASSUME NEW m \in net, RecvInit(m) PROVE InstallInv'
  BY <1>20, <1>a, <1>q DEF RecvInit, Goto, Call, Threads, KeysKept, ValidKept, IndicesKept
<1>21. ASSUME NEW m \in net, RecvResponse(m) PROVE InstallInv'
  <2>0. PICK p \in Ids :
          /\ \A q \in Ids : KeysKept(q) /\ ValidKept(q)
          /\ peer'[p].session.local_index = m.receiver /\ peer'[p].session.remote_index = m.sender
          /\ \/ /\ hs' = [hs EXCEPT !["recv"] = <<m.receiver, m.sender>>]
                /\ Call("recv", "r_keys", p)
             \/ /\ hs' = hs /\ Goto("recv", "idle")
    BY <1>21, <1>a, ResponseEffect
  <2>1. \A q \in Ids : peer'[q].session.valid => peer'[q].session.sending_key # NoKey
    BY <1>v, <2>0 DEF KeysKept, ValidKept
  <2>2. \/ pc'["recv"] = "r_keys" /\ who'["recv"] = p /\ hs'["recv"] = <<m.receiver, m.sender>>
        \/ pc'["recv"] = "idle"
    BY <1>a, <2>0 DEF Call, Goto, Threads
  <2>3. CASE pc'["recv"] = "idle"
    BY <2>1, <2>3 DEF InstallInv
  <2>4. CASE pc'["recv"] = "r_keys" /\ who'["recv"] = p /\ hs'["recv"] = <<m.receiver, m.sender>>
    BY SMT, <2>0, <2>1, <2>4 DEF InstallInv
  <2> QED
    BY <2>2, <2>3, <2>4
<1>22. ASSUME NEW m \in net, PeerAnswer(m) PROVE InstallInv'
  BY <1>22, <1>a, <1>q DEF PeerAnswer, Goto, Call, Threads, KeysKept, ValidKept, IndicesKept
<1>23. ASSUME NEW idx, RecvMatch(idx) PROVE InstallInv'
  <2>1. \A q \in Ids : KeysKept(q) /\ ValidKept(q) /\ IndicesKept(q)
    BY <1>23, <1>a, PrevEffect DEF Kept
  <2> QED
    BY <1>23, <1>a, <1>q, <1>w, <2>1 DEF RecvMatch, Goto, Call, Threads
<1> QED
  BY <1>1, <1>2, <1>3, <1>4, <1>5, <1>6, <1>7, <1>8, <1>9, <1>10, <1>11, <1>12,
     <1>13, <1>14, <1>15, <1>16, <1>17, <1>18, <1>19, <1>20, <1>21, <1>22, <1>23 DEF
     Next, LoopStep, KaStep, RecvStep, Threads

\* A step preserves that sessions are of one piece.
LEMMA CoherentStep == PeersInv /\ Next => PeerCoherent'
<1> SUFFICES ASSUME PeersInv, Next, ~raced' PROVE PeerCoherent'
  BY DEF PeerCoherent
<1>a. /\ TypeOK /\ ~raced /\ PeerCoherent /\ InstallInv /\ hs \in [Threads -> Index \X Index]
      /\ DOMAIN pc = Threads /\ DOMAIN who = Threads /\ pc["ka"] \notin Installing
  BY DEF PeersInv, Next, TypeOK, PlacesOK, Installing, Counted
<1>w. /\ \A t \in Threads : pc[t] # "idle" => who[t] \in Ids
      /\ Configured \subseteq Ids
  BY <1>a, Working
<1>c. \A p \in Ids : peer[p].session.valid /\ ~(who["recv"] = p /\ pc["recv"] \in Installing) =>
        Whole(peer[p].session)
  BY <1>a DEF PeerCoherent, Elsewhere, Threads
<1>r. ASSUME \A p \in Ids : peer'[p].session.valid
               /\ ~(who'["recv"] = p /\ pc'["recv"] \in Installing) => Whole(peer'[p].session)
      PROVE  PeerCoherent'
  BY <1>r DEF PeerCoherent, Elsewhere, Threads
<1>k. \A p \in Ids : KeysKept(p) /\ IndicesKept(p) /\ Whole(peer[p].session) =>
        Whole(peer'[p].session)
  BY DEF Whole, KeysKept, IndicesKept
<1>q. ASSUME \A p \in Ids : KeysKept(p) /\ IndicesKept(p) /\ ValidKept(p),
             pc["recv"] \in Installing => pc'["recv"] \in Installing /\ who'["recv"] = who["recv"]
      PROVE  PeerCoherent'
  BY <1>c, <1>k, <1>q, <1>r DEF ValidKept
<1>1. CASE AddPeer
  BY <1>1, <1>a, <1>q DEF AddPeer, Goto, Call, Installing, Threads, KeysKept, ValidKept,
     IndicesKept
<1>2. CASE HandshakeInitPeer
  <2>1. \A q \in Ids : KeysKept(q) /\ ValidKept(q) /\ (q # who["loop"] => IndicesKept(q))
    BY <1>2, <1>a, InitEffect
  <2>2. ~peer[who["loop"]].session.valid
    BY <1>2 DEF HandshakeInitPeer
  <2>3. pc'["recv"] = pc["recv"] /\ who' = who
    BY <1>2, <1>a DEF HandshakeInitPeer, Goto, Threads
  <2> QED
    BY <1>c, <1>k, <1>r, <2>1, <2>2, <2>3 DEF ValidKept
<1>3. CASE InitSend
  BY <1>3, <1>a, <1>q DEF InitSend, Goto, Call, Installing, Threads, KeysKept, ValidKept,
     IndicesKept
<1>4. CASE InitSave
  <2>1. \A q \in Ids : KeysKept(q) /\ IndicesKept(q) /\ ValidKept(q)
    BY <1>4, <1>a, SaveEffect
  <2> QED
    BY <1>4, <1>a, <1>q, <2>1 DEF InitSave, Goto, Call, Installing, Threads
<1>5. CASE SendCheck
  BY <1>5, <1>a, <1>q DEF SendCheck, Goto, Call, Installing, Threads, KeysKept, ValidKept,
     IndicesKept
<1>6. ASSUME NEW t \in {"loop", "ka", "recv"}, SendLock(t) PROVE PeerCoherent'
  BY <1>6, <1>a, <1>q DEF SendLock, Goto, Call, Installing, Threads, KeysKept, ValidKept,
     IndicesKept
<1>7. ASSUME NEW t \in Threads, StoreCounter(t) PROVE PeerCoherent'
  <2>1. \A q \in Ids : KeysKept(q) /\ IndicesKept(q) /\ ValidKept(q)
    BY <1>7, <1>a, StoreEffect
  <2> QED
    BY <1>7, <1>a, <1>q, <2>1 DEF StoreCounter, Goto, Call, Installing, Threads
<1>8. ASSUME NEW t \in Threads, Encrypt(t) PROVE PeerCoherent'
  BY <1>8, <1>a, <1>q DEF Encrypt, Goto, Call, Installing, Threads, KeysKept, ValidKept,
     IndicesKept
<1>9. CASE KaWipe
  <2>1. /\ who["ka"] \in Ids /\ peer'[who["ka"]].session.valid = FALSE
        /\ \A q \in Ids : q # who["ka"] => Kept(q)
    BY SMT, <1>9, <1>a, WipeEffect DEF ZeroSession
  <2>2. pc'["recv"] = pc["recv"] /\ who'["recv"] = who["recv"]
    BY <1>9, <1>a DEF KaWipe, Goto, Threads
  <2> QED
    BY <1>c, <1>k, <1>r, <2>1, <2>2 DEF Kept, ValidKept
<1>10. CASE PassiveRotate
  <2>1. \A q \in Ids : KeysKept(q) /\ IndicesKept(q) /\ ValidKept(q)
    BY <1>10, <1>a, PrevEffect DEF Kept
  <2> QED
    BY <1>10, <1>a, <1>q, <2>1 DEF PassiveRotate, Goto, Call, Installing, Threads
<1>11. CASE SetKeys
  <2>0. PICK i, r : i = hs["recv"][1] /\ r = hs["recv"][2]
    OBVIOUS
  <2>1. \A q \in Ids : IndicesKept(q) /\ ValidKept(q) /\ (q # who["recv"] => KeysKept(q))
    BY <1>11, <1>a, <2>0, KeysEffect
  <2>2. who' = who /\ pc["recv"] \in Installing /\ pc'["recv"] \in Installing
    BY <1>11, <1>a DEF SetKeys, Goto, Installing, Threads
  <2> QED
    BY <1>c, <1>k, <1>r, <2>1, <2>2 DEF ValidKept
<1>12. CASE PassiveReset
  <2>0. PICK i, r : i = hs["recv"][1] /\ r = hs["recv"][2]
    OBVIOUS
  <2>1. /\ who["recv"] \in Ids
        /\ \A q \in Ids : q # who["recv"] => Kept(q)
        /\ peer'[who["recv"]].session.sending_key = Kdf2(i, r, 2)
        /\ peer'[who["recv"]].session.receiving_key = Kdf2(i, r, 1)
        /\ peer'[who["recv"]].session.local_index = r
        /\ peer'[who["recv"]].session.remote_index = i
    BY <1>12, <1>a, <2>0, PassiveEffect DEF PassiveReset, InstallInv, KeysKept, IndicesKept
  <2>2. i \in Nat /\ r \in Nat
    BY SMT, <1>a, <2>0 DEF Index, Threads, TypeOK
  <2>3. Whole(peer'[who["recv"]].session)
    BY SMT, <2>1, <2>2 DEF Whole, Kdf2, NoKey
  <2> QED
    BY <1>c, <1>k, <1>r, <2>1, <2>3 DEF Kept, ValidKept
<1>13. CASE RecvKeepalive
  BY <1>13, <1>a, <1>q DEF RecvKeepalive, Goto, Call, Installing, Threads, KeysKept,
     ValidKept, IndicesKept
<1>14. CASE ResponseReset
  <2>0. PICK i, r : i = hs["recv"][1] /\ r = hs["recv"][2]
    OBVIOUS
  <2>1. /\ who["recv"] \in Ids
        /\ \A q \in Ids : q # who["recv"] => Kept(q)
        /\ peer'[who["recv"]].session.sending_key = Kdf2(i, r, 1)
        /\ peer'[who["recv"]].session.receiving_key = Kdf2(i, r, 2)
        /\ peer'[who["recv"]].session.local_index = i
        /\ peer'[who["recv"]].session.remote_index = r
    BY <1>14, <1>a, <2>0, ResetEffect DEF ResponseReset, InstallInv, KeysKept, IndicesKept
  <2>2. i \in Nat /\ r \in Nat
    BY SMT, <1>a, <2>0 DEF Index, Threads, TypeOK
  <2>3. Whole(peer'[who["recv"]].session)
    BY SMT, <2>1, <2>2 DEF Whole, Kdf2, NoKey
  <2> QED
    BY <1>c, <1>k, <1>r, <2>1, <2>3 DEF Kept, ValidKept
<1>15. CASE RecvAccept
  <2>1. \A q \in Ids : KeysKept(q) /\ IndicesKept(q) /\ ValidKept(q)
    BY <1>15, <1>a, PrevEffect DEF Kept
  <2> QED
    BY <1>15, <1>a, <1>q, <2>1 DEF RecvAccept, Goto, Call, Installing, Threads
<1>16. ASSUME NEW p \in Ids, KaCheck(p) PROVE PeerCoherent'
  BY <1>16, <1>a, <1>q DEF KaCheck, Goto, Call, Installing, Threads, KeysKept, ValidKept,
     IndicesKept
<1>17. ASSUME NEW p \in Ids, Tick(p) PROVE PeerCoherent'
  <2>1. \A q \in Ids : KeysKept(q) /\ IndicesKept(q) /\ ValidKept(q)
    BY <1>17, <1>a, PrevEffect DEF Kept
  <2> QED
    BY <1>17, <1>a, <1>q, <2>1 DEF Tick, Goto, Call, Installing, Threads
<1>18. ASSUME NEW p \in Ids, PeerInitiate(p) PROVE PeerCoherent'
  BY <1>18, <1>a, <1>q DEF PeerInitiate, Goto, Call, Installing, Threads, KeysKept,
     ValidKept, IndicesKept
<1>19. ASSUME NEW p \in Ids, NetifOutput(p) PROVE PeerCoherent'
  BY <1>19, <1>a, <1>q DEF NetifOutput, Goto, Call, Installing, Threads, KeysKept,
     ValidKept, IndicesKept
<1>20. ASSUME NEW m \in net, RecvInit(m) PROVE PeerCoherent'
  BY <1>20, <1>a, <1>q DEF RecvInit, Goto, Call, Installing, Threads, KeysKept, ValidKept,
     IndicesKept
<1>21. ASSUME NEW m \in net, RecvResponse(m) PROVE PeerCoherent'
  <2>0. PICK p \in Ids :
          /\ p \in Answered(m)
          /\ \A q \in Ids : ValidKept(q) /\ (q # p => Kept(q))
    BY <1>21, <1>a, ResponseEffect
  <2>1. ~peer[p].session.valid /\ pc["recv"] = "idle"
    BY <1>21, <2>0 DEF Answered, RecvResponse
  <2> QED
    BY <1>c, <1>k, <1>r, <2>0, <2>1 DEF Kept, ValidKept, Installing
<1>22. ASSUME NEW m \in net, PeerAnswer(m) PROVE PeerCoherent'
  BY <1>22, <1>a, <1>q DEF PeerAnswer, Goto, Call, Installing, Threads, KeysKept,
     ValidKept, IndicesKept
<1>23. ASSUME NEW idx, RecvMatch(idx) PROVE PeerCoherent'
  <2>1. \A q \in Ids : KeysKept(q) /\ IndicesKept(q) /\ ValidKept(q)
    BY <1>23, <1>a, PrevEffect DEF Kept
  <2> QED
    BY <1>23, <1>a, <1>q, <2>1 DEF RecvMatch, Goto, Call, Installing, Threads
<1> QED
  BY <1>1, <1>2, <1>3, <1>4, <1>5, <1>6, <1>7, <1>8, <1>9, <1>10, <1>11, <1>12,
     <1>13, <1>14, <1>15, <1>16, <1>17, <1>18, <1>19, <1>20, <1>21, <1>22, <1>23 DEF
     Next, LoopStep, KaStep, RecvStep, Threads

\* A step that changes nothing preserves the invariant.
LEMMA PeersStutter == PeersInv /\ UNCHANGED vars => PeersInv'
<1> SUFFICES ASSUME PeersInv, UNCHANGED vars PROVE PeersInv'
  OBVIOUS
<1>1. TypeOK'
  BY ZenonT(40) DEF PeersInv, vars, TypeOK, PlacesOK, Entry, Session, Key, Index, MsgOK
<1>2. PeerCoherent'
  BY DEF PeersInv, vars, PeerCoherent, Elsewhere
<1>3. ~raced' => HandshakesFresh' /\ CountersInv' /\ InstallInv'
  <2> SUFFICES ASSUME ~raced' PROVE HandshakesFresh' /\ CountersInv' /\ InstallInv'
    OBVIOUS
  <2>1. HandshakesFresh'
    BY DEF PeersInv, vars, HandshakesFresh, Unused, DataOf
  <2>2. CountersInv'
    BY DEF PeersInv, vars, CountersInv, DataOf
  <2>3. InstallInv'
    BY DEF PeersInv, vars, InstallInv
  <2> QED
    BY <2>1, <2>2, <2>3
<1> QED
  BY <1>1, <1>2, <1>3 DEF PeersInv

\* The empty table satisfies the invariant.
LEMMA PeersInit == Init => PeersInv
<1> SUFFICES ASSUME Init PROVE PeersInv
  OBVIOUS
<1>a. /\ nextId = 1 /\ peer = [p \in Ids |-> ZeroPeer] /\ pc = [t \in Threads |-> "idle"]
      /\ who = [t \in Threads |-> 0] /\ net = {} /\ peer_count = 0
  BY DEF Init
<1>b. WG_MAX_PEERS \in Nat
  BY PeersAssumption
<1>1. TypeOK
  <2>1. Index = {0}
    BY SMT, <1>a DEF Index
  <2>2. ZeroPeer \in Entry
    BY SMT, <2>1 DEF ZeroPeer, ZeroSession, NoKey, Kdf2, Entry, Session, Key
  <2>3. PlacesOK
    BY SMT, <1>a DEF Init, PlacesOK, Counted, Installing, Threads
  <2>4. peer \in [Ids -> Entry]
    BY <1>a, <2>2
  <2>5. hs \in [Threads -> Index \X Index] /\ tx \in [Threads -> Nat]
    BY <2>1 DEF Init
  <2>6. pc["loop"] \notin {"init_send", "init_save"}
    BY <1>a DEF Threads
  <2>7. peer_count \in 0 .. WG_MAX_PEERS /\ nextId \in Nat \ {0}
    BY SMT, <1>a, <1>b
  <2> QED
    BY <1>a, <2>3, <2>4, <2>5, <2>6, <2>7 DEF Init, TypeOK
<1>2. \A p \in Ids : ~peer[p].session.valid /\ peer[p].pending_hs = 0
  BY <1>a DEF ZeroPeer, ZeroSession
<1>3. \A t \in Threads : pc[t] = "idle"
  BY <1>a
<1>4. HandshakesFresh
  BY <1>2, <1>3 DEF HandshakesFresh, Installing, Threads
<1>5. CountersInv
  BY <1>a, <1>3 DEF CountersInv, DataOf, Counted, Sending
<1>6. InstallInv
  BY <1>2, <1>3 DEF InstallInv, Threads
<1>7. PeerCoherent
  BY <1>2 DEF PeerCoherent
<1> QED
  BY <1>1, <1>4, <1>5, <1>6, <1>7 DEF PeersInv

\* Every step preserves the invariant.
LEMMA PeersStep == PeersInv /\ Next => PeersInv'
BY TypeStep, FreshStep, CountersStep, InstallStep, CoherentStep DEF PeersInv

\* The invariant of the peer table holds for every number of peers and handshakes:
\* entries in range and of one piece, and, until two threads have overlapped on a
\* peer, every handshake and every counter a new one.
THEOREM PeersInvariant == Spec => []PeersInv
<1>1. PeersInv /\ [Next]_vars => PeersInv'
  BY PeersStep, PeersStutter
<1> QED
  BY PeersInit, <1>1, PTL DEF Spec

\* The session of a peer that no thread is installing is of one piece: its two keys
\* are the two outputs of wg_kdf2 for one handshake and its local index is the one
\* the peer addresses, unless wg_netif_output or the wipe hit it in use.
THEOREM PeersOfOnePiece == Spec => []PeerCoherent
<1>1. PeersInv => PeerCoherent
  BY DEF PeersInv
<1> QED
  BY PeersInvariant, <1>1, PTL

\* The packet a step encrypts has a key and counter of its own, unless two threads
\* have overlapped.
LEMMA NonceStep == PeersInv /\ NonceUnique /\ Next => NonceUnique'
<1> SUFFICES ASSUME PeersInv, NonceUnique, Next, ~raced' PROVE ~reused'
  BY DEF NonceUnique
<1>a. ~reused /\ ~raced /\ TypeOK /\ CountersInv
  BY DEF NonceUnique, PeersInv, Next
<1>1. CASE AddPeer
  BY <1>1, <1>a DEF AddPeer
<1>2. CASE HandshakeInitPeer
  BY <1>2, <1>a DEF HandshakeInitPeer
<1>3. CASE InitSend
  BY <1>3, <1>a DEF InitSend
<1>4. CASE InitSave
  BY <1>4, <1>a DEF InitSave
<1>5. CASE SendCheck
  BY <1>5, <1>a DEF SendCheck
<1>6. ASSUME NEW t \in {"loop", "ka", "recv"}, SendLock(t) PROVE ~reused'
  BY <1>6, <1>a DEF SendLock
<1>7. ASSUME NEW t \in Threads, StoreCounter(t) PROVE ~reused'
  BY <1>7, <1>a DEF StoreCounter
<1>8. ASSUME NEW t \in Threads, Encrypt(t) PROVE ~reused'
  <2>1. who[t] \in Ids /\ pc[t] = "encrypt"
    BY <1>8, <1>a, Working DEF Encrypt
  <2>2. PICK m : m = Data(who[t], peer[who[t]].session.sending_key, tx[t])
    OBVIOUS
  <2>3. m \in net => m \in DataOf(who[t])
    BY <2>2 DEF DataOf, Data
  <2>4. m \notin net
    BY <1>a, <2>1, <2>2, <2>3 DEF CountersInv, Data
  <2> QED
    BY <1>8, <1>a, <2>2, <2>4 DEF Encrypt
<1>9. CASE KaWipe
  BY <1>9, <1>a DEF KaWipe
<1>10. CASE PassiveRotate
  BY <1>10, <1>a DEF PassiveRotate
<1>11. CASE SetKeys
  BY <1>11, <1>a DEF SetKeys
<1>12. CASE PassiveReset
  BY <1>12, <1>a DEF PassiveReset
<1>13. CASE RecvKeepalive
  BY <1>13, <1>a DEF RecvKeepalive
<1>14. CASE ResponseReset
  BY <1>14, <1>a DEF ResponseReset
<1>15. CASE RecvAccept
  BY <1>15, <1>a DEF RecvAccept
<1>16. ASSUME NEW p \in Ids, KaCheck(p) PROVE ~reused'
  BY <1>16, <1>a DEF KaCheck
<1>17. ASSUME NEW p \in Ids, Tick(p) PROVE ~reused'
  BY <1>17, <1>a DEF Tick
<1>18. ASSUME NEW p \in Ids, PeerInitiate(p) PROVE ~reused'
  BY <1>18, <1>a DEF PeerInitiate
<1>19. ASSUME NEW p \in Ids, NetifOutput(p) PROVE ~reused'
  BY <1>19, <1>a DEF NetifOutput
<1>20. ASSUME NEW m \in net, RecvInit(m) PROVE ~reused'
  BY <1>20, <1>a DEF RecvInit
<1>21. ASSUME NEW m \in net, RecvResponse(m) PROVE ~reused'
  BY <1>21, <1>a DEF RecvResponse
<1>22. ASSUME NEW m \in net, PeerAnswer(m) PROVE ~reused'
  BY <1>22, <1>a DEF PeerAnswer
<1>23. ASSUME NEW idx, RecvMatch(idx) PROVE ~reused'
  BY <1>23, <1>a DEF RecvMatch
<1> QED
  BY <1>1, <1>2, <1>3, <1>4, <1>5, <1>6, <1>7, <1>8, <1>9, <1>10, <1>11, <1>12,
     <1>13, <1>14, <1>15, <1>16, <1>17, <1>18, <1>19, <1>20, <1>21, <1>22, <1>23 DEF
     Next, LoopStep, KaStep, RecvStep, Threads

\* The packet a step encrypts is not under a wiped key, unless the wipe overlapped
\* with the sender.
LEMMA KeyStep == PeersInv /\ NoZeroKey /\ Next => NoZeroKey'
<1> SUFFICES ASSUME PeersInv, NoZeroKey, Next, ~raced', NEW x \in net', x.type = "data"
             PROVE  x.key # NoKey
  BY DEF NoZeroKey
<1>a. /\ ~raced /\ TypeOK /\ CountersInv
      /\ x \in net => x.key # NoKey
  BY DEF NoZeroKey, PeersInv, Next
<1>1. CASE AddPeer
  BY <1>1, <1>a DEF AddPeer
<1>2. CASE HandshakeInitPeer
  BY <1>2, <1>a DEF HandshakeInitPeer
<1>3. CASE InitSend
  BY SMT, <1>3, <1>a DEF InitSend, Msg
<1>4. CASE InitSave
  BY <1>4, <1>a DEF InitSave
<1>5. CASE SendCheck
  BY <1>5, <1>a DEF SendCheck
<1>6. ASSUME NEW t \in {"loop", "ka", "recv"}, SendLock(t) PROVE x.key # NoKey
  BY <1>6, <1>a DEF SendLock
<1>7. ASSUME NEW t \in Threads, StoreCounter(t) PROVE x.key # NoKey
  BY <1>7, <1>a DEF StoreCounter
<1>8. ASSUME NEW t \in Threads, Encrypt(t) PROVE x.key # NoKey
  <2>1. peer[who[t]].session.sending_key # NoKey
    BY <1>8, <1>a DEF Encrypt, CountersInv, Sending
  <2> QED
    BY SMT, <1>8, <1>a, <2>1 DEF Encrypt, Data
<1>9. CASE KaWipe
  BY <1>9, <1>a DEF KaWipe
<1>10. CASE PassiveRotate
  BY <1>10, <1>a DEF PassiveRotate
<1>11. CASE SetKeys
  BY <1>11, <1>a DEF SetKeys
<1>12. CASE PassiveReset
  BY SMT, <1>12, <1>a DEF PassiveReset, Msg
<1>13. CASE RecvKeepalive
  BY <1>13, <1>a DEF RecvKeepalive
<1>14. CASE ResponseReset
  BY <1>14, <1>a DEF ResponseReset
<1>15. CASE RecvAccept
  BY <1>15, <1>a DEF RecvAccept
<1>16. ASSUME NEW p \in Ids, KaCheck(p) PROVE x.key # NoKey
  BY <1>16, <1>a DEF KaCheck
<1>17. ASSUME NEW p \in Ids, Tick(p) PROVE x.key # NoKey
  BY <1>17, <1>a DEF Tick
<1>18. ASSUME NEW p \in Ids, PeerInitiate(p) PROVE x.key # NoKey
  BY SMT, <1>18, <1>a DEF PeerInitiate, Msg
<1>19. ASSUME NEW p \in Ids, NetifOutput(p) PROVE x.key # NoKey
  BY <1>19, <1>a DEF NetifOutput
<1>20. ASSUME NEW m \in net, RecvInit(m) PROVE x.key # NoKey
  BY <1>20, <1>a DEF RecvInit
<1>21. ASSUME NEW m \in net, RecvResponse(m) PROVE x.key # NoKey
  BY <1>21, <1>a DEF RecvResponse
<1>22. ASSUME NEW m \in net, PeerAnswer(m) PROVE x.key # NoKey
  BY SMT, <1>22, <1>a DEF PeerAnswer, Msg
<1>23. ASSUME NEW idx, RecvMatch(idx) PROVE x.key # NoKey
  BY <1>23, <1>a DEF RecvMatch
<1> QED
  BY <1>1, <1>2, <1>3, <1>4, <1>5, <1>6, <1>7, <1>8, <1>9, <1>10, <1>11, <1>12,
     <1>13, <1>14, <1>15, <1>16, <1>17, <1>18, <1>19, <1>20, <1>21, <1>22, <1>23 DEF
     Next, LoopStep, KaStep, RecvStep, Threads

\* wg_send_to_peer and wg_send_keepalive_to_peer use no key and counter of a peer
\* twice, unless the receive thread's keepalive or install, which do not lock
\* send_mutex, overlapped with a sender on the same peer.
THEOREM NoncesAreUnique == Spec => []NonceUnique
<1>1. Init => NonceUnique
  BY DEF Init, NonceUnique
<1>2. PeersInv /\ NonceUnique /\ [Next]_vars => NonceUnique'
  BY NonceStep DEF vars, NonceUnique
<1> QED
  BY PeersInvariant, <1>1, <1>2, PTL DEF Spec

\* No packet goes out under a wiped key, unless the keepalive thread wiped the
\* session after the sender had tested it.
THEOREM NothingUnderWipedKey == Spec => []NoZeroKey
<1>1. Init => NoZeroKey
  BY DEF Init, NoZeroKey
<1>2. PeersInv /\ NoZeroKey /\ [Next]_vars => NoZeroKey'
  BY SMT, KeyStep DEF vars, NoZeroKey
<1> QED
  BY PeersInvariant, <1>1, <1>2, PTL DEF Spec
=============================================================================
