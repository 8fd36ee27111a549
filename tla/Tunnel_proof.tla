---------------------------- MODULE Tunnel_proof ----------------------------
(***************************************************************************)
(* Proofs about Tunnel, for any number of attempts, calls and packets and  *)
(* any scenario: TunnelInv is inductive.  Why a nonce or a packet is never *)
(* used twice rests on one idea: the pair of indices that names a          *)
(* handshake is fresh, so until its reset no counter, window, packet or    *)
(* session belongs to it (HandshakesFresh, OwnersPast, KeysPast).          *)
(***************************************************************************)
EXTENDS Tunnel, TLAPS

USE ZenonT(30)

-----------------------------------------------------------------------------
(* Types: indices are drawn upwards, so the sets of indices, keys, sessions *)
(* and messages grow.                                                       *)

\* Intervals of naturals grow with their end.
LEMMA Below == \A k, n \in Nat : n >= k => 0 .. k - 1 \subseteq 0 .. n - 1
BY SMT

\* When indices have been drawn, what was an index, a key, a session or a message
\* still is one.
LEMMA Grow ==
  ASSUME nextId \in Nat, nextId' \in Nat, nextId' >= nextId
  PROVE  /\ Ids \subseteq Ids' /\ KeySet \subseteq KeySet' /\ Session \subseteq Session'
         /\ \A m : MsgOK(m) => MsgOK(m)'
<1>1. Ids \subseteq Ids'
  BY Below DEF Ids
<1>2. KeySet \subseteq KeySet'
  BY <1>1 DEF KeySet
<1>3. Session \subseteq Session'
  BY <1>1, <1>2 DEF Session
<1>4. ASSUME NEW m, MsgOK(m) PROVE MsgOK(m)'
  BY <1>1, <1>2, <1>4 DEF MsgOK
<1> QED
  BY <1>1, <1>2, <1>3, <1>4

\* No step takes an index or a message back.
LEMMA Grows ==
  ASSUME nextId \in Nat \ {0}, Next
  PROVE  nextId' \in Nat \ {0} /\ nextId' >= nextId /\ net \subseteq net'
<1>1. CASE Connect
  BY SMT, <1>1 DEF Connect
<1>2. CASE Rekey
  BY SMT, <1>2 DEF Rekey
<1>3. CASE Start
  BY SMT, <1>3 DEF Start
<1>4. CASE Stop
  BY SMT, <1>4 DEF Stop
<1>5. CASE HandshakeInit
  BY SMT, <1>5 DEF HandshakeInit
<1>6. CASE SendInit
  <2>1. net \subseteq net'
    BY <1>6 DEF SendInit
  <2>2. nextId' = nextId \/ nextId' = nextId + 1
    BY <1>6 DEF SendInit
  <2> QED
    BY SMT, <2>1, <2>2
<1>7. CASE Timeout
  BY SMT, <1>7 DEF Timeout, Continue
<1>8. CASE RekeyWake
  BY SMT, <1>8 DEF RekeyWake, Continue
<1>9. ASSUME NEW m \in ToTunnel, ConnectReceive(m)
      PROVE  nextId' \in Nat \ {0} /\ nextId' >= nextId /\ net \subseteq net'
  BY SMT, <1>9 DEF ConnectReceive, Continue
<1>10. CASE ResponseCheck
  BY SMT, <1>10 DEF ResponseCheck, Continue
<1>11. CASE ResponseRotate
  BY SMT, <1>11 DEF ResponseRotate
<1>12. CASE ResponseKeys
  BY SMT, <1>12 DEF ResponseKeys
<1>13. CASE ResponseReset
  BY SMT, <1>13 DEF ResponseReset
<1>14. ASSUME NEW t \in {"ctl", "recv"}, PassiveRotate(t)
       PROVE  nextId' \in Nat \ {0} /\ nextId' >= nextId /\ net \subseteq net'
  BY SMT, <1>14 DEF PassiveRotate
<1>15. ASSUME NEW t \in {"ctl", "recv"}, PassiveKeys(t)
       PROVE  nextId' \in Nat \ {0} /\ nextId' >= nextId /\ net \subseteq net'
  BY SMT, <1>15 DEF PassiveKeys
<1>16. ASSUME NEW t \in {"ctl", "recv"}, PassiveReset(t)
       PROVE  nextId' \in Nat \ {0} /\ nextId' >= nextId /\ net \subseteq net'
  <2>1. net \subseteq net'
    BY <1>16 DEF PassiveReset
  <2>2. nextId' = nextId \/ nextId' = nextId + 1
    BY <1>16 DEF PassiveReset
  <2> QED
    BY SMT, <2>1, <2>2
<1>17. CASE ReturnError
  BY SMT, <1>17 DEF ReturnError
<1>18. CASE KeepaliveCounter
  BY SMT, <1>18 DEF KeepaliveCounter, TakeCounter
<1>19. CASE KeepaliveEncrypt
  BY SMT, <1>19 DEF KeepaliveEncrypt, Encrypt
<1>20. ASSUME NEW m \in ToTunnel, RecvHandshake(m)
       PROVE  nextId' \in Nat \ {0} /\ nextId' >= nextId /\ net \subseteq net'
  BY SMT, <1>20 DEF RecvHandshake
<1>21. ASSUME NEW m \in ToTunnel, RecvMatch(m)
       PROVE  nextId' \in Nat \ {0} /\ nextId' >= nextId /\ net \subseteq net'
  BY SMT, <1>21 DEF RecvMatch
<1>22. CASE RecvDecrypt
  BY SMT, <1>22 DEF RecvDecrypt
<1>23. CASE RecvValidate
  BY SMT, <1>23 DEF RecvValidate
<1>24. ASSUME NEW m \in ToTunnel, Recv(m)
       PROVE  nextId' \in Nat \ {0} /\ nextId' >= nextId /\ net \subseteq net'
  BY SMT, <1>24 DEF Recv
<1>25. CASE SendCheck
  BY SMT, <1>25 DEF SendCheck
<1>26. CASE SendCounter
  BY SMT, <1>26 DEF SendCounter, TakeCounter
<1>27. CASE SendEncrypt
  BY SMT, <1>27 DEF SendEncrypt, Encrypt
<1>28. CASE ZeroKeys
  BY SMT, <1>28 DEF ZeroKeys
<1>29. CASE Tick
  BY SMT, <1>29 DEF Tick
<1>30. ASSUME NEW m \in net, PeerAnswer(m)
       PROVE  nextId' \in Nat \ {0} /\ nextId' >= nextId /\ net \subseteq net'
  <2>1. net \subseteq net'
    BY <1>30 DEF PeerAnswer
  <2>2. nextId' = nextId \/ nextId' = nextId + 1
    BY <1>30 DEF PeerAnswer
  <2> QED
    BY SMT, <2>1, <2>2
<1>31. ASSUME NEW m \in net, PeerAdopt(m)
       PROVE  nextId' \in Nat \ {0} /\ nextId' >= nextId /\ net \subseteq net'
  BY SMT, <1>31 DEF PeerAdopt
<1>32. CASE PeerInitiate
  BY SMT, <1>32 DEF PeerInitiate
<1>33. CASE PeerSend
  BY SMT, <1>33 DEF PeerSend
<1>34. CASE KeepaliveStore
  BY SMT, <1>34 DEF KeepaliveStore
<1>35. CASE SendStore
  BY SMT, <1>35 DEF SendStore
<1> QED
  BY <1>1, <1>2, <1>3, <1>4, <1>5, <1>6, <1>7, <1>8, <1>9, <1>10, <1>11, <1>12,
     <1>13, <1>14, <1>15, <1>16, <1>17, <1>18, <1>19, <1>20, <1>21, <1>22, <1>23,
     <1>24, <1>25, <1>26, <1>27, <1>28, <1>29, <1>30, <1>31, <1>32, <1>33, <1>34, <1>35
     DEF Next, ControlStep, RecvStep, SenderStep, Peer

\* Each thread stays on the places of its own code, and the receive thread has one
\* exactly while tun->running is set.
LEMMA PcStep == TypeOK /\ Next => PcOK'
<1> SUFFICES ASSUME TypeOK, Next PROVE PcOK'
  OBVIOUS
<1> USE DEF TypeOK, PcOK, Threads, Looping, Awaiting, Completing, Mixing, Installing
<1>1. CASE Connect
  BY <1>1 DEF Connect, Goto
<1>2. CASE Rekey
  BY <1>2 DEF Rekey, Goto
<1>3. CASE Start
  BY <1>3 DEF Start, Goto
<1>4. CASE Stop
  BY <1>4 DEF Stop, Goto
<1>5. CASE HandshakeInit
  BY <1>5 DEF HandshakeInit, Goto
<1>6. CASE SendInit
  <2>1. started' = started /\ (Goto("ctl", "wait") \/ Goto("ctl", "finish"))
    BY <1>6 DEF SendInit
  <2> QED
    BY ZenonT(40), <2>1 DEF Goto
<1>7. CASE Timeout
  BY <1>7 DEF Timeout, Continue, Goto
<1>8. CASE RekeyWake
  BY ZenonT(40), <1>8 DEF RekeyWake, Continue, Goto
<1>9. ASSUME NEW m \in ToTunnel, ConnectReceive(m) PROVE PcOK'
  BY SMT, <1>9 DEF ConnectReceive, Continue, Goto
<1>10. CASE ResponseCheck
  BY SMT, <1>10 DEF ResponseCheck, Continue, Goto
<1>11. CASE ResponseRotate
  BY <1>11 DEF ResponseRotate, Goto
<1>12. CASE ResponseKeys
  BY <1>12 DEF ResponseKeys, Goto
<1>13. CASE ResponseReset
  BY <1>13 DEF ResponseReset, Goto
<1>14. ASSUME NEW t \in {"ctl", "recv"}, PassiveRotate(t) PROVE PcOK'
  BY <1>14 DEF PassiveRotate, Goto
<1>15. ASSUME NEW t \in {"ctl", "recv"}, PassiveKeys(t) PROVE PcOK'
  BY <1>15 DEF PassiveKeys, Goto
<1>16. ASSUME NEW t \in {"ctl", "recv"}, PassiveReset(t) PROVE PcOK'
  BY <1>16 DEF PassiveReset, Goto
<1>17. CASE ReturnError
  BY <1>17 DEF ReturnError, Goto
<1>18. CASE KeepaliveCounter
  BY <1>18 DEF KeepaliveCounter, TakeCounter, Goto
<1>19. CASE KeepaliveEncrypt
  BY <1>19 DEF KeepaliveEncrypt, Encrypt, Goto
<1>20. ASSUME NEW m \in ToTunnel, RecvHandshake(m) PROVE PcOK'
  BY SMT, <1>20 DEF RecvHandshake, Goto
<1>21. ASSUME NEW m \in ToTunnel, RecvMatch(m) PROVE PcOK'
  BY <1>21 DEF RecvMatch, Goto
<1>22. CASE RecvDecrypt
  BY <1>22 DEF RecvDecrypt, Goto
<1>23. CASE RecvValidate
  BY <1>23 DEF RecvValidate, Goto
<1>24. ASSUME NEW m \in ToTunnel, Recv(m) PROVE PcOK'
  BY <1>24 DEF Recv, Goto
<1>25. CASE SendCheck
  BY <1>25 DEF SendCheck, Goto
<1>26. CASE SendCounter
  BY <1>26 DEF SendCounter, TakeCounter, Goto
<1>27. CASE SendEncrypt
  BY <1>27 DEF SendEncrypt, Encrypt, Goto
<1>28. CASE ZeroKeys
  BY <1>28 DEF ZeroKeys, Goto
<1>29. CASE Tick
  BY <1>29 DEF Tick, Goto
<1>30. ASSUME NEW m \in net, PeerAnswer(m) PROVE PcOK'
  BY <1>30 DEF PeerAnswer, Goto
<1>31. ASSUME NEW m \in net, PeerAdopt(m) PROVE PcOK'
  BY <1>31 DEF PeerAdopt, Goto
<1>32. CASE PeerInitiate
  BY <1>32 DEF PeerInitiate, Goto
<1>33. CASE PeerSend
  BY <1>33 DEF PeerSend, Goto
<1>34. CASE KeepaliveStore
  BY <1>34 DEF KeepaliveStore, StoreCounter, Goto
<1>35. CASE SendStore
  BY <1>35 DEF SendStore, StoreCounter, Goto
<1> QED
  BY ZenonT(40), <1>1, <1>2, <1>3, <1>4, <1>5, <1>6, <1>7, <1>8, <1>9, <1>10, <1>11, <1>12,
     <1>13, <1>14, <1>15, <1>16, <1>17, <1>18, <1>19, <1>20, <1>21, <1>22, <1>23,
     <1>24, <1>25, <1>26, <1>27, <1>28, <1>29, <1>30, <1>31, <1>32, <1>33, <1>34, <1>35
     DEF Next, ControlStep, RecvStep, SenderStep, Peer

\* The zero key and a wiped session are values of their types; a new index is new.
LEMMA Zeros ==
  ASSUME nextId \in Nat \ {0}
  PROVE  /\ 0 \in Ids /\ NoKey \in KeySet /\ ZeroSession \in Session
         /\ nextId' = nextId + 1 => nextId \in Ids' /\ nextId \notin Ids
<1>1. 0 \in Ids /\ (nextId' = nextId + 1 => nextId \in Ids' /\ nextId \notin Ids)
  BY SMT DEF Ids
<1>2. NoKey \in KeySet
  BY SMT, <1>1 DEF NoKey, Kdf2, KeySet
<1> QED
  BY SMT, <1>1, <1>2 DEF ZeroSession, Session

\* Every step leaves values of their types in the fields of both sessions.
LEMMA SessionStep == TypeOK /\ Next => SessionOK'
<1> SUFFICES ASSUME TypeOK, Next PROVE SessionOK'
  OBVIOUS
<1> USE DEF TypeOK, SessionOK
<1>a. /\ Ids \subseteq Ids' /\ KeySet \subseteq KeySet' /\ Session \subseteq Session'
      /\ nextId' \in Nat \ {0}
  BY Grow, Grows DEF NetOK
<1>b. session \in Session' /\ prev \in Session'
  BY <1>a
<1>c. 0 \in Ids' /\ NoKey \in KeySet' /\ ZeroSession \in Session'
  BY <1>a, Zeros DEF NetOK
<1>1. CASE Connect
  BY <1>1, <1>b, <1>c DEF Connect
<1>2. CASE Rekey
  BY <1>2, <1>b, <1>c DEF Rekey
<1>3. CASE Start
  BY <1>3, <1>b, <1>c DEF Start
<1>4. CASE Stop
  BY <1>4, <1>b, <1>c DEF Stop
<1>5. CASE HandshakeInit
  BY <1>5, <1>a, <1>b, Zeros DEF HandshakeInit, Session, NetOK
<1>6. CASE SendInit
  BY <1>6, <1>b, <1>c DEF SendInit
<1>7. CASE Timeout
  BY <1>7, <1>b, <1>c DEF Timeout
<1>8. CASE RekeyWake
  BY <1>8, <1>b, <1>c DEF RekeyWake
<1>9. ASSUME NEW m \in ToTunnel, ConnectReceive(m) PROVE SessionOK'
  BY <1>9, <1>b, <1>c DEF ConnectReceive
<1>10. CASE ResponseCheck
  <2>1. pending.sender \in Ids'
    BY <1>10, <1>a DEF ResponseCheck, LocalsOK, NetOK, MsgOK, ToTunnel
  <2> QED
    BY <1>10, <1>b, <2>1 DEF ResponseCheck, Session
<1>11. CASE ResponseRotate
  BY <1>11, <1>a, <1>b, <1>c DEF ResponseRotate, Session
<1>12. CASE ResponseKeys
  <2>1. hs["ctl"][1] \in Ids' /\ hs["ctl"][2] \in Ids'
    BY <1>a DEF LocalsOK, Threads
  <2>2. /\ Kdf2(hs["ctl"][1], hs["ctl"][2], 1) \in KeySet'
        /\ Kdf2(hs["ctl"][1], hs["ctl"][2], 2) \in KeySet'
    BY SMT, <2>1 DEF Kdf2, KeySet
  <2> QED
    BY <1>12, <1>b, <1>c, <2>2 DEF ResponseKeys, Session
<1>13. CASE ResponseReset
  <2>1. OwnerAfter("ctl") \in KeySet'
    BY <1>a, <1>c DEF OwnerAfter, Session
  <2>2. hs["ctl"][1] \in Ids' /\ hs["ctl"][2] \in Ids'
    BY <1>a DEF LocalsOK, Threads
  <2>3. session' \in Session'
    <3> DEFINE o == OwnerAfter("ctl")
    <3>1. session' = [session EXCEPT !.sending_counter = 0, !.age = 0, !.valid = TRUE,
                                !.replay = {}, !.rekey_in_progress = FALSE,
                                !.owner = o, !.counted = o]
      BY <1>13 DEF ResponseReset
    <3>2. o \in KeySet'
      BY <2>1
    <3>3. 0 \in Nat /\ 0 \in 0 .. 2 /\ {} \in SUBSET Nat
      BY SMT
    <3> HIDE DEF o
    <3> QED
      BY <1>b, <3>1, <3>2, <3>3 DEF Session
  <2> QED
    BY <1>13, <1>b, <2>3 DEF ResponseReset
<1>14. ASSUME NEW t \in {"ctl", "recv"}, PassiveRotate(t) PROVE SessionOK'
  BY <1>14, <1>a, <1>b, <1>c DEF PassiveRotate, Session
<1>15. ASSUME NEW t \in {"ctl", "recv"}, PassiveKeys(t) PROVE SessionOK'
  <2>1. hs[t][1] \in Ids' /\ hs[t][2] \in Ids'
    BY <1>a DEF LocalsOK, Threads
  <2>2. /\ Kdf2(hs[t][1], hs[t][2], 1) \in KeySet'
        /\ Kdf2(hs[t][1], hs[t][2], 2) \in KeySet'
    BY SMT, <2>1 DEF Kdf2, KeySet
  <2> QED
    BY <1>15, <1>b, <1>c, <2>2 DEF PassiveKeys, Session
<1>16. ASSUME NEW t \in {"ctl", "recv"}, PassiveReset(t) PROVE SessionOK'
  <2>1. OwnerAfter(t) \in KeySet'
    BY <1>a, <1>c DEF OwnerAfter, Session
  <2>2. hs[t][1] \in Ids' /\ hs[t][2] \in Ids'
    BY <1>a DEF LocalsOK, Threads
  <2>3. session' \in Session'
    <3> DEFINE o == OwnerAfter(t)
    <3>1. session' = [session EXCEPT !.sending_counter = 0, !.local_index = hs[t][2],
                                !.remote_index = hs[t][1], !.age = 0, !.valid = TRUE,
                                !.rekey_in_progress = FALSE, !.replay = {},
                                !.owner = o, !.counted = o]
      BY <1>16 DEF PassiveReset
    <3>2. o \in KeySet'
      BY <2>1
    <3>3. 0 \in Nat /\ 0 \in 0 .. 2 /\ {} \in SUBSET Nat
      BY SMT
    <3> HIDE DEF o
    <3> QED
      BY <1>b, <2>2, <3>1, <3>2, <3>3 DEF Session
  <2> QED
    BY <1>16, <1>b, <2>3 DEF PassiveReset
<1>17. CASE ReturnError
  <2>1. call.saved_local_index \in Ids'
    BY <1>a DEF LocalsOK, CallSet
  <2> QED
    BY <1>17, <1>b, <2>1 DEF ReturnError, Session
<1>18. CASE KeepaliveCounter
  BY SMT, <1>18, <1>a, <1>b, <1>c DEF KeepaliveCounter, TakeCounter, Session
<1>19. CASE KeepaliveEncrypt
  BY <1>19, <1>b, <1>c DEF KeepaliveEncrypt
<1>20. ASSUME NEW m \in ToTunnel, RecvHandshake(m) PROVE SessionOK'
  BY <1>20, <1>b, <1>c DEF RecvHandshake
<1>21. ASSUME NEW m \in ToTunnel, RecvMatch(m) PROVE SessionOK'
  BY <1>21, <1>b, <1>c DEF RecvMatch
<1>22. CASE RecvDecrypt
  BY <1>22, <1>b, <1>c DEF RecvDecrypt
<1>23. CASE RecvValidate
  <2>1. rx.msg.counter \in Nat
    BY <1>23 DEF RecvValidate, LocalsOK, NetOK, MsgOK, ToTunnel
  <2>2. ASSUME NEW s \in Session', NEW n \in Nat PROVE [s EXCEPT !.replay = @ \cup {n}] \in Session'
    BY <2>2 DEF Session
  <2> QED
    BY <1>23, <1>b, <2>1, <2>2 DEF RecvValidate
<1>24. ASSUME NEW m \in ToTunnel, Recv(m) PROVE SessionOK'
  BY SMT, <1>24, <1>a, <1>b, <1>c, TunnelAssumption DEF Recv, Session, NetOK, MsgOK, ToTunnel
<1>25. CASE SendCheck
  BY <1>25, <1>b, <1>c DEF SendCheck
<1>26. CASE SendCounter
  BY SMT, <1>26, <1>a, <1>b, <1>c DEF SendCounter, TakeCounter, Session
<1>27. CASE SendEncrypt
  BY <1>27, <1>b, <1>c DEF SendEncrypt
<1>28. CASE ZeroKeys
  BY <1>28, <1>b, <1>c DEF ZeroKeys
<1>29. CASE Tick
  BY SMT, <1>29, <1>a, <1>b, <1>c DEF Tick, Older, Session
<1>30. ASSUME NEW m \in net, PeerAnswer(m) PROVE SessionOK'
  BY <1>30, <1>b, <1>c DEF PeerAnswer
<1>31. ASSUME NEW m \in net, PeerAdopt(m) PROVE SessionOK'
  BY <1>31, <1>b, <1>c DEF PeerAdopt
<1>32. CASE PeerInitiate
  BY <1>32, <1>b, <1>c DEF PeerInitiate
<1>33. CASE PeerSend
  BY <1>33, <1>b, <1>c DEF PeerSend
<1>34. CASE KeepaliveStore
  BY SMT, <1>34, <1>a, <1>b, <1>c DEF KeepaliveStore, StoreCounter, Session, LocalsOK, TxSet, Threads
<1>35. CASE SendStore
  BY SMT, <1>35, <1>a, <1>b, <1>c DEF SendStore, StoreCounter, Session, LocalsOK, TxSet, Threads
<1> QED
  BY <1>1, <1>2, <1>3, <1>4, <1>5, <1>6, <1>7, <1>8, <1>9, <1>10, <1>11, <1>12,
     <1>13, <1>14, <1>15, <1>16, <1>17, <1>18, <1>19, <1>20, <1>21, <1>22, <1>23,
     <1>24, <1>25, <1>26, <1>27, <1>28, <1>29, <1>30, <1>31, <1>32, <1>33, <1>34, <1>35
     DEF Next, ControlStep, RecvStep, SenderStep, Peer

\* "continue" in the loops of wg_connect and wg_rekey: an attempt more, or the end of
\* the loop with the attempts used up.
LEMMA ContinueStep ==
  ASSUME TypeOK, NEW err \in {"WG_OK", "WG_ERR"}, Continue(err), pc["ctl"] \in Awaiting
  PROVE  /\ call \in CallSet' => call' \in CallSet'
         /\ \/ pc'["ctl"] = "attempt" /\ call'.attempt < WG_MAX_TIMER_HANDSHAKES
            \/ pc'["ctl"] = "finish" /\ call'.attempt = WG_MAX_TIMER_HANDSHAKES
         /\ call'.err = err /\ call'.name = call.name /\ call'.state = call.state
         /\ call'.key = call.key /\ call'.saved_local_index = call.saved_local_index
         /\ pc'["recv"] = pc["recv"] /\ pc'["app"] = pc["app"]
<1> USE TunnelAssumption DEF TypeOK, Continue, Goto
<1>1. call.attempt \in Nat /\ call.attempt < WG_MAX_TIMER_HANDSHAKES
  BY SMT DEF LocalsOK, CallSet, Looping
<1>2. call' = [call EXCEPT !.attempt = call.attempt + 1, !.err = err]
  OBVIOUS
<1>3. call.attempt + 1 \in 0 .. WG_MAX_TIMER_HANDSHAKES
  BY SMT, <1>1
<1>4. call \in CallSet' => call' \in CallSet'
  BY <1>2, <1>3 DEF CallSet
<1>5. /\ call'.err = err /\ call'.name = call.name /\ call'.state = call.state
      /\ call'.key = call.key /\ call'.saved_local_index = call.saved_local_index
      /\ call'.attempt = call.attempt + 1
  BY <1>2 DEF LocalsOK, CallSet
<1>6. pc'["ctl"] = IF call.attempt + 1 < WG_MAX_TIMER_HANDSHAKES THEN "attempt" ELSE "finish"
  BY DEF PcOK, Threads
<1> QED
  BY SMT, <1>1, <1>4, <1>5, <1>6 DEF PcOK, Threads

\* The locals of the threads and the pending response keep their types; wg_rekey reads
\* pending_response only when there is one.
LEMMA LocalsStep == TypeOK /\ Next => LocalsOK'
<1> SUFFICES ASSUME TypeOK, Next PROVE LocalsOK'
  OBVIOUS
<1> USE DEF TypeOK
<1>a. /\ Ids \subseteq Ids' /\ KeySet \subseteq KeySet'
      /\ nextId' \in Nat \ {0} /\ net \subseteq net'
  BY Grow, Grows DEF NetOK
<1>b. 0 \in Ids' /\ NoKey \in KeySet' /\ NoTx \in TxSet' /\ <<0, 0>> \in Ids' \X Ids'
  BY <1>a, Zeros DEF NetOK, NoTx, TxSet
<1>c. /\ call \in CallSet' /\ hs \in [Threads -> Ids' \X Ids'] /\ tx \in [Threads -> TxSet']
  BY <1>a DEF LocalsOK, CallSet, TxSet
<1>d. ToTunnel \subseteq ToTunnel'
  BY <1>a DEF ToTunnel
<1>e. /\ pending = NoMsg \/ (pending \in ToTunnel' /\ pending.type = "response")
      /\ pc["recv"] \in {"decrypt", "validate"} =>
           rx.msg \in ToTunnel' /\ rx.msg.type = "data" /\ rx.sess \in {"session", "prev"}
  BY <1>d DEF LocalsOK
<1> USE DEF Threads, Looping, Awaiting, Completing, Mixing, Installing
<1>f. /\ \A k \in {session.receiving_key, session.counted} : k \in KeySet'
      /\ session.local_index \in Ids' /\ session.remote_index \in Ids'
      /\ session.sending_counter \in Nat
      /\ nextId' = nextId + 1 => nextId \in Ids'
  BY <1>a, Zeros DEF SessionOK, Session, NetOK
<1>g. /\ \A m \in ToTunnel : m.type \in {"init", "response"} => m.sender \in Ids'
      /\ nextId' = nextId + 1 => nextId \in Ids'
      /\ pending # NoMsg => pending.sender \in Ids'
      /\ call.state \in Ids'
  BY <1>a, <1>c, Zeros DEF ToTunnel, NetOK, MsgOK, LocalsOK, CallSet
<1>1. CASE Connect
  <2>1. call' \in CallSet' /\ (pc'["ctl"] \in Looping => call'.attempt < WG_MAX_TIMER_HANDSHAKES)
    <3>1. call' \in CallSet' /\ call'.attempt = 0
      <4>1. 0 \in 0 .. WG_MAX_TIMER_HANDSHAKES
        BY SMT, TunnelAssumption
      <4> QED
        BY <1>1, <1>c, <4>1 DEF Connect, CallSet
    <3> QED
      BY SMT, <3>1, TunnelAssumption
  <2>2. hs' \in [Threads -> Ids' \X Ids']
    BY <1>1, <1>b, <1>c DEF Connect
  <2>3. tx' \in [Threads -> TxSet']
    BY <1>1, <1>b, <1>c DEF Connect, TxSet
  <2>4. /\ cookie' \in BOOLEAN
        /\ pending' = NoMsg \/ (pending' \in ToTunnel' /\ pending'.type = "response")
        /\ pc'["ctl"] = "check" => pending' # NoMsg
    BY <1>1, <1>d, <1>e DEF Connect, Goto, PcOK, LocalsOK, NoMsg
  <2>5. pc'["recv"] \in {"decrypt", "validate"} =>
          rx'.msg \in ToTunnel' /\ rx'.msg.type = "data" /\ rx'.sess \in {"session", "prev"}
    BY <1>1, <1>d, <1>e DEF Connect, Goto, PcOK
  <2> QED
    BY <2>1, <2>2, <2>3, <2>4, <2>5 DEF LocalsOK
<1>2. CASE Rekey
  <2>1. call' \in CallSet' /\ (pc'["ctl"] \in Looping => call'.attempt < WG_MAX_TIMER_HANDSHAKES)
    <3>1. call' \in CallSet' /\ call'.attempt = 0
      <4>1. 0 \in 0 .. WG_MAX_TIMER_HANDSHAKES
        BY SMT, TunnelAssumption
      <4> QED
        BY <1>2, <1>c, <1>f, <4>1 DEF Rekey, CallSet
    <3> QED
      BY SMT, <3>1, TunnelAssumption
  <2>2. hs' \in [Threads -> Ids' \X Ids']
    BY <1>2, <1>b, <1>c DEF Rekey
  <2>3. tx' \in [Threads -> TxSet']
    BY <1>2, <1>b, <1>c DEF Rekey, TxSet
  <2>4. /\ cookie' \in BOOLEAN
        /\ pending' = NoMsg \/ (pending' \in ToTunnel' /\ pending'.type = "response")
        /\ pc'["ctl"] = "check" => pending' # NoMsg
    BY <1>2, <1>d, <1>e DEF Rekey, Goto, PcOK, LocalsOK, NoMsg
  <2>5. pc'["recv"] \in {"decrypt", "validate"} =>
          rx'.msg \in ToTunnel' /\ rx'.msg.type = "data" /\ rx'.sess \in {"session", "prev"}
    BY <1>2, <1>d, <1>e DEF Rekey, Goto, PcOK
  <2> QED
    BY <2>1, <2>2, <2>3, <2>4, <2>5 DEF LocalsOK
<1>3. CASE Start
  BY <1>3, <1>b, <1>c, <1>d, <1>e DEF Start, Goto, PcOK, LocalsOK
<1>4. CASE Stop
  BY <1>4, <1>b, <1>c, <1>d, <1>e DEF Stop, Goto, PcOK, LocalsOK
<1>5. CASE HandshakeInit
  <2>1. call' \in CallSet' /\ (pc'["ctl"] \in Looping => call'.attempt < WG_MAX_TIMER_HANDSHAKES)
    BY <1>5, <1>c, <1>f, TunnelAssumption DEF HandshakeInit, Goto, CallSet, PcOK, LocalsOK
  <2>2. hs' \in [Threads -> Ids' \X Ids']
    BY <1>5, <1>b, <1>c DEF HandshakeInit
  <2>3. tx' \in [Threads -> TxSet']
    BY <1>5, <1>b, <1>c DEF HandshakeInit, TxSet
  <2>4. /\ cookie' \in BOOLEAN
        /\ pending' = NoMsg \/ (pending' \in ToTunnel' /\ pending'.type = "response")
        /\ pc'["ctl"] = "check" => pending' # NoMsg
    BY <1>5, <1>d, <1>e DEF HandshakeInit, Goto, PcOK, LocalsOK, NoMsg
  <2>5. pc'["recv"] \in {"decrypt", "validate"} =>
          rx'.msg \in ToTunnel' /\ rx'.msg.type = "data" /\ rx'.sess \in {"session", "prev"}
    BY <1>5, <1>d, <1>e DEF HandshakeInit, Goto, PcOK
  <2> QED
    BY <2>1, <2>2, <2>3, <2>4, <2>5 DEF LocalsOK
<1>6. CASE SendInit
  <2>1. call' \in CallSet' /\ (pc'["ctl"] \in Looping => call'.attempt < WG_MAX_TIMER_HANDSHAKES)
    <3>1. /\ call' = call \/ call' = [call EXCEPT !.err = "WG_ERR"]
          /\ pc["ctl"] = "send" /\ (Goto("ctl", "wait") \/ Goto("ctl", "finish"))
      BY <1>6 DEF SendInit
    <3> QED
      BY <1>c, <3>1, TunnelAssumption DEF Goto, CallSet, PcOK, LocalsOK
  <2>2. hs' \in [Threads -> Ids' \X Ids']
    BY <1>6, <1>b, <1>c DEF SendInit
  <2>3. tx' \in [Threads -> TxSet']
    BY <1>6, <1>b, <1>c DEF SendInit, TxSet
  <2>4. /\ cookie' \in BOOLEAN
        /\ pending' = NoMsg \/ (pending' \in ToTunnel' /\ pending'.type = "response")
        /\ pc'["ctl"] = "check" => pending' # NoMsg
    BY <1>6, <1>d, <1>e DEF SendInit, Goto, PcOK, LocalsOK, NoMsg
  <2>5. pc'["recv"] \in {"decrypt", "validate"} =>
          rx'.msg \in ToTunnel' /\ rx'.msg.type = "data" /\ rx'.sess \in {"session", "prev"}
    BY <1>6, <1>d, <1>e DEF SendInit, Goto, PcOK
  <2> QED
    BY <2>1, <2>2, <2>3, <2>4, <2>5 DEF LocalsOK
<1>7. CASE Timeout
  <2>1. call' \in CallSet' /\ (pc'["ctl"] \in Looping => call'.attempt < WG_MAX_TIMER_HANDSHAKES)
    <3>1. CASE \E err \in {"WG_OK", "WG_ERR"} : Continue(err)
      BY <1>7, <1>c, <3>1, ContinueStep DEF Timeout
    <3>2. CASE ~\E err \in {"WG_OK", "WG_ERR"} : Continue(err)
      <4>1. call' = call
        BY <1>7, <1>c, <3>2 DEF Timeout, LocalsOK, CallSet
      <4> QED
        BY <1>7, <1>c, <4>1 DEF Timeout, PcOK, LocalsOK
    <3> QED
      BY <3>1, <3>2
  <2>2. hs' \in [Threads -> Ids' \X Ids']
    BY <1>7, <1>b, <1>c DEF Timeout, Continue
  <2>3. tx' \in [Threads -> TxSet']
    BY <1>7, <1>b, <1>c DEF Timeout, Continue, TxSet
  <2>4. /\ cookie' \in BOOLEAN
        /\ pending' = NoMsg \/ (pending' \in ToTunnel' /\ pending'.type = "response")
        /\ pc'["ctl"] = "check" => pending' # NoMsg
    BY <1>7, <1>d, <1>e DEF Timeout, Continue, Goto, PcOK, LocalsOK, NoMsg
  <2>5. pc'["recv"] \in {"decrypt", "validate"} =>
          rx'.msg \in ToTunnel' /\ rx'.msg.type = "data" /\ rx'.sess \in {"session", "prev"}
    BY <1>7, <1>d, <1>e DEF Timeout, Continue, Goto, PcOK
  <2> QED
    BY <2>1, <2>2, <2>3, <2>4, <2>5 DEF LocalsOK
<1>8. CASE RekeyWake
  <2>1. call' \in CallSet' /\ (pc'["ctl"] \in Looping => call'.attempt < WG_MAX_TIMER_HANDSHAKES)
    <3>1. CASE \E err \in {"WG_OK", "WG_ERR"} : Continue(err)
      BY <1>8, <1>c, <3>1, ContinueStep DEF RekeyWake
    <3>2. CASE ~\E err \in {"WG_OK", "WG_ERR"} : Continue(err)
      <4>1. call' = call
        BY <1>8, <1>c, <3>2 DEF RekeyWake, LocalsOK, CallSet
      <4> QED
        BY <1>8, <1>c, <4>1 DEF RekeyWake, PcOK, LocalsOK
    <3> QED
      BY <3>1, <3>2
  <2>2. hs' \in [Threads -> Ids' \X Ids']
    BY <1>8, <1>b, <1>c DEF RekeyWake, Continue
  <2>3. tx' \in [Threads -> TxSet']
    BY <1>8, <1>b, <1>c DEF RekeyWake, Continue, TxSet
  <2>4. /\ cookie' \in BOOLEAN
        /\ pending' = NoMsg \/ (pending' \in ToTunnel' /\ pending'.type = "response")
        /\ pc'["ctl"] = "check" => pending' # NoMsg
    BY <1>8, <1>d, <1>e DEF RekeyWake, Continue, Goto, PcOK, LocalsOK, NoMsg
  <2>5. pc'["recv"] \in {"decrypt", "validate"} =>
          rx'.msg \in ToTunnel' /\ rx'.msg.type = "data" /\ rx'.sess \in {"session", "prev"}
    BY <1>8, <1>d, <1>e DEF RekeyWake, Continue, Goto, PcOK
  <2> QED
    BY <2>1, <2>2, <2>3, <2>4, <2>5 DEF LocalsOK
<1>9. ASSUME NEW m \in ToTunnel, ConnectReceive(m) PROVE LocalsOK'
  <2>1. call' \in CallSet' /\ (pc'["ctl"] \in Looping => call'.attempt < WG_MAX_TIMER_HANDSHAKES)
    <3>1. CASE \E err \in {"WG_OK", "WG_ERR"} : Continue(err)
      BY <1>9, <1>c, <3>1, ContinueStep DEF ConnectReceive
    <3>2. CASE ~\E err \in {"WG_OK", "WG_ERR"} : Continue(err)
      <4>1. call' = call
        BY <1>9, <1>c, <3>2 DEF ConnectReceive, LocalsOK, CallSet
      <4> QED
        BY <1>9, <1>c, <4>1 DEF ConnectReceive, PcOK, LocalsOK
    <3> QED
      BY <3>1, <3>2
  <2>2. hs' \in [Threads -> Ids' \X Ids']
    BY SMT, <1>9, <1>b, <1>c, <1>g DEF ConnectReceive
  <2>3. tx' \in [Threads -> TxSet']
    BY <1>9, <1>b, <1>c DEF ConnectReceive, Continue, TxSet
  <2>4. /\ cookie' \in BOOLEAN
        /\ pending' = NoMsg \/ (pending' \in ToTunnel' /\ pending'.type = "response")
        /\ pc'["ctl"] = "check" => pending' # NoMsg
    BY SMT, <1>9, <1>d, <1>e DEF ConnectReceive, Continue, Goto, PcOK, LocalsOK, NoMsg
  <2>5. pc'["recv"] \in {"decrypt", "validate"} =>
          rx'.msg \in ToTunnel' /\ rx'.msg.type = "data" /\ rx'.sess \in {"session", "prev"}
    BY <1>9, <1>d, <1>e DEF ConnectReceive, Continue, Goto, PcOK
  <2> QED
    BY <2>1, <2>2, <2>3, <2>4, <2>5 DEF LocalsOK
<1>10. CASE ResponseCheck
  <2>1. call' \in CallSet' /\ (pc'["ctl"] \in Looping => call'.attempt < WG_MAX_TIMER_HANDSHAKES)
    <3>1. CASE \E err \in {"WG_OK", "WG_ERR"} : Continue(err)
      BY <1>10, <1>c, <3>1, ContinueStep DEF ResponseCheck
    <3>2. CASE ~\E err \in {"WG_OK", "WG_ERR"} : Continue(err)
      <4>1. call' = call
        BY <1>10, <1>c, <3>2 DEF ResponseCheck, LocalsOK, CallSet
      <4> QED
        BY <1>10, <1>c, <4>1 DEF ResponseCheck, PcOK, LocalsOK
    <3> QED
      BY <3>1, <3>2
  <2>2. hs' \in [Threads -> Ids' \X Ids']
    <3>1. <<call.state, pending.sender>> \in Ids' \X Ids'
      BY <1>10, <1>g DEF ResponseCheck, LocalsOK
    <3> QED
      BY <1>10, <1>c, <3>1 DEF ResponseCheck
  <2>3. tx' \in [Threads -> TxSet']
    BY <1>10, <1>b, <1>c DEF ResponseCheck, Continue, TxSet
  <2>4. /\ cookie' \in BOOLEAN
        /\ pending' = NoMsg \/ (pending' \in ToTunnel' /\ pending'.type = "response")
        /\ pc'["ctl"] = "check" => pending' # NoMsg
    BY <1>10, <1>d, <1>e DEF ResponseCheck, Continue, Goto, PcOK, LocalsOK, NoMsg
  <2>5. pc'["recv"] \in {"decrypt", "validate"} =>
          rx'.msg \in ToTunnel' /\ rx'.msg.type = "data" /\ rx'.sess \in {"session", "prev"}
    BY <1>10, <1>d, <1>e DEF ResponseCheck, Continue, Goto, PcOK
  <2> QED
    BY <2>1, <2>2, <2>3, <2>4, <2>5 DEF LocalsOK
<1>11. CASE ResponseRotate
  BY <1>11, <1>b, <1>c, <1>d, <1>e DEF ResponseRotate, Goto, PcOK, LocalsOK
<1>12. CASE ResponseKeys
  BY <1>12, <1>b, <1>c, <1>d, <1>e DEF ResponseKeys, Goto, PcOK, LocalsOK
<1>13. CASE ResponseReset
  <2>1. call' \in CallSet' /\ (pc'["ctl"] \in Looping => call'.attempt < WG_MAX_TIMER_HANDSHAKES)
    BY <1>13, <1>c, TunnelAssumption DEF ResponseReset, Goto, CallSet, PcOK, LocalsOK
  <2>2. hs' \in [Threads -> Ids' \X Ids']
    BY <1>13, <1>b, <1>c DEF ResponseReset
  <2>3. tx' \in [Threads -> TxSet']
    BY <1>13, <1>b, <1>c DEF ResponseReset, TxSet
  <2>4. /\ cookie' \in BOOLEAN
        /\ pending' = NoMsg \/ (pending' \in ToTunnel' /\ pending'.type = "response")
        /\ pc'["ctl"] = "check" => pending' # NoMsg
    BY <1>13, <1>d, <1>e DEF ResponseReset, Goto, PcOK, LocalsOK, NoMsg
  <2>5. pc'["recv"] \in {"decrypt", "validate"} =>
          rx'.msg \in ToTunnel' /\ rx'.msg.type = "data" /\ rx'.sess \in {"session", "prev"}
    BY <1>13, <1>d, <1>e DEF ResponseReset, Goto, PcOK
  <2> QED
    BY <2>1, <2>2, <2>3, <2>4, <2>5 DEF LocalsOK
<1>14. ASSUME NEW t \in {"ctl", "recv"}, PassiveRotate(t) PROVE LocalsOK'
  BY <1>14, <1>b, <1>c, <1>d, <1>e DEF PassiveRotate, Goto, PcOK, LocalsOK
<1>15. ASSUME NEW t \in {"ctl", "recv"}, PassiveKeys(t) PROVE LocalsOK'
  BY <1>15, <1>b, <1>c, <1>d, <1>e DEF PassiveKeys, Goto, PcOK, LocalsOK
<1>16. ASSUME NEW t \in {"ctl", "recv"}, PassiveReset(t) PROVE LocalsOK'
  <2>1. call' \in CallSet' /\ (pc'["ctl"] \in Looping => call'.attempt < WG_MAX_TIMER_HANDSHAKES)
    BY ZenonT(40), <1>16, <1>c, TunnelAssumption DEF PassiveReset, Goto, CallSet, PcOK, LocalsOK
  <2>2. hs' \in [Threads -> Ids' \X Ids']
    BY <1>16, <1>b, <1>c DEF PassiveReset
  <2>3. tx' \in [Threads -> TxSet']
    BY <1>16, <1>b, <1>c DEF PassiveReset, TxSet
  <2>4. /\ cookie' \in BOOLEAN
        /\ pending' = NoMsg \/ (pending' \in ToTunnel' /\ pending'.type = "response")
        /\ pc'["ctl"] = "check" => pending' # NoMsg
    BY <1>16, <1>d, <1>e DEF PassiveReset, Goto, PcOK, LocalsOK, NoMsg
  <2>5. pc'["recv"] \in {"decrypt", "validate"} =>
          rx'.msg \in ToTunnel' /\ rx'.msg.type = "data" /\ rx'.sess \in {"session", "prev"}
    BY <1>16, <1>d, <1>e DEF PassiveReset, Goto, PcOK
  <2> QED
    BY <2>1, <2>2, <2>3, <2>4, <2>5 DEF LocalsOK
<1>17. CASE ReturnError
  BY <1>17, <1>b, <1>c, <1>d, <1>e DEF ReturnError, Goto, PcOK, LocalsOK
<1>18. CASE KeepaliveCounter
  <2>1. call' \in CallSet' /\ (pc'["ctl"] \in Looping => call'.attempt < WG_MAX_TIMER_HANDSHAKES)
    BY <1>18, <1>c, TunnelAssumption DEF KeepaliveCounter, TakeCounter, Goto,
       CallSet, PcOK, LocalsOK
  <2>2. hs' \in [Threads -> Ids' \X Ids']
    BY <1>18, <1>b, <1>c DEF KeepaliveCounter, TakeCounter
  <2>3. tx' \in [Threads -> TxSet']
    BY <1>18, <1>b, <1>c, <1>f DEF KeepaliveCounter, TakeCounter, TxSet
  <2>4. /\ cookie' \in BOOLEAN
        /\ pending' = NoMsg \/ (pending' \in ToTunnel' /\ pending'.type = "response")
        /\ pc'["ctl"] = "check" => pending' # NoMsg
    BY <1>18, <1>d, <1>e DEF KeepaliveCounter, TakeCounter, Goto, PcOK, LocalsOK, NoMsg
  <2>5. pc'["recv"] \in {"decrypt", "validate"} =>
          rx'.msg \in ToTunnel' /\ rx'.msg.type = "data" /\ rx'.sess \in {"session", "prev"}
    BY <1>18, <1>d, <1>e DEF KeepaliveCounter, TakeCounter, Goto, PcOK
  <2> QED
    BY <2>1, <2>2, <2>3, <2>4, <2>5 DEF LocalsOK
<1>19. CASE KeepaliveEncrypt
  BY <1>19, <1>b, <1>c, <1>d, <1>e DEF KeepaliveEncrypt, Encrypt, Goto, PcOK, LocalsOK
<1>20. ASSUME NEW m \in ToTunnel, RecvHandshake(m) PROVE LocalsOK'
  <2>1. call' \in CallSet' /\ (pc'["ctl"] \in Looping => call'.attempt < WG_MAX_TIMER_HANDSHAKES)
    BY <1>20, <1>c, TunnelAssumption DEF RecvHandshake, Goto, CallSet, PcOK, LocalsOK
  <2>2. hs' \in [Threads -> Ids' \X Ids']
    BY SMT, <1>20, <1>b, <1>c, <1>g DEF RecvHandshake
  <2>3. tx' \in [Threads -> TxSet']
    BY <1>20, <1>b, <1>c DEF RecvHandshake, TxSet
  <2>4. /\ cookie' \in BOOLEAN
        /\ pending' = NoMsg \/ (pending' \in ToTunnel' /\ pending'.type = "response")
        /\ pc'["ctl"] = "check" => pending' # NoMsg
    <3>1. m.type = "response" => m # NoMsg
      BY SMT DEF NoMsg
    <3>2. pc'["ctl"] = pc["ctl"]
      BY <1>20 DEF RecvHandshake, Goto, PcOK
    <3>3. pending' = pending \/ (pending' = m /\ m.type = "response")
      BY <1>20 DEF RecvHandshake
    <3>4. cookie' = cookie \/ cookie' = TRUE
      BY <1>20 DEF RecvHandshake
    <3> QED
      BY <1>d, <1>e, <3>1, <3>2, <3>3, <3>4 DEF LocalsOK
  <2>5. pc'["recv"] \in {"decrypt", "validate"} =>
          rx'.msg \in ToTunnel' /\ rx'.msg.type = "data" /\ rx'.sess \in {"session", "prev"}
    BY <1>20, <1>d, <1>e DEF RecvHandshake, Goto, PcOK
  <2> QED
    BY <2>1, <2>2, <2>3, <2>4, <2>5 DEF LocalsOK
<1>21. ASSUME NEW m \in ToTunnel, RecvMatch(m) PROVE LocalsOK'
  <2>1. call' \in CallSet' /\ (pc'["ctl"] \in Looping => call'.attempt < WG_MAX_TIMER_HANDSHAKES)
    BY <1>21, <1>c, TunnelAssumption DEF RecvMatch, Goto, CallSet, PcOK, LocalsOK
  <2>2. hs' \in [Threads -> Ids' \X Ids']
    BY <1>21, <1>b, <1>c DEF RecvMatch
  <2>3. tx' \in [Threads -> TxSet']
    BY <1>21, <1>b, <1>c DEF RecvMatch, TxSet
  <2>4. /\ cookie' \in BOOLEAN
        /\ pending' = NoMsg \/ (pending' \in ToTunnel' /\ pending'.type = "response")
        /\ pc'["ctl"] = "check" => pending' # NoMsg
    BY <1>21, <1>d, <1>e DEF RecvMatch, Goto, PcOK, LocalsOK, NoMsg
  <2>5. pc'["recv"] \in {"decrypt", "validate"} =>
          rx'.msg \in ToTunnel' /\ rx'.msg.type = "data" /\ rx'.sess \in {"session", "prev"}
    BY SMT, <1>21, <1>d, <1>e DEF RecvMatch, Goto, PcOK, MatchSession
  <2> QED
    BY <2>1, <2>2, <2>3, <2>4, <2>5 DEF LocalsOK
<1>22. CASE RecvDecrypt
  BY <1>22, <1>b, <1>c, <1>d, <1>e DEF RecvDecrypt, Goto, PcOK, LocalsOK
<1>23. CASE RecvValidate
  BY <1>23, <1>b, <1>c, <1>d, <1>e DEF RecvValidate, Goto, PcOK, LocalsOK
<1>24. ASSUME NEW m \in ToTunnel, Recv(m) PROVE LocalsOK'
  BY <1>24, <1>b, <1>c, <1>d, <1>e DEF Recv, Goto, PcOK, LocalsOK
<1>25. CASE SendCheck
  BY <1>25, <1>b, <1>c, <1>d, <1>e DEF SendCheck, Goto, PcOK, LocalsOK
<1>26. CASE SendCounter
  <2>1. call' \in CallSet' /\ (pc'["ctl"] \in Looping => call'.attempt < WG_MAX_TIMER_HANDSHAKES)
    BY <1>26, <1>c, TunnelAssumption DEF SendCounter, TakeCounter, Goto, CallSet,
       PcOK, LocalsOK
  <2>2. hs' \in [Threads -> Ids' \X Ids']
    BY <1>26, <1>b, <1>c DEF SendCounter, TakeCounter
  <2>3. tx' \in [Threads -> TxSet']
    BY <1>26, <1>b, <1>c, <1>f DEF SendCounter, TakeCounter, TxSet
  <2>4. /\ cookie' \in BOOLEAN
        /\ pending' = NoMsg \/ (pending' \in ToTunnel' /\ pending'.type = "response")
        /\ pc'["ctl"] = "check" => pending' # NoMsg
    BY <1>26, <1>d, <1>e DEF SendCounter, TakeCounter, Goto, PcOK, LocalsOK, NoMsg
  <2>5. pc'["recv"] \in {"decrypt", "validate"} =>
          rx'.msg \in ToTunnel' /\ rx'.msg.type = "data" /\ rx'.sess \in {"session", "prev"}
    BY <1>26, <1>d, <1>e DEF SendCounter, TakeCounter, Goto, PcOK
  <2> QED
    BY <2>1, <2>2, <2>3, <2>4, <2>5 DEF LocalsOK
<1>27. CASE SendEncrypt
  BY <1>27, <1>b, <1>c, <1>d, <1>e DEF SendEncrypt, Encrypt, Goto, PcOK, LocalsOK
<1>28. CASE ZeroKeys
  BY <1>28, <1>b, <1>c, <1>d, <1>e DEF ZeroKeys, Goto, PcOK, LocalsOK
<1>29. CASE Tick
  BY <1>29, <1>b, <1>c, <1>d, <1>e DEF Tick, Goto, PcOK, LocalsOK
<1>30. ASSUME NEW m \in net, PeerAnswer(m) PROVE LocalsOK'
  BY <1>30, <1>b, <1>c, <1>d, <1>e DEF PeerAnswer, Goto, PcOK, LocalsOK
<1>31. ASSUME NEW m \in net, PeerAdopt(m) PROVE LocalsOK'
  BY <1>31, <1>b, <1>c, <1>d, <1>e DEF PeerAdopt, Goto, PcOK, LocalsOK
<1>32. CASE PeerInitiate
  BY ZenonT(40), <1>32, <1>b, <1>c, <1>d, <1>e DEF PeerInitiate, Goto, PcOK, LocalsOK
<1>33. CASE PeerSend
  BY ZenonT(40), <1>33, <1>b, <1>c, <1>d, <1>e DEF PeerSend, Goto, PcOK, LocalsOK
<1>34. CASE KeepaliveStore
  BY <1>34, <1>b, <1>c, <1>d, <1>e DEF KeepaliveStore, StoreCounter, Goto, PcOK, LocalsOK
<1>35. CASE SendStore
  BY <1>35, <1>b, <1>c, <1>d, <1>e DEF SendStore, StoreCounter, Goto, PcOK, LocalsOK
<1> QED
  BY <1>1, <1>2, <1>3, <1>4, <1>5, <1>6, <1>7, <1>8, <1>9, <1>10, <1>11, <1>12,
     <1>13, <1>14, <1>15, <1>16, <1>17, <1>18, <1>19, <1>20, <1>21, <1>22, <1>23,
     <1>24, <1>25, <1>26, <1>27, <1>28, <1>29, <1>30, <1>31, <1>32, <1>33, <1>34, <1>35
     DEF Next, ControlStep, RecvStep, SenderStep, Peer

\* The messages, the peer and the histories keep their types; a packet has the ghost
\* owner of its key or none.
LEMMA NetStep == TypeOK /\ CallInv /\ Next => NetOK'
<1> SUFFICES ASSUME TypeOK, CallInv, Next PROVE NetOK'
  OBVIOUS
<1> USE DEF TypeOK
<1>a. /\ Ids \subseteq Ids' /\ KeySet \subseteq KeySet' /\ nextId' \in Nat \ {0}
      /\ \A m \in net : MsgOK(m)'
  BY Grow, Grows DEF NetOK
<1>b. /\ peerKey \in KeySet' /\ peerSent \in Nat
      /\ scene \in [env : SUBSET Behaviours, max : Nat, data : Nat, calls : Nat]
      /\ delivered \subseteq KeySet' \X Nat /\ raced \subseteq Races
  BY <1>a DEF NetOK
<1>c. \A k \in KeySet' : k \in [i : Ids', r : Ids', d : 0 .. 2]
  BY DEF KeySet
<1>d. /\ session.sending_key \in KeySet' /\ NoKey \in KeySet'
      /\ \A t \in Threads : tx[t].owner \in KeySet' /\ tx[t].counter \in Nat
  <2>1. session.sending_key \in KeySet'
    BY <1>a DEF SessionOK, Session
  <2>2. \A t \in Threads : tx[t].owner \in KeySet' /\ tx[t].counter \in Nat
    BY <1>a DEF LocalsOK, TxSet
  <2> QED
    BY <1>a, <2>1, <2>2, Zeros DEF NetOK
<1>e. ASSUME NEW x, MsgOK(x)', net' = net \cup {x}, peerKey' = peerKey, delivered' = delivered,
             scene' = scene, peerSent' \in Nat, raced' \subseteq Races
      PROVE NetOK'
  BY <1>a, <1>b, <1>e DEF NetOK
<1>f. ASSUME NEW t \in Threads, Encrypt(t), peerKey' = peerKey, delivered' = delivered,
             scene' = scene, peerSent' = peerSent
      PROVE NetOK'
  <2> DEFINE owner == IF Pair(session.sending_key) = tx[t].owner THEN tx[t].owner ELSE NoKey
  <2>a. PICK x : x = DataMsg("tun", tx[t].receiver, session.sending_key, tx[t].counter, owner)
    OBVIOUS
  <2>1. net' = net \cup {x}
    BY <1>f, <2>a DEF Encrypt
  <2>2. owner \in KeySet' /\ owner \in {NoKey, Pair(session.sending_key)}
    BY <1>d
  <2> HIDE DEF owner
  <2>3. MsgOK(x)'
    BY <1>d, <2>a, <2>2 DEF MsgOK, DataMsg
  <2>4. raced' \subseteq Races
    BY <1>b, <1>f DEF Encrypt, Races
  <2> QED
    BY <1>b, <1>e, <1>f, <2>1, <2>3, <2>4
<1>g. ASSUME NEW t \in {"ctl", "app"}, TakeCounter(t), t = "app" \/ pc["ctl"] = "finish"
      PROVE  raced' \subseteq Races
  <2>1. CASE \E u \in Threads \ {t} : pc[u] = "store"
    <3>1. pc["ctl"] # "idle"
      BY <1>g, <2>1 DEF PcOK, Threads, Installing
    <3>2. call.name \in Races
      BY <3>1 DEF CallInv, Races
    <3> QED
      BY <1>b, <1>g, <2>1, <3>2 DEF TakeCounter
  <2>2. CASE ~\E u \in Threads \ {t} : pc[u] = "store"
    BY <1>b, <1>g, <2>2 DEF TakeCounter
  <2> QED
    BY <2>1, <2>2
<1>1. CASE Connect
  BY SMT, <1>1, <1>a, <1>b DEF Connect, NetOK, peerVars, history
<1>2. CASE Rekey
  BY SMT, <1>2, <1>a, <1>b DEF Rekey, NetOK, peerVars, history
<1>3. CASE Start
  BY <1>3, <1>a, <1>b DEF Start, NetOK, peerVars, history
<1>4. CASE Stop
  BY <1>4, <1>a, <1>b DEF Stop, NetOK, peerVars, history
<1>5. CASE HandshakeInit
  BY <1>5, <1>a, <1>b DEF HandshakeInit, NetOK, peerVars, history
<1>6. CASE SendInit
  <2>1. CASE net' = net
    BY <1>6, <1>a, <1>b, <2>1 DEF SendInit, NetOK, peerVars, history
  <2>2. CASE net' = net \cup {InitMsg("tun", call.state, TRUE)}
    <3>1. call.state \in Ids'
      BY <1>a DEF LocalsOK, CallSet
    <3>2. PICK x : x = InitMsg("tun", call.state, TRUE)
      OBVIOUS
    <3>3. MsgOK(x)'
      BY <3>1, <3>2 DEF MsgOK, InitMsg
    <3> QED
      BY <1>6, <1>b, <1>e, <2>2, <3>2, <3>3 DEF SendInit, peerVars, history
  <2> QED
    BY <1>6, <2>1, <2>2 DEF SendInit
<1>7. CASE Timeout
  BY <1>7, <1>a, <1>b DEF Timeout, NetOK, peerVars, history
<1>8. CASE RekeyWake
  BY <1>8, <1>a, <1>b DEF RekeyWake, NetOK, peerVars, history
<1>9. ASSUME NEW m \in ToTunnel, ConnectReceive(m) PROVE NetOK'
  BY <1>9, <1>a, <1>b DEF ConnectReceive, NetOK, peerVars, history
<1>10. CASE ResponseCheck
  BY <1>10, <1>a, <1>b DEF ResponseCheck, NetOK, peerVars, history
<1>11. CASE ResponseRotate
  BY <1>11, <1>a, <1>b DEF ResponseRotate, NetOK, peerVars, history
<1>12. CASE ResponseKeys
  BY <1>12, <1>a, <1>b DEF ResponseKeys, NetOK, peerVars, history
<1>13. CASE ResponseReset
  BY <1>13, <1>a, <1>b DEF ResponseReset, NetOK, peerVars, history
<1>14. ASSUME NEW t \in {"ctl", "recv"}, PassiveRotate(t) PROVE NetOK'
  BY <1>14, <1>a, <1>b DEF PassiveRotate, NetOK, peerVars, history
<1>15. ASSUME NEW t \in {"ctl", "recv"}, PassiveKeys(t) PROVE NetOK'
  BY <1>15, <1>a, <1>b DEF PassiveKeys, NetOK, peerVars, history
<1>16. ASSUME NEW t \in {"ctl", "recv"}, PassiveReset(t) PROVE NetOK'
  <2>1. hs[t][1] \in Ids' /\ hs[t][2] \in Ids'
    BY <1>a DEF LocalsOK, Threads
  <2>2. PICK x : x = ResponseMsg("tun", hs[t][2], hs[t][1], TRUE)
    OBVIOUS
  <2>3. MsgOK(x)'
    BY <2>1, <2>2 DEF MsgOK, ResponseMsg
  <2> QED
    BY <1>16, <1>b, <1>e, <2>2, <2>3 DEF PassiveReset, peerVars, history
<1>17. CASE ReturnError
  BY <1>17, <1>a, <1>b DEF ReturnError, NetOK, peerVars, history
<1>18. CASE KeepaliveCounter
  BY <1>18, <1>a, <1>b, <1>g DEF KeepaliveCounter, NetOK, peerVars
<1>19. CASE KeepaliveEncrypt
  BY <1>19, <1>f DEF KeepaliveEncrypt, peerVars, Threads
<1>20. ASSUME NEW m \in ToTunnel, RecvHandshake(m) PROVE NetOK'
  BY <1>20, <1>a, <1>b DEF RecvHandshake, NetOK, peerVars, history
<1>21. ASSUME NEW m \in ToTunnel, RecvMatch(m) PROVE NetOK'
  BY <1>21, <1>a, <1>b DEF RecvMatch, NetOK, peerVars, history
<1>22. CASE RecvDecrypt
  BY <1>22, <1>a, <1>b DEF RecvDecrypt, NetOK, peerVars, history
<1>23. CASE RecvValidate
  <2>1. rx.msg.key \in KeySet' /\ rx.msg.counter \in Nat
    BY <1>23, <1>a DEF RecvValidate, LocalsOK, NetOK, MsgOK, ToTunnel
  <2> QED
    BY SMT, <1>23, <1>a, <1>b, <2>1 DEF RecvValidate, Deliver, NetOK, peerVars, history, Races
<1>24. ASSUME NEW m \in ToTunnel, Recv(m) PROVE NetOK'
  <2>1. m.key \in KeySet' /\ m.counter \in Nat
    BY <1>24, <1>a DEF Recv, NetOK, MsgOK, ToTunnel
  <2> QED
    BY SMT, <1>24, <1>a, <1>b, <2>1 DEF Recv, Deliver, NetOK, peerVars, Races
<1>25. CASE SendCheck
  BY <1>25, <1>a, <1>b DEF SendCheck, NetOK, peerVars, history
<1>26. CASE SendCounter
  BY <1>26, <1>a, <1>b, <1>g DEF SendCounter, NetOK, peerVars
<1>27. CASE SendEncrypt
  BY <1>27, <1>f DEF SendEncrypt, peerVars, Threads
<1>28. CASE ZeroKeys
  BY <1>28, <1>a, <1>b DEF ZeroKeys, NetOK, peerVars, history
<1>29. CASE Tick
  BY <1>29, <1>a, <1>b DEF Tick, NetOK, peerVars, history
<1>30. ASSUME NEW m \in net, PeerAnswer(m) PROVE NetOK'
  <2>1. m.sender \in Ids' /\ nextId \in Nat \ {0}
    BY <1>30, <1>a DEF PeerAnswer, NetOK, MsgOK
  <2>2. ASSUME NEW ok \in BOOLEAN, net' = net \cup {ResponseMsg("peer", nextId, m.sender, ok)},
               nextId' = nextId + 1
        PROVE  NetOK'
    <3>1. nextId \in Ids' \ {0}
      BY <2>1, <2>2, Zeros
    <3>2. PICK x : x = ResponseMsg("peer", nextId, m.sender, ok)
      OBVIOUS
    <3>3. MsgOK(x)'
      BY <2>1, <3>1, <3>2 DEF MsgOK, ResponseMsg
    <3> QED
      BY <1>30, <1>b, <1>e, <2>2, <3>2, <3>3 DEF PeerAnswer, peerVars, history
  <2>3. CASE net' = net \cup {CookieMsg(m.sender)}
    <3>1. PICK x : x = CookieMsg(m.sender)
      OBVIOUS
    <3>2. MsgOK(x)'
      BY <3>1 DEF MsgOK, CookieMsg
    <3> QED
      BY <1>30, <1>b, <1>e, <2>3, <3>1, <3>2 DEF PeerAnswer, peerVars, history
  <2> QED
    BY <1>30, <2>2, <2>3 DEF PeerAnswer
<1>31. ASSUME NEW m \in net, PeerAdopt(m) PROVE NetOK'
  <2>1. peerKey' \in KeySet'
    <3>1. CASE m.type = "data"
      <4>1. m.key \in KeySet'
        BY <1>a, <3>1 DEF MsgOK
      <4>2. peerKey' = Pair(m.key) /\ peerKey'.d \in {1, 2}
        BY <1>31, <3>1 DEF PeerAdopt
      <4> QED
        BY SMT, <4>1, <4>2 DEF Pair, Kdf2, KeySet
    <3>2. CASE m.type = "response"
      <4>1. m.receiver \in Ids' /\ m.sender \in Ids'
        BY <1>a, <3>2 DEF MsgOK
      <4>2. peerKey' = Kdf2(m.receiver, m.sender, 1)
        BY <1>31, <3>2 DEF PeerAdopt
      <4> QED
        BY SMT, <4>1, <4>2 DEF Kdf2, KeySet
    <3> QED
      BY <1>31, <3>1, <3>2 DEF PeerAdopt
  <2> QED
    BY SMT, <1>31, <1>a, <1>b, <2>1, TunnelAssumption DEF PeerAdopt, NetOK, history
<1>32. CASE PeerInitiate
  <2>1. nextId \in Ids' \ {0}
    BY <1>32, Zeros DEF PeerInitiate, NetOK
  <2>2. PICK ok \in BOOLEAN : net' = net \cup {InitMsg("peer", nextId, ok)}
    BY <1>32 DEF PeerInitiate
  <2>3. PICK x : x = InitMsg("peer", nextId, ok)
    OBVIOUS
  <2>4. MsgOK(x)'
    BY <2>1, <2>3 DEF MsgOK, InitMsg
  <2> QED
    BY <1>32, <1>b, <1>e, <2>2, <2>3, <2>4 DEF PeerInitiate, peerVars, history
<1>33. CASE PeerSend
  <2>1. PICK x : x = DataMsg("peer", LocalOf(peerKey), peerKey, peerSent, peerKey)
    OBVIOUS
  <2>2. MsgOK(x)'
    BY SMT, <1>33, <1>b, <2>1 DEF PeerSend, MsgOK, DataMsg
  <2>3. peerSent' \in Nat
    BY SMT, <1>33, <1>b, TunnelAssumption DEF PeerSend
  <2> QED
    BY <1>33, <1>b, <1>e, <2>1, <2>2, <2>3 DEF PeerSend, history
<1>34. CASE KeepaliveStore
  BY <1>34, <1>a, <1>b DEF KeepaliveStore, NetOK, peerVars, history
<1>35. CASE SendStore
  BY <1>35, <1>a, <1>b DEF SendStore, NetOK, peerVars, history
<1> QED
  BY <1>1, <1>2, <1>3, <1>4, <1>5, <1>6, <1>7, <1>8, <1>9, <1>10, <1>11, <1>12,
     <1>13, <1>14, <1>15, <1>16, <1>17, <1>18, <1>19, <1>20, <1>21, <1>22, <1>23,
     <1>24, <1>25, <1>26, <1>27, <1>28, <1>29, <1>30, <1>31, <1>32, <1>33, <1>34, <1>35
     DEF Next, ControlStep, RecvStep, SenderStep, Peer

\* The type invariant is preserved.
LEMMA TypeStep == TypeOK /\ CallInv /\ Next => TypeOK'
BY SessionStep, PcStep, LocalsStep, NetStep DEF TypeOK

-----------------------------------------------------------------------------
(* The limit of the counter. *)

\* The limit of sending_counter is preserved: the test that wg_send makes before it
\* takes send_mutex reserves one counter, and a call that may send a keepalive two.
LEMMA LimitStep == TypeOK /\ CallInv /\ CounterLimit /\ Next => CounterLimit'
<1> SUFFICES ASSUME TypeOK, CallInv, CounterLimit, Next PROVE CounterLimit'
  OBVIOUS
<1>a. /\ session.sending_counter \in Nat /\ scene.calls \in Nat
      /\ tx["ctl"].counter \in Nat /\ tx["app"].counter \in Nat
      /\ WG_REJECT_AFTER_MESSAGES \in Nat \ {0}
      /\ (pc["ctl"] # "idle" => scene.calls > 0)
      /\ \A t \in Threads : t \in DOMAIN pc
  BY TunnelAssumption DEF TypeOK, SessionOK, Session, NetOK, CallInv, PcOK, LocalsOK, TxSet, Threads
<1>b. /\ session \in Session /\ tx \in [Threads -> TxSet]
      /\ pc \in [Threads -> Looping \cup {"idle", "finish", "store",
                     "keepalive", "off", "recv", "decrypt", "validate", "lock", "encrypt"}]
  BY DEF TypeOK, SessionOK, PcOK, LocalsOK
<1>p. ASSUME NEW l \in Looping \cup {"idle", "finish"} PROVE l \notin {"store", "keepalive"}
  BY <1>p DEF Looping, Awaiting, Completing, Mixing
<1> DEFINE Calm == /\ pc'["app"] = pc["app"] /\ tx' = tx /\ scene'.calls = scene.calls
                   /\ \/ pc'["ctl"] = pc["ctl"]
                      \/ /\ pc["ctl"] \notin {"idle", "store", "keepalive"}
                         /\ pc'["ctl"] \notin {"store", "keepalive"}
<1>q. ASSUME session'.sending_counter = session.sending_counter, Calm
      PROVE  CounterLimit'
  BY SMT, <1>a, <1>q DEF CounterLimit, BeforeLoad
<1>r. ASSUME session'.sending_counter = 0, Calm
      PROVE  CounterLimit'
  BY SMT, <1>a, <1>r DEF CounterLimit, BeforeLoad
<1>1. CASE Connect
  <2>1. /\ session' = session /\ scene'.calls = scene.calls + 1 /\ pc["ctl"] = "idle"
        /\ pc'["app"] = pc["app"] /\ pc'["ctl"] = "attempt" /\ tx' = tx
    BY <1>1, <1>b DEF Connect, Goto, Threads, TypeOK, NetOK
  <2> QED
    BY SMT, <1>a, <2>1 DEF CounterLimit, BeforeLoad
<1>2. CASE Rekey
  <2>1. /\ session' = session /\ scene'.calls = scene.calls + 1 /\ pc["ctl"] = "idle"
        /\ pc'["app"] = pc["app"] /\ pc'["ctl"] = "attempt" /\ tx' = tx
    BY <1>2, <1>b DEF Rekey, Goto, Threads, TypeOK, NetOK
  <2> QED
    BY SMT, <1>a, <2>1 DEF CounterLimit, BeforeLoad
<1>3. CASE Start
  BY <1>3, <1>b, <1>q DEF Start, Goto, Threads, Session
<1>4. CASE Stop
  BY <1>4, <1>b, <1>q DEF Stop, Goto, Threads, Session
<1>5. CASE HandshakeInit
  BY <1>5, <1>b, <1>q DEF HandshakeInit, Goto, Threads, Session
<1>6. CASE SendInit
  BY <1>6, <1>b, <1>q DEF SendInit, Goto, Threads, Session
<1>7. CASE Timeout
  BY <1>7, <1>b, <1>q DEF Timeout, Continue, Goto, Threads, Session
<1>8. CASE RekeyWake
  BY <1>8, <1>b, <1>q DEF RekeyWake, Continue, Goto, Threads, Session
<1>9. ASSUME NEW m \in ToTunnel, ConnectReceive(m) PROVE CounterLimit'
  BY <1>9, <1>b, <1>q DEF ConnectReceive, Continue, Goto, Threads, Session
<1>10. CASE ResponseCheck
  BY <1>10, <1>b, <1>q DEF ResponseCheck, Continue, Goto, Threads, Session
<1>11. CASE ResponseRotate
  BY <1>11, <1>b, <1>q DEF ResponseRotate, Goto, Threads, Session
<1>12. CASE ResponseKeys
  BY <1>12, <1>b, <1>q DEF ResponseKeys, Goto, Threads, Session
<1>13. CASE ResponseReset
  BY <1>13, <1>b, <1>r DEF ResponseReset, Goto, Threads, Session
<1>14. ASSUME NEW t \in {"ctl", "recv"}, PassiveRotate(t) PROVE CounterLimit'
  BY <1>14, <1>b, <1>q DEF PassiveRotate, Goto, Threads, Session
<1>15. ASSUME NEW t \in {"ctl", "recv"}, PassiveKeys(t) PROVE CounterLimit'
  BY <1>15, <1>b, <1>q DEF PassiveKeys, Goto, Threads, Session
<1>16. ASSUME NEW t \in {"ctl", "recv"}, PassiveReset(t) PROVE CounterLimit'
  BY <1>16, <1>b, <1>r DEF PassiveReset, Goto, Threads, Session
<1>17. CASE ReturnError
  BY <1>17, <1>b, <1>q DEF ReturnError, Goto, Threads, Session
<1>18. CASE KeepaliveCounter
  <2>1. /\ session' = session /\ scene' = scene
        /\ tx'["ctl"].counter = session.sending_counter /\ tx'["app"] = tx["app"]
        /\ pc["ctl"] = "finish" /\ pc'["ctl"] = "store" /\ pc'["app"] = pc["app"]
    BY <1>18, <1>b DEF KeepaliveCounter, TakeCounter, Goto, Threads
  <2> QED
    BY SMT, <1>a, <2>1 DEF CounterLimit, BeforeLoad
<1>19. CASE KeepaliveEncrypt
  <2>1. /\ session' = session /\ scene' = scene /\ pc["ctl"] = "keepalive" /\ pc'["ctl"] = "idle"
        /\ pc'["app"] = pc["app"] /\ tx'["app"] = tx["app"]
    BY <1>19, <1>b DEF KeepaliveEncrypt, Encrypt, Goto, Threads
  <2> QED
    BY <1>a, <2>1 DEF CounterLimit, BeforeLoad
<1>20. ASSUME NEW m \in ToTunnel, RecvHandshake(m) PROVE CounterLimit'
  BY <1>20, <1>b, <1>q DEF RecvHandshake, Goto, Threads, Session
<1>21. ASSUME NEW m \in ToTunnel, RecvMatch(m) PROVE CounterLimit'
  BY <1>21, <1>b, <1>q DEF RecvMatch, Goto, Threads, Session
<1>22. CASE RecvDecrypt
  BY <1>22, <1>b, <1>q DEF RecvDecrypt, Goto, Threads, Session
<1>23. CASE RecvValidate
  BY <1>23, <1>b, <1>q DEF RecvValidate, Goto, Threads, Session
<1>24. ASSUME NEW m \in ToTunnel, Recv(m) PROVE CounterLimit'
  BY <1>24, <1>b, <1>q DEF Recv, Goto, Threads, Session
<1>25. CASE SendCheck
  <2>1. /\ session' = session /\ session.sending_counter < WG_REJECT_AFTER_MESSAGES
        /\ scene' = scene /\ pc'["app"] = "lock" /\ pc'["ctl"] = pc["ctl"] /\ tx' = tx
    BY <1>25, <1>b DEF SendCheck, Goto, Threads
  <2> QED
    BY SMT, <1>a, <2>1 DEF CounterLimit, BeforeLoad
<1>26. CASE SendCounter
  <2>1. /\ session' = session /\ scene' = scene
        /\ tx'["app"].counter = session.sending_counter /\ tx'["ctl"] = tx["ctl"]
        /\ pc["app"] = "lock" /\ pc'["app"] = "store" /\ pc'["ctl"] = pc["ctl"]
    BY <1>26, <1>b DEF SendCounter, TakeCounter, Goto, Threads
  <2> QED
    BY SMT, <1>a, <2>1 DEF CounterLimit, BeforeLoad
<1>27. CASE SendEncrypt
  <2>1. /\ session' = session /\ scene' = scene /\ pc["app"] = "encrypt" /\ pc'["app"] = "idle"
        /\ pc'["ctl"] = pc["ctl"] /\ tx'["ctl"] = tx["ctl"]
    BY <1>27, <1>b DEF SendEncrypt, Encrypt, Goto, Threads
  <2> QED
    BY <1>a, <2>1 DEF CounterLimit, BeforeLoad
<1>28. CASE ZeroKeys
  BY <1>28, <1>r DEF ZeroKeys, ZeroSession
<1>29. CASE Tick
  BY <1>29, <1>b, <1>q DEF Tick, Older, Session
<1>30. ASSUME NEW m \in net, PeerAnswer(m) PROVE CounterLimit'
  BY <1>30, <1>b, <1>q DEF PeerAnswer, Goto, Threads, Session
<1>31. ASSUME NEW m \in net, PeerAdopt(m) PROVE CounterLimit'
  BY <1>31, <1>b, <1>q DEF PeerAdopt, Goto, Threads, Session
<1>32. CASE PeerInitiate
  BY <1>32, <1>b, <1>q DEF PeerInitiate, Goto, Threads, Session
<1>33. CASE PeerSend
  BY <1>33, <1>b, <1>q DEF PeerSend, Goto, Threads, Session
<1>34. CASE KeepaliveStore
  <2>1. /\ session'.sending_counter = tx["ctl"].counter + 1 /\ scene' = scene /\ tx' = tx
        /\ pc["ctl"] = "store" /\ pc'["ctl"] = "keepalive" /\ pc'["app"] = pc["app"]
    BY <1>34, <1>b DEF KeepaliveStore, StoreCounter, Goto, Threads, Session
  <2> QED
    BY SMT, <1>a, <2>1 DEF CounterLimit, BeforeLoad
<1>35. CASE SendStore
  <2>1. /\ session'.sending_counter = tx["app"].counter + 1 /\ scene' = scene /\ tx' = tx
        /\ pc["app"] = "store" /\ pc'["app"] = "encrypt" /\ pc'["ctl"] = pc["ctl"]
    BY <1>35, <1>b DEF SendStore, StoreCounter, Goto, Threads, Session
  <2> QED
    BY SMT, <1>a, <2>1 DEF CounterLimit, BeforeLoad
<1> QED
  BY <1>1, <1>2, <1>3, <1>4, <1>5, <1>6, <1>7, <1>8, <1>9, <1>10, <1>11, <1>12,
     <1>13, <1>14, <1>15, <1>16, <1>17, <1>18, <1>19, <1>20, <1>21, <1>22, <1>23,
     <1>24, <1>25, <1>26, <1>27, <1>28, <1>29, <1>30, <1>31, <1>32, <1>33, <1>34, <1>35
     DEF Next, ControlStep, RecvStep, SenderStep, Peer

-----------------------------------------------------------------------------
(* Every handshake is new. *)

\* A key that belongs to no handshake under way belongs to none after any step: a step
\* that starts or completes one uses an index that was not in the key.
LEMMA NotOfStep ==
  ASSUME TypeOK, HandshakesFresh, Next, NEW k \in KeySet, NEW P \in {Mixing, Completing}, NotOf(k, P)
  PROVE  NotOf(k, P)'
<1>a. /\ pc \in [Threads -> Looping \cup {"idle", "finish", "store", "keepalive", "off",
                                         "recv", "decrypt", "validate", "lock", "encrypt"}]
      /\ hs \in [Threads -> Ids \X Ids] /\ call \in CallSet /\ nextId \notin Ids
      /\ pc["app"] \in {"idle", "lock", "store", "encrypt"}
      /\ pc["recv"] \in {"off", "recv", "decrypt", "validate"} \cup Installing
  BY SMT DEF TypeOK, PcOK, LocalsOK, NetOK, Ids
<1>b. k.i \in Ids /\ k.r \in Ids
  BY DEF KeySet
<1>q. ASSUME \A t \in Threads : pc'[t] \in P => pc[t] \in P /\ hs'[t] = hs[t],
             pc'["ctl"] \in Awaiting => pc["ctl"] \in Awaiting /\ call'.state = call.state
      PROVE  NotOf(k, P)'
  BY <1>q DEF NotOf
<1>n. ASSUME NEW t \in Threads, pc' = [pc EXCEPT ![t] = "passive_rotate"],
             NEW i, hs' = [hs EXCEPT ![t] = <<i, nextId>>], call' = call
      PROVE  NotOf(k, P)'
  <2>1. k.r # nextId
    BY <1>a, <1>b
  <2> QED
    BY SMT, <1>a, <1>n, <2>1 DEF NotOf, Awaiting
<1>1. CASE Connect
  BY <1>1, <1>a, <1>q DEF Connect, Goto, Threads, Awaiting, Mixing, Completing, CallSet
<1>2. CASE Rekey
  BY <1>2, <1>a, <1>q DEF Rekey, Goto, Threads, Awaiting, Mixing, Completing, CallSet
<1>3. CASE Start
  BY <1>3, <1>a, <1>q DEF Start, Goto, Threads, Awaiting, Mixing, Completing, CallSet
<1>4. CASE Stop
  BY <1>4, <1>a, <1>q DEF Stop, Goto, Threads, Awaiting, Mixing, Completing, CallSet
<1>5. CASE HandshakeInit
  <2>1. call'.state # k.i /\ hs' = hs /\ pc' = [pc EXCEPT !["ctl"] = "send"]
    BY <1>5, <1>a, <1>b DEF HandshakeInit, Goto, CallSet
  <2> QED
    BY <1>a, <2>1 DEF NotOf, Mixing, Completing
<1>6. CASE SendInit
  BY <1>6, <1>a, <1>q DEF SendInit, Goto, Threads, Awaiting, Mixing, Completing, CallSet
<1>7. CASE Timeout
  BY <1>7, <1>a, <1>q DEF Timeout, Continue, Goto, Threads, Awaiting, Mixing,
     Completing, CallSet
<1>8. CASE RekeyWake
  BY <1>8, <1>a, <1>q DEF RekeyWake, Continue, Goto, Threads, Awaiting, Mixing,
     Completing, CallSet
<1>9. ASSUME NEW m \in ToTunnel, ConnectReceive(m) PROVE NotOf(k, P)'
  <2>1. CASE m.type = "init" /\ m.ok
    BY <1>9, <1>n, <2>1 DEF ConnectReceive, Goto, Threads
  <2>2. CASE ~(m.type = "init" /\ m.ok)
    <3>1. hs' = hs /\ call'.state = call.state /\ pc["ctl"] = "wait"
      BY <1>9, <1>a, <2>2 DEF ConnectReceive, Continue, CallSet
    <3>2. \A t \in Threads : pc'[t] = pc[t] \/ pc'[t] \in {"check", "attempt", "finish"}
      BY <1>9, <1>a, <2>2 DEF ConnectReceive, Continue, Goto
    <3> QED
      BY <1>q, <3>1, <3>2 DEF Mixing, Completing, Awaiting
  <2> QED
    BY <2>1, <2>2
<1>10. CASE ResponseCheck
  <2>1. CASE hs' = [hs EXCEPT !["ctl"] = <<call.state, pending.sender>>] /\ Goto("ctl", "rotate") /\ call' = call
    <3>1. k.i # call.state
      BY <1>10 DEF ResponseCheck, NotOf, Awaiting
    <3> QED
      BY <1>a, <2>1, <3>1 DEF NotOf, Goto, Awaiting
  <2>2. CASE hs' = hs /\ Continue("WG_ERR")
    BY <1>a, <1>q, <2>2 DEF Continue, Goto, Threads, Awaiting, Mixing, Completing
  <2> QED
    BY <1>10, <2>1, <2>2 DEF ResponseCheck
<1>11. CASE ResponseRotate
  BY <1>11, <1>a, <1>q DEF ResponseRotate, Goto, Threads, Awaiting, Mixing,
     Completing, CallSet
<1>12. CASE ResponseKeys
  BY <1>12, <1>a, <1>q DEF ResponseKeys, Goto, Threads, Awaiting, Mixing, Completing,
     CallSet
<1>13. CASE ResponseReset
  BY <1>13, <1>a, <1>q DEF ResponseReset, Goto, Threads, Awaiting, Mixing, Completing,
     CallSet
<1>14. ASSUME NEW t \in {"ctl", "recv"}, PassiveRotate(t) PROVE NotOf(k, P)'
  BY <1>14, <1>a, <1>q DEF PassiveRotate, Goto, Threads, Awaiting, Mixing, Completing,
     CallSet
<1>15. ASSUME NEW t \in {"ctl", "recv"}, PassiveKeys(t) PROVE NotOf(k, P)'
  BY <1>15, <1>a, <1>q DEF PassiveKeys, Goto, Threads, Awaiting, Mixing, Completing, CallSet
<1>16. ASSUME NEW t \in {"ctl", "recv"}, PassiveReset(t) PROVE NotOf(k, P)'
  BY <1>16, <1>a, <1>q DEF PassiveReset, Goto, Threads, Awaiting, Mixing, Completing,
     CallSet
<1>17. CASE ReturnError
  BY <1>17, <1>a, <1>q DEF ReturnError, Goto, Threads, Awaiting, Mixing, Completing, CallSet
<1>18. CASE KeepaliveCounter
  BY <1>18, <1>a, <1>q DEF KeepaliveCounter, TakeCounter, Goto, Threads, Awaiting,
     Mixing, Completing, CallSet
<1>19. CASE KeepaliveEncrypt
  BY <1>19, <1>a, <1>q DEF KeepaliveEncrypt, Encrypt, Goto, Threads, Awaiting, Mixing,
     Completing, CallSet
<1>20. ASSUME NEW m \in ToTunnel, RecvHandshake(m) PROVE NotOf(k, P)'
  <2>1. CASE hs' = hs /\ pc' = pc
    BY <1>20, <1>q, <2>1 DEF RecvHandshake
  <2> QED
    BY <1>20, <1>n, <2>1 DEF RecvHandshake, Goto, Threads
<1>21. ASSUME NEW m \in ToTunnel, RecvMatch(m) PROVE NotOf(k, P)'
  BY SMT, <1>21, <1>a, <1>q DEF RecvMatch, Goto, Threads, Awaiting, Mixing, Completing, CallSet
<1>22. CASE RecvDecrypt
  BY SMT, <1>22, <1>a, <1>q DEF RecvDecrypt, Goto, Threads, Awaiting, Mixing, Completing, CallSet
<1>23. CASE RecvValidate
  BY <1>23, <1>a, <1>q DEF RecvValidate, Goto, Threads, Awaiting, Mixing, Completing,
     CallSet
<1>24. ASSUME NEW m \in ToTunnel, Recv(m) PROVE NotOf(k, P)'
  BY <1>24, <1>a, <1>q DEF Recv, Goto, Threads, Awaiting, Mixing, Completing, CallSet
<1>25. CASE SendCheck
  BY <1>25, <1>a, <1>q DEF SendCheck, Goto, Threads, Awaiting, Mixing, Completing, CallSet
<1>26. CASE SendCounter
  BY <1>26, <1>a, <1>q DEF SendCounter, TakeCounter, Goto, Threads, Awaiting, Mixing,
     Completing, CallSet
<1>27. CASE SendEncrypt
  BY <1>27, <1>a, <1>q DEF SendEncrypt, Encrypt, Goto, Threads, Awaiting, Mixing,
     Completing, CallSet
<1>28. CASE ZeroKeys
  BY <1>28, <1>a, <1>q DEF ZeroKeys, Goto, Threads, Awaiting, Mixing, Completing, CallSet
<1>29. CASE Tick
  BY <1>29, <1>a, <1>q DEF Tick, Goto, Threads, Awaiting, Mixing, Completing, CallSet
<1>30. ASSUME NEW m \in net, PeerAnswer(m) PROVE NotOf(k, P)'
  BY <1>30, <1>a, <1>q DEF PeerAnswer, Goto, Threads, Awaiting, Mixing, Completing, CallSet
<1>31. ASSUME NEW m \in net, PeerAdopt(m) PROVE NotOf(k, P)'
  BY <1>31, <1>a, <1>q DEF PeerAdopt, Goto, Threads, Awaiting, Mixing, Completing, CallSet
<1>32. CASE PeerInitiate
  BY <1>32, <1>a, <1>q DEF PeerInitiate, Goto, Threads, Awaiting, Mixing, Completing,
     CallSet
<1>33. CASE PeerSend
  BY <1>33, <1>a, <1>q DEF PeerSend, Goto, Threads, Awaiting, Mixing, Completing, CallSet
<1>34. CASE KeepaliveStore
  BY <1>34, <1>a, <1>q DEF KeepaliveStore, StoreCounter, Goto, Threads, Awaiting, Mixing,
     Completing, CallSet
<1>35. CASE SendStore
  BY <1>35, <1>a, <1>q DEF SendStore, StoreCounter, Goto, Threads, Awaiting, Mixing,
     Completing, CallSet
<1> QED
  BY <1>1, <1>2, <1>3, <1>4, <1>5, <1>6, <1>7, <1>8, <1>9, <1>10, <1>11, <1>12,
     <1>13, <1>14, <1>15, <1>16, <1>17, <1>18, <1>19, <1>20, <1>21, <1>22, <1>23,
     <1>24, <1>25, <1>26, <1>27, <1>28, <1>29, <1>30, <1>31, <1>32, <1>33, <1>34, <1>35
     DEF Next, ControlStep, RecvStep, SenderStep, Peer

\* The handshakes under way stay new and different: an index is drawn once, and an
\* answer names the initiation it answers.
LEMMA FreshStep == TypeOK /\ HandshakesFresh /\ Next => HandshakesFresh'
<1> SUFFICES ASSUME TypeOK, HandshakesFresh, Next PROVE HandshakesFresh'
  OBVIOUS
<1>a. /\ pc \in [Threads -> Looping \cup {"idle", "finish", "store", "keepalive", "off",
                                         "recv", "decrypt", "validate", "lock", "encrypt"}]
      /\ hs \in [Threads -> Ids \X Ids] /\ call \in CallSet /\ nextId \notin Ids
      /\ pc["app"] \in {"idle", "lock", "store", "encrypt"}
      /\ pc["recv"] \in {"off", "recv", "decrypt", "validate"} \cup Installing
  BY SMT DEF TypeOK, PcOK, LocalsOK, NetOK, Ids
<1>b. call.state # nextId /\ call.state \in Ids
  BY <1>a DEF CallSet
<1>c. \A m \in ToTunnel : m.type \in {"init", "response"} => m.sender \in Ids \ {0} /\ m.sender # nextId
  BY <1>a DEF ToTunnel, TypeOK, NetOK, MsgOK
<1>d. nextId # 0
  BY DEF TypeOK, NetOK
<1>q. ASSUME \A t \in Threads : pc'[t] \in Completing => pc[t] \in Completing /\ hs'[t] = hs[t],
             pc'["ctl"] \in Awaiting => pc["ctl"] \in Awaiting /\ call'.state = call.state,
             \A m \in ToTunnel' : m.type \in {"init", "response"} => m \in ToTunnel \/ m.sender = nextId
      PROVE  HandshakesFresh'
  BY <1>b, <1>q DEF HandshakesFresh, Threads
<1>n. ASSUME NEW t \in {"ctl", "recv"}, pc' = [pc EXCEPT ![t] = "passive_rotate"], NEW m \in ToTunnel,
             m.type = "init", hs' = [hs EXCEPT ![t] = <<m.sender, nextId>>], call' = call, net' = net
      PROVE  HandshakesFresh'
  <2>1. /\ hs'[t] = <<m.sender, nextId>> /\ m.sender # 0 /\ pc'[t] = "passive_rotate"
        /\ \A u \in Threads \ {t} : hs'[u] = hs[u] /\ pc'[u] = pc[u] /\ hs[u][2] # nextId
        /\ ToTunnel' = ToTunnel
    BY <1>a, <1>c, <1>n DEF ToTunnel, Threads
  <2>2. \A u \in Threads \ {t} : hs'[u] # hs'[t]
    BY SMT, <2>1
  <2>3. CASE t = "ctl"
    BY SMT, <1>d, <1>n, <2>1, <2>2, <2>3 DEF HandshakesFresh, Threads, Awaiting
  <2>4. CASE t = "recv"
    BY SMT, <1>d, <1>n, <2>1, <2>2, <2>4 DEF HandshakesFresh, Threads
  <2> QED
    BY <2>3, <2>4
<1>1. CASE Connect
  BY <1>1, <1>a, <1>q DEF Connect, Goto, Threads, Awaiting, Mixing, Completing,
     CallSet, ToTunnel
<1>2. CASE Rekey
  BY <1>2, <1>a, <1>q DEF Rekey, Goto, Threads, Awaiting, Mixing, Completing, CallSet,
     ToTunnel
<1>3. CASE Start
  BY <1>3, <1>a, <1>q DEF Start, Goto, Threads, Awaiting, Mixing, Completing, CallSet,
     ToTunnel
<1>4. CASE Stop
  BY <1>4, <1>a, <1>q DEF Stop, Goto, Threads, Awaiting, Mixing, Completing, CallSet,
     ToTunnel
<1>5. CASE HandshakeInit
  <2>1. /\ call'.state = nextId /\ hs' = hs /\ pc' = [pc EXCEPT !["ctl"] = "send"]
        /\ ToTunnel' = ToTunnel
    BY <1>5, <1>a DEF HandshakeInit, Goto, CallSet, ToTunnel
  <2>2. pc["recv"] \in Completing => hs["recv"][1] # nextId
    BY <1>a DEF Threads
  <2> QED
    BY <1>a, <1>c, <1>d, <2>1, <2>2 DEF HandshakesFresh, Completing, Mixing, Threads
<1>6. CASE SendInit
  BY SMT, <1>6, <1>a, <1>q DEF SendInit, Goto, Threads, Awaiting, Mixing, Completing,
     CallSet, ToTunnel, InitMsg, ResponseMsg, CookieMsg, DataMsg
<1>7. CASE Timeout
  BY <1>7, <1>a, <1>q DEF Timeout, Continue, Goto, Threads, Awaiting, Mixing,
     Completing, CallSet, ToTunnel
<1>8. CASE RekeyWake
  BY <1>8, <1>a, <1>q DEF RekeyWake, Continue, Goto, Threads, Awaiting, Mixing,
     Completing, CallSet, ToTunnel
<1>9. ASSUME NEW m \in ToTunnel, ConnectReceive(m) PROVE HandshakesFresh'
  <2>1. CASE m.type = "init" /\ m.ok
    BY <1>9, <1>n, <2>1 DEF ConnectReceive, Goto
  <2>2. CASE ~(m.type = "init" /\ m.ok)
    <3>1. hs' = hs /\ call'.state = call.state /\ pc["ctl"] = "wait" /\ net' = net
      BY <1>9, <1>a, <2>2 DEF ConnectReceive, Continue, CallSet
    <3>2. \A t \in Threads : pc'[t] = pc[t] \/ pc'[t] \in {"check", "attempt", "finish"}
      BY <1>9, <1>a, <2>2 DEF ConnectReceive, Continue, Goto
    <3> QED
      BY <1>q, <3>1, <3>2 DEF Mixing, Completing, Awaiting, ToTunnel
  <2> QED
    BY <2>1, <2>2
<1>10. CASE ResponseCheck
  <2>1. CASE hs' = [hs EXCEPT !["ctl"] = <<call.state, pending.sender>>] /\ Goto("ctl", "rotate") /\ call' = call
    <3>1. pending \in ToTunnel /\ pending.type = "response" /\ pc["ctl"] \in Awaiting /\ net' = net
      BY <1>10 DEF ResponseCheck, TypeOK, LocalsOK, Awaiting
    <3>2. /\ pc'["ctl"] = "rotate" /\ pc'["recv"] = pc["recv"] /\ hs'["recv"] = hs["recv"]
          /\ hs'["ctl"] = <<call.state, pending.sender>> /\ pc'["app"] = pc["app"]
          /\ hs'["app"] = hs["app"]
      BY <1>a, <2>1 DEF Goto, Threads
    <3>3. pc["recv"] \in Completing => hs'["recv"] # hs'["ctl"]
      BY SMT, <3>1, <3>2 DEF HandshakesFresh
    <3>4. call.state # 0 /\ pending.sender # 0
      BY <1>c, <3>1 DEF HandshakesFresh
    <3> QED
      BY SMT, <1>a, <3>2, <3>3, <3>4 DEF HandshakesFresh, Threads, Awaiting
  <2>2. CASE hs' = hs /\ Continue("WG_ERR")
    BY <1>10, <1>a, <1>q, <2>2 DEF ResponseCheck, Continue, Goto, Threads, Awaiting,
       Mixing, Completing, CallSet, ToTunnel
  <2> QED
    BY <1>10, <2>1, <2>2 DEF ResponseCheck
<1>11. CASE ResponseRotate
  BY <1>11, <1>a, <1>q DEF ResponseRotate, Goto, Threads, Awaiting, Mixing,
     Completing, CallSet, ToTunnel
<1>12. CASE ResponseKeys
  BY <1>12, <1>a, <1>q DEF ResponseKeys, Goto, Threads, Awaiting, Mixing, Completing,
     CallSet, ToTunnel
<1>13. CASE ResponseReset
  BY <1>13, <1>a, <1>q DEF ResponseReset, Goto, Threads, Awaiting, Mixing, Completing,
     CallSet, ToTunnel
<1>14. ASSUME NEW t \in {"ctl", "recv"}, PassiveRotate(t) PROVE HandshakesFresh'
  BY <1>14, <1>a, <1>q DEF PassiveRotate, Goto, Threads, Awaiting, Mixing, Completing,
     CallSet, ToTunnel
<1>15. ASSUME NEW t \in {"ctl", "recv"}, PassiveKeys(t) PROVE HandshakesFresh'
  BY <1>15, <1>a, <1>q DEF PassiveKeys, Goto, Threads, Awaiting, Mixing, Completing,
     CallSet, ToTunnel
<1>16. ASSUME NEW t \in {"ctl", "recv"}, PassiveReset(t) PROVE HandshakesFresh'
  BY SMT, <1>16, <1>a, <1>q DEF PassiveReset, Goto, Threads, Awaiting, Mixing, Completing,
     CallSet, ToTunnel, InitMsg, ResponseMsg, CookieMsg, DataMsg
<1>17. CASE ReturnError
  BY <1>17, <1>a, <1>q DEF ReturnError, Goto, Threads, Awaiting, Mixing, Completing,
     CallSet, ToTunnel
<1>18. CASE KeepaliveCounter
  BY <1>18, <1>a, <1>q DEF KeepaliveCounter, TakeCounter, Goto, Threads, Awaiting,
     Mixing, Completing, CallSet, ToTunnel
<1>19. CASE KeepaliveEncrypt
  <2>1. ToTunnel' = ToTunnel
    BY SMT, <1>19 DEF KeepaliveEncrypt, Encrypt, ToTunnel, DataMsg
  <2> QED
    BY <1>19, <1>a, <1>q, <2>1 DEF KeepaliveEncrypt, Goto, Threads, Awaiting,
       Mixing, Completing
<1>20. ASSUME NEW m \in ToTunnel, RecvHandshake(m) PROVE HandshakesFresh'
  <2>1. CASE hs' = hs /\ pc' = pc
    BY <1>20, <1>q, <2>1 DEF RecvHandshake, ToTunnel
  <2> QED
    BY <1>20, <1>n, <2>1 DEF RecvHandshake, Goto
<1>21. ASSUME NEW m \in ToTunnel, RecvMatch(m) PROVE HandshakesFresh'
  BY <1>21, <1>a, <1>q DEF RecvMatch, Goto, Threads, Awaiting, Mixing, Completing,
     CallSet, ToTunnel
<1>22. CASE RecvDecrypt
  BY ZenonT(40), <1>22, <1>a, <1>q DEF RecvDecrypt, Goto, Threads, Awaiting, Mixing, Completing,
     CallSet, ToTunnel
<1>23. CASE RecvValidate
  BY <1>23, <1>a, <1>q DEF RecvValidate, Goto, Threads, Awaiting, Mixing, Completing,
     CallSet, ToTunnel
<1>24. ASSUME NEW m \in ToTunnel, Recv(m) PROVE HandshakesFresh'
  BY <1>24, <1>a, <1>q DEF Recv, Goto, Threads, Awaiting, Mixing, Completing, CallSet,
     ToTunnel
<1>25. CASE SendCheck
  BY <1>25, <1>a, <1>q DEF SendCheck, Goto, Threads, Awaiting, Mixing, Completing,
     CallSet, ToTunnel
<1>26. CASE SendCounter
  BY <1>26, <1>a, <1>q DEF SendCounter, TakeCounter, Goto, Threads, Awaiting, Mixing,
     Completing, CallSet, ToTunnel
<1>27. CASE SendEncrypt
  <2>1. ToTunnel' = ToTunnel
    BY SMT, <1>27 DEF SendEncrypt, Encrypt, ToTunnel, DataMsg
  <2> QED
    BY <1>27, <1>a, <1>q, <2>1 DEF SendEncrypt, Goto, Threads, Awaiting, Mixing, Completing
<1>28. CASE ZeroKeys
  BY <1>28, <1>a, <1>q DEF ZeroKeys, Goto, Threads, Awaiting, Mixing, Completing,
     CallSet, ToTunnel
<1>29. CASE Tick
  BY <1>29, <1>a, <1>q DEF Tick, Goto, Threads, Awaiting, Mixing, Completing, CallSet,
     ToTunnel
<1>30. ASSUME NEW m \in net, PeerAnswer(m) PROVE HandshakesFresh'
  <2>1. \A ok : ResponseMsg("peer", nextId, m.sender, ok).sender = nextId
    BY DEF ResponseMsg
  <2>2. CookieMsg(m.sender).type = "cookie"
    BY DEF CookieMsg
  <2>3. PICK x : net' = net \cup {x} /\ (x.sender = nextId \/ x.type = "cookie")
    BY <1>30, <2>1, <2>2 DEF PeerAnswer
  <2>4. \A y \in ToTunnel' : y.type \in {"init", "response"} => y \in ToTunnel \/ y.sender = nextId
    BY <2>3 DEF ToTunnel
  <2> QED
    BY <1>30, <1>q, <2>4 DEF PeerAnswer
<1>31. ASSUME NEW m \in net, PeerAdopt(m) PROVE HandshakesFresh'
  BY <1>31, <1>a, <1>q DEF PeerAdopt, Goto, Threads, Awaiting, Mixing, Completing,
     CallSet, ToTunnel
<1>32. CASE PeerInitiate
  BY SMT, <1>32, <1>a, <1>q DEF PeerInitiate, Goto, Threads, Awaiting, Mixing, Completing,
     CallSet, ToTunnel, InitMsg, ResponseMsg, CookieMsg, DataMsg
<1>33. CASE PeerSend
  BY SMT, <1>33, <1>a, <1>q DEF PeerSend, Goto, Threads, Awaiting, Mixing, Completing,
     CallSet, ToTunnel, InitMsg, ResponseMsg, CookieMsg, DataMsg
<1>34. CASE KeepaliveStore
  BY <1>34, <1>a, <1>q DEF KeepaliveStore, StoreCounter, Goto, Threads, Awaiting, Mixing,
     Completing, CallSet, ToTunnel
<1>35. CASE SendStore
  BY <1>35, <1>a, <1>q DEF SendStore, StoreCounter, Goto, Threads, Awaiting, Mixing,
     Completing, CallSet, ToTunnel
<1> QED
  BY <1>1, <1>2, <1>3, <1>4, <1>5, <1>6, <1>7, <1>8, <1>9, <1>10, <1>11, <1>12,
     <1>13, <1>14, <1>15, <1>16, <1>17, <1>18, <1>19, <1>20, <1>21, <1>22, <1>23,
     <1>24, <1>25, <1>26, <1>27, <1>28, <1>29, <1>30, <1>31, <1>32, <1>33, <1>34, <1>35
     DEF Next, ControlStep, RecvStep, SenderStep, Peer

\* When thread t leaves the places P, a key of its own handshake belongs to none of the
\* others.
LEMMA PairPast ==
  ASSUME TypeOK, HandshakesFresh, NEW P \in {Mixing, Completing}, NEW t \in {"ctl", "recv"}, NEW k,
         pc[t] \in Completing, k.i = hs[t][1], k.r = hs[t][2],
         pc'[t] \notin P \cup Awaiting, \A u \in Threads \ {t} : pc'[u] = pc[u] /\ hs'[u] = hs[u],
         call'.state = call.state
  PROVE  NotOf(k, P)'
<1>1. \A u \in Threads \ {t} : pc[u] \in P => hs[u] # hs[t]
  BY ZenonT(40) DEF TypeOK, PcOK, Threads, HandshakesFresh, Mixing, Completing
<1>2. \A u \in Threads : hs[u] \in Ids \X Ids
  BY DEF TypeOK, LocalsOK
<1>3. \A u \in Threads \ {t} : pc'[u] \in P => ~(k.i = hs'[u][1] /\ k.r = hs'[u][2])
  BY SMT, <1>1, <1>2 DEF Threads
<1>4. pc'["ctl"] \in Awaiting => k.i # call.state
  BY DEF HandshakesFresh, Threads
<1> QED
  BY <1>3, <1>4 DEF NotOf

\* No counter, window, packet or delivery belongs to a handshake before its reset
\* (the *_reset steps of wg_handshake_response and wg_handshake_init_process).
LEMMA OwnersStep ==
  TypeOK /\ HandshakesFresh /\ OwnersPast /\ Next => OwnersPast'
<1> SUFFICES ASSUME TypeOK, HandshakesFresh, OwnersPast, Next PROVE OwnersPast'
  OBVIOUS
<1> DEFINE Past == {k \in KeySet : NotOf(k, Completing)'}
<1>a. /\ pc \in [Threads -> Looping \cup {"idle", "finish", "store", "keepalive", "off",
                                         "recv", "decrypt", "validate", "lock", "encrypt"}]
      /\ hs \in [Threads -> Ids \X Ids] /\ session \in Session /\ prev \in Session
      /\ tx \in [Threads -> TxSet] /\ NoKey \in KeySet /\ call \in CallSet
  BY Zeros DEF TypeOK, PcOK, LocalsOK, SessionOK, NetOK
<1>b. \A k \in KeySet : NotOf(k, Completing) => k \in Past
  BY NotOfStep
<1>c. NoKey \in Past
  <2>1. NotOf(NoKey, Completing)
    BY DEF NotOf, NoKey, Kdf2, HandshakesFresh
  <2> QED
    BY <1>a, <1>b, <2>1
<1>d. session.owner \in Past /\ prev.owner \in Past /\ session.counted \in Past
  BY <1>a, <1>b DEF OwnersPast, Session
<1>e. \A t \in Threads : tx[t].owner \in Past
  BY <1>a, <1>b DEF OwnersPast, TxSet
<1>f. \A m \in TunData : m.owner \in Past
  BY <1>b DEF OwnersPast, TunData, TypeOK, NetOK, MsgOK
<1>g. "window" \notin raced => \A x \in delivered : x[1] \in Past
  BY <1>b DEF OwnersPast, TypeOK, NetOK
<1>h. ASSUME session'.owner \in Past, prev'.owner \in Past, session'.counted \in Past,
             \A t \in Threads : tx'[t].owner \in Past, \A m \in TunData' : m.owner \in Past,
             "window" \notin raced' => \A x \in delivered' : x[1] \in Past
      PROVE  OwnersPast'
  BY <1>h DEF OwnersPast, NotOf
<1>i. ASSUME NEW t \in Threads, Encrypt(t) PROVE /\ \A u \in Threads : tx'[u].owner \in Past
                                                 /\ \A m \in TunData' : m.owner \in Past
                                                 /\ raced \subseteq raced'
  <2> DEFINE owner == IF Pair(session.sending_key) = tx[t].owner THEN tx[t].owner ELSE NoKey
             x == DataMsg("tun", tx[t].receiver, session.sending_key, tx[t].counter, owner)
  <2>1. owner \in Past
    BY <1>c, <1>e
  <2>2. net' = net \cup {x} /\ tx' = [tx EXCEPT ![t] = NoTx]
    BY <1>i DEF Encrypt
  <2>3. x.owner = owner
    BY DEF DataMsg
  <2> HIDE DEF x, owner
  <2>4. \A m \in TunData' : m.owner \in Past
    BY <1>f, <2>1, <2>2, <2>3 DEF TunData
  <2>5. raced \subseteq raced'
    BY <1>i DEF Encrypt
  <2> QED
    BY <1>a, <1>c, <1>e, <2>2, <2>4, <2>5 DEF NoTx
<1>j. ASSUME NEW t \in {"ctl", "recv"}, pc[t] \in Completing, pc'[t] \in {"finish", "recv"},
             \A u \in Threads \ {t} : pc'[u] = pc[u] /\ hs'[u] = hs[u], call'.state = call.state
      PROVE  OwnerAfter(t) \in Past
  <2>1. CASE OwnerAfter(t) = NoKey
    BY <1>c, <2>1
  <2>2. CASE OwnerAfter(t) # NoKey
    <3>1. PICK k : k \in KeySet /\ k.i = hs[t][1] /\ k.r = hs[t][2] /\ OwnerAfter(t) = k
      BY SMT, <1>a, <2>2 DEF OwnerAfter, Session
    <3>2. pc'[t] \notin Completing \cup Awaiting
      BY <1>j DEF Completing, Mixing, Awaiting
    <3>3. NotOf(k, Completing)'
      BY <1>j, <3>1, <3>2, PairPast
    <3> QED
      BY <3>1, <3>3
  <2> QED
    BY <2>1, <2>2
<1> HIDE DEF Past
<1>1. CASE Connect
  BY <1>1, <1>a, <1>c, <1>d, <1>e, <1>f, <1>g, <1>h DEF Connect, TunData, history, Session
<1>2. CASE Rekey
  BY <1>2, <1>a, <1>c, <1>d, <1>e, <1>f, <1>g, <1>h DEF Rekey, TunData, history, Session
<1>3. CASE Start
  BY <1>3, <1>a, <1>c, <1>d, <1>e, <1>f, <1>g, <1>h DEF Start, TunData, history, Session
<1>4. CASE Stop
  BY <1>4, <1>a, <1>c, <1>d, <1>e, <1>f, <1>g, <1>h DEF Stop, TunData, history, Session
<1>5. CASE HandshakeInit
  BY <1>5, <1>a, <1>c, <1>d, <1>e, <1>f, <1>g, <1>h DEF HandshakeInit, TunData,
     history, Session
<1>6. CASE SendInit
  <2>1. TunData' = TunData
    BY SMT, <1>6 DEF SendInit, TunData, InitMsg, ResponseMsg, CookieMsg, DataMsg
  <2> QED
    BY <1>6, <1>d, <1>e, <1>f, <1>g, <1>h, <2>1 DEF SendInit, history
<1>7. CASE Timeout
  BY <1>7, <1>a, <1>c, <1>d, <1>e, <1>f, <1>g, <1>h DEF Timeout, TunData, history, Session
<1>8. CASE RekeyWake
  BY <1>8, <1>a, <1>c, <1>d, <1>e, <1>f, <1>g, <1>h DEF RekeyWake, TunData, history, Session
<1>9. ASSUME NEW m \in ToTunnel, ConnectReceive(m) PROVE OwnersPast'
  BY <1>9, <1>a, <1>c, <1>d, <1>e, <1>f, <1>g, <1>h DEF ConnectReceive, TunData,
     history, Session
<1>10. CASE ResponseCheck
  BY <1>10, <1>a, <1>c, <1>d, <1>e, <1>f, <1>g, <1>h DEF ResponseCheck, TunData,
     history, Session
<1>11. CASE ResponseRotate
  BY <1>11, <1>a, <1>c, <1>d, <1>e, <1>f, <1>g, <1>h DEF ResponseRotate, TunData,
     history, Session
<1>12. CASE ResponseKeys
  BY <1>12, <1>a, <1>c, <1>d, <1>e, <1>f, <1>g, <1>h DEF ResponseKeys, TunData,
     history, Session
<1>13. CASE ResponseReset
  <2>1. OwnerAfter("ctl") \in Past
    BY <1>13, <1>a, <1>j DEF ResponseReset, Goto, Threads, Completing, CallSet
  <2>2. session'.owner = OwnerAfter("ctl") /\ session'.counted = OwnerAfter("ctl")
    BY <1>13, <1>a DEF ResponseReset, Session
  <2> QED
    BY <1>13, <1>d, <1>e, <1>f, <1>g, <1>h, <2>1, <2>2 DEF ResponseReset, TunData, history
<1>14. ASSUME NEW t \in {"ctl", "recv"}, PassiveRotate(t) PROVE OwnersPast'
  BY <1>14, <1>a, <1>c, <1>d, <1>e, <1>f, <1>g, <1>h DEF PassiveRotate, TunData,
     history, Session
<1>15. ASSUME NEW t \in {"ctl", "recv"}, PassiveKeys(t) PROVE OwnersPast'
  BY <1>15, <1>a, <1>c, <1>d, <1>e, <1>f, <1>g, <1>h DEF PassiveKeys, TunData,
     history, Session
<1>16. ASSUME NEW t \in {"ctl", "recv"}, PassiveReset(t) PROVE OwnersPast'
  <2>1. OwnerAfter(t) \in Past
    BY <1>16, <1>a, <1>j DEF PassiveReset, Goto, Threads, Completing, CallSet
  <2>2. session'.owner = OwnerAfter(t) /\ session'.counted = OwnerAfter(t)
    BY <1>16, <1>a DEF PassiveReset, Session
  <2>3. TunData' = TunData
    BY SMT, <1>16 DEF PassiveReset, TunData, ResponseMsg
  <2> QED
    BY <1>16, <1>d, <1>e, <1>f, <1>g, <1>h, <2>1, <2>2, <2>3 DEF PassiveReset, history
<1>17. CASE ReturnError
  BY <1>17, <1>a, <1>c, <1>d, <1>e, <1>f, <1>g, <1>h DEF ReturnError, TunData,
     history, Session
<1>18. CASE KeepaliveCounter
  <2>1. raced \subseteq raced'
    BY <1>18 DEF KeepaliveCounter, TakeCounter
  <2>2. \A u \in Threads : tx'[u].owner \in Past
    BY <1>18, <1>a, <1>d, <1>e DEF KeepaliveCounter, TakeCounter
  <2> QED
    BY <1>18, <1>d, <1>f, <1>g, <1>h, <2>1, <2>2 DEF KeepaliveCounter, TunData
<1>19. CASE KeepaliveEncrypt
  BY <1>19, <1>d, <1>g, <1>h, <1>i DEF KeepaliveEncrypt, Threads
<1>20. ASSUME NEW m \in ToTunnel, RecvHandshake(m) PROVE OwnersPast'
  BY <1>20, <1>a, <1>c, <1>d, <1>e, <1>f, <1>g, <1>h DEF RecvHandshake, TunData,
     history, Session
<1>21. ASSUME NEW m \in ToTunnel, RecvMatch(m) PROVE OwnersPast'
  BY SMT, <1>21, <1>c, <1>d, <1>e, <1>f, <1>g, <1>h DEF RecvMatch, ZeroSession, TunData, history
<1>22. CASE RecvDecrypt
  BY <1>22, <1>a, <1>c, <1>d, <1>e, <1>f, <1>g, <1>h DEF RecvDecrypt, TunData,
     history, Session
<1>23. CASE RecvValidate
  <2>1. "window" \notin raced' => \A x \in delivered' : x[1] \in Past
    BY SMT, <1>23, <1>d, <1>g DEF RecvValidate, Deliver, Sess, history
  <2>2. session'.owner = session.owner /\ prev'.owner = prev.owner /\ session'.counted = session.counted
    BY <1>23, <1>a DEF RecvValidate, Session
  <2> QED
    BY <1>23, <1>d, <1>e, <1>f, <1>h, <2>1, <2>2 DEF RecvValidate, TunData
<1>24. ASSUME NEW m \in ToTunnel, Recv(m) PROVE OwnersPast'
  <2>1. "window" \notin raced' => \A x \in delivered' : x[1] \in Past
    BY SMT, <1>24, <1>d, <1>g DEF Recv, Deliver, Sess, history
  <2>2. session'.owner = session.owner /\ prev'.owner = prev.owner /\ session'.counted = session.counted
    BY <1>24, <1>a DEF Recv, Session
  <2> QED
    BY <1>24, <1>d, <1>e, <1>f, <1>h, <2>1, <2>2 DEF Recv, TunData
<1>25. CASE SendCheck
  BY <1>25, <1>a, <1>c, <1>d, <1>e, <1>f, <1>g, <1>h DEF SendCheck, TunData, history,
     Session
<1>26. CASE SendCounter
  <2>1. raced \subseteq raced'
    BY <1>26 DEF SendCounter, TakeCounter
  <2>2. \A u \in Threads : tx'[u].owner \in Past
    BY <1>26, <1>a, <1>d, <1>e DEF SendCounter, TakeCounter
  <2> QED
    BY <1>26, <1>d, <1>f, <1>g, <1>h, <2>1, <2>2 DEF SendCounter, TunData
<1>27. CASE SendEncrypt
  BY <1>27, <1>d, <1>g, <1>h, <1>i DEF SendEncrypt, Threads
<1>28. CASE ZeroKeys
  BY <1>28, <1>c, <1>e, <1>f, <1>g, <1>h DEF ZeroKeys, ZeroSession, TunData, history
<1>29. CASE Tick
  BY <1>29, <1>a, <1>d, <1>e, <1>f, <1>g, <1>h DEF Tick, Older, TunData, history, Session
<1>30. ASSUME NEW m \in net, PeerAnswer(m) PROVE OwnersPast'
  <2>1. PICK x : net' = net \cup {x} /\ x.from = "peer"
    <3>1. \A ok : ResponseMsg("peer", nextId, m.sender, ok).from = "peer"
      BY DEF ResponseMsg
    <3>2. CookieMsg(m.sender).from = "peer"
      BY DEF CookieMsg
    <3> QED
      BY <1>30, <3>1, <3>2 DEF PeerAnswer
  <2>2. TunData' = TunData
    BY <2>1 DEF TunData
  <2> QED
    BY <1>30, <1>d, <1>e, <1>f, <1>g, <1>h, <2>2 DEF PeerAnswer, history
<1>31. ASSUME NEW m \in net, PeerAdopt(m) PROVE OwnersPast'
  BY <1>31, <1>a, <1>c, <1>d, <1>e, <1>f, <1>g, <1>h DEF PeerAdopt, TunData, history,
     Session
<1>32. CASE PeerInitiate
  <2>1. TunData' = TunData
    BY SMT, <1>32 DEF PeerInitiate, TunData, InitMsg, ResponseMsg, CookieMsg, DataMsg
  <2> QED
    BY <1>32, <1>d, <1>e, <1>f, <1>g, <1>h, <2>1 DEF PeerInitiate, history
<1>33. CASE PeerSend
  <2>1. TunData' = TunData
    BY SMTT(30), <1>33 DEF PeerSend, TunData, InitMsg, ResponseMsg, CookieMsg, DataMsg
  <2> QED
    BY <1>33, <1>d, <1>e, <1>f, <1>g, <1>h, <2>1 DEF PeerSend, history
<1>34. CASE KeepaliveStore
  BY <1>34, <1>a, <1>d, <1>e, <1>f, <1>g, <1>h DEF KeepaliveStore, StoreCounter, TunData, history,
     Session, Threads
<1>35. CASE SendStore
  BY <1>35, <1>a, <1>d, <1>e, <1>f, <1>g, <1>h DEF SendStore, StoreCounter, TunData, history,
     Session, Threads
<1> QED
  BY <1>1, <1>2, <1>3, <1>4, <1>5, <1>6, <1>7, <1>8, <1>9, <1>10, <1>11, <1>12,
     <1>13, <1>14, <1>15, <1>16, <1>17, <1>18, <1>19, <1>20, <1>21, <1>22, <1>23,
     <1>24, <1>25, <1>26, <1>27, <1>28, <1>29, <1>30, <1>31, <1>32, <1>33, <1>34, <1>35
     DEF Next, ControlStep, RecvStep, SenderStep, Peer

\* No session, and not the key a wg_rekey started from, has the keys of a handshake
\* before they are written.
LEMMA KeysStep == TypeOK /\ HandshakesFresh /\ KeysPast /\ Next => KeysPast'
<1> SUFFICES ASSUME TypeOK, HandshakesFresh, KeysPast, Next PROVE KeysPast'
  OBVIOUS
<1> DEFINE Past == {k \in KeySet : NotOf(k, Mixing)'}
<1>a. /\ pc \in [Threads -> Looping \cup {"idle", "finish", "store", "keepalive", "off",
                                         "recv", "decrypt", "validate", "lock", "encrypt"}]
      /\ hs \in [Threads -> Ids \X Ids] /\ session \in Session /\ prev \in Session
      /\ NoKey \in KeySet /\ call \in CallSet
  BY Zeros DEF TypeOK, PcOK, LocalsOK, SessionOK, NetOK
<1>b. \A k \in KeySet : NotOf(k, Mixing) => k \in Past
  BY NotOfStep
<1>c. NoKey \in Past
  <2>1. NotOf(NoKey, Mixing)
    BY DEF NotOf, NoKey, Kdf2, HandshakesFresh, Completing
  <2> QED
    BY <1>a, <1>b, <2>1
<1>d. session.receiving_key \in Past /\ prev.receiving_key \in Past /\ call.key \in Past
  BY <1>a, <1>b DEF KeysPast, Session, CallSet
<1>e. ASSUME session'.receiving_key \in Past, prev'.receiving_key \in Past, call'.key \in Past
      PROVE  KeysPast'
  BY <1>e DEF KeysPast, NotOf
<1>f. ASSUME NEW t \in {"ctl", "recv"}, NEW d \in {1, 2}, pc[t] \in Completing,
             pc'[t] \in {"reset", "passive_reset"},
             \A u \in Threads \ {t} : pc'[u] = pc[u] /\ hs'[u] = hs[u], call' = call
      PROVE  Kdf2(hs[t][1], hs[t][2], d) \in Past
  <2>1. PICK k : k = Kdf2(hs[t][1], hs[t][2], d)
    OBVIOUS
  <2>2. k \in KeySet /\ k.i = hs[t][1] /\ k.r = hs[t][2]
    BY SMT, <1>a, <2>1 DEF Kdf2, KeySet, Threads
  <2>3. pc'[t] \notin Mixing \cup Awaiting
    BY <1>f DEF Mixing, Awaiting
  <2>4. NotOf(k, Mixing)'
    BY <1>f, <2>2, <2>3, PairPast
  <2> QED
    BY <2>1, <2>2, <2>4
<1> HIDE DEF Past
<1>1. CASE Connect
  BY <1>1, <1>a, <1>d, <1>e DEF Connect, Session, CallSet
<1>2. CASE Rekey
  BY <1>2, <1>a, <1>d, <1>e DEF Rekey, Session, CallSet
<1>3. CASE Start
  BY <1>3, <1>a, <1>d, <1>e DEF Start, Session, CallSet
<1>4. CASE Stop
  BY <1>4, <1>a, <1>d, <1>e DEF Stop, Session, CallSet
<1>5. CASE HandshakeInit
  BY <1>5, <1>a, <1>d, <1>e DEF HandshakeInit, Session, CallSet
<1>6. CASE SendInit
  BY <1>6, <1>a, <1>d, <1>e DEF SendInit, Session, CallSet
<1>7. CASE Timeout
  BY <1>7, <1>a, <1>d, <1>e DEF Timeout, Continue, Session, CallSet
<1>8. CASE RekeyWake
  BY <1>8, <1>a, <1>d, <1>e DEF RekeyWake, Continue, Session, CallSet
<1>9. ASSUME NEW m \in ToTunnel, ConnectReceive(m) PROVE KeysPast'
  BY <1>9, <1>a, <1>d, <1>e DEF ConnectReceive, Continue, Session, CallSet
<1>10. CASE ResponseCheck
  BY <1>10, <1>a, <1>d, <1>e DEF ResponseCheck, Continue, Session, CallSet
<1>11. CASE ResponseRotate
  BY <1>11, <1>a, <1>d, <1>e DEF ResponseRotate, Session, CallSet
<1>12. CASE ResponseKeys
  <2>1. Kdf2(hs["ctl"][1], hs["ctl"][2], 2) \in Past
    BY <1>12, <1>a, <1>f DEF ResponseKeys, Goto, Threads, Completing, Mixing
  <2>2. session'.receiving_key = Kdf2(hs["ctl"][1], hs["ctl"][2], 2)
    BY <1>12, <1>a DEF ResponseKeys, Session
  <2> QED
    BY <1>12, <1>d, <1>e, <2>1, <2>2 DEF ResponseKeys
<1>13. CASE ResponseReset
  BY <1>13, <1>a, <1>d, <1>e DEF ResponseReset, Session, CallSet
<1>14. ASSUME NEW t \in {"ctl", "recv"}, PassiveRotate(t) PROVE KeysPast'
  BY <1>14, <1>a, <1>d, <1>e DEF PassiveRotate, Session, CallSet
<1>15. ASSUME NEW t \in {"ctl", "recv"}, PassiveKeys(t) PROVE KeysPast'
  <2>1. Kdf2(hs[t][1], hs[t][2], 1) \in Past
    BY <1>15, <1>a, <1>f DEF PassiveKeys, Goto, Threads, Completing, Mixing
  <2>2. session'.receiving_key = Kdf2(hs[t][1], hs[t][2], 1)
    BY <1>15, <1>a DEF PassiveKeys, Session
  <2> QED
    BY <1>15, <1>d, <1>e, <2>1, <2>2 DEF PassiveKeys
<1>16. ASSUME NEW t \in {"ctl", "recv"}, PassiveReset(t) PROVE KeysPast'
  BY <1>16, <1>a, <1>d, <1>e DEF PassiveReset, Session, CallSet
<1>17. CASE ReturnError
  BY <1>17, <1>a, <1>d, <1>e DEF ReturnError, Session, CallSet
<1>18. CASE KeepaliveCounter
  BY <1>18, <1>a, <1>d, <1>e DEF KeepaliveCounter, TakeCounter, Session, CallSet
<1>19. CASE KeepaliveEncrypt
  BY <1>19, <1>a, <1>d, <1>e DEF KeepaliveEncrypt, Encrypt, Session, CallSet
<1>20. ASSUME NEW m \in ToTunnel, RecvHandshake(m) PROVE KeysPast'
  BY <1>20, <1>a, <1>d, <1>e DEF RecvHandshake, Session, CallSet
<1>21. ASSUME NEW m \in ToTunnel, RecvMatch(m) PROVE KeysPast'
  <2>1. session' = session /\ call' = call /\ (prev' = prev \/ prev' = ZeroSession)
    BY <1>21 DEF RecvMatch
  <2>2. ZeroSession.receiving_key = NoKey
    BY DEF ZeroSession
  <2> QED
    BY <1>c, <1>d, <1>e, <2>1, <2>2
<1>22. CASE RecvDecrypt
  BY <1>22, <1>a, <1>d, <1>e DEF RecvDecrypt, Session, CallSet
<1>23. CASE RecvValidate
  BY <1>23, <1>a, <1>d, <1>e DEF RecvValidate, Session, CallSet
<1>24. ASSUME NEW m \in ToTunnel, Recv(m) PROVE KeysPast'
  BY <1>24, <1>a, <1>d, <1>e DEF Recv, Session, CallSet
<1>25. CASE SendCheck
  BY <1>25, <1>a, <1>d, <1>e DEF SendCheck, Session, CallSet
<1>26. CASE SendCounter
  BY <1>26, <1>a, <1>d, <1>e DEF SendCounter, TakeCounter, Session, CallSet
<1>27. CASE SendEncrypt
  BY <1>27, <1>a, <1>d, <1>e DEF SendEncrypt, Encrypt, Session, CallSet
<1>28. CASE ZeroKeys
  BY <1>28, <1>c, <1>d, <1>e DEF ZeroKeys, ZeroSession
<1>29. CASE Tick
  BY <1>29, <1>a, <1>d, <1>e DEF Tick, Older, Session
<1>30. ASSUME NEW m \in net, PeerAnswer(m) PROVE KeysPast'
  BY <1>30, <1>a, <1>d, <1>e DEF PeerAnswer, Session, CallSet
<1>31. ASSUME NEW m \in net, PeerAdopt(m) PROVE KeysPast'
  BY <1>31, <1>a, <1>d, <1>e DEF PeerAdopt, Session, CallSet
<1>32. CASE PeerInitiate
  BY <1>32, <1>a, <1>d, <1>e DEF PeerInitiate, Session, CallSet
<1>33. CASE PeerSend
  BY <1>33, <1>a, <1>d, <1>e DEF PeerSend, Session, CallSet
<1>34. CASE KeepaliveStore
  BY <1>34, <1>a, <1>d, <1>e DEF KeepaliveStore, StoreCounter, Session, CallSet
<1>35. CASE SendStore
  BY <1>35, <1>a, <1>d, <1>e DEF SendStore, StoreCounter, Session, CallSet
<1> QED
  BY <1>1, <1>2, <1>3, <1>4, <1>5, <1>6, <1>7, <1>8, <1>9, <1>10, <1>11, <1>12,
     <1>13, <1>14, <1>15, <1>16, <1>17, <1>18, <1>19, <1>20, <1>21, <1>22, <1>23,
     <1>24, <1>25, <1>26, <1>27, <1>28, <1>29, <1>30, <1>31, <1>32, <1>33, <1>34, <1>35
     DEF Next, ControlStep, RecvStep, SenderStep, Peer

-----------------------------------------------------------------------------
(* Counters and windows. *)

\* send_mutex keeps the keepalive of wg_rekey and wg_send apart, so the two are never
\* between the load and the store of sending_counter++ together.
LEMMA MutexStep == TypeOK /\ MutexInv /\ Next => MutexInv'
<1> SUFFICES ASSUME TypeOK, MutexInv, Next PROVE MutexInv'
  OBVIOUS
<1>a. /\ DOMAIN pc = Threads /\ call \in CallSet
      /\ pc["recv"] \in {"off", "recv", "decrypt", "validate"} \cup Installing
      /\ pc["ctl"] \in Looping \cup {"idle", "finish", "store", "keepalive"}
  BY DEF TypeOK, PcOK, LocalsOK
<1> DEFINE Both == {"store", "encrypt"}
<1>q. ASSUME "wg_rekey" \notin raced',
             pc'["ctl"] \in {"store", "keepalive"} => pc["ctl"] \in {"store", "keepalive"} /\ call' = call,
             pc'["app"] \in Both => pc["app"] \in Both
      PROVE  MutexInv'
  BY <1>q DEF MutexInv
<1>r. ASSUME raced' = raced PROVE "wg_rekey" \notin raced'
  BY <1>r DEF MutexInv
<1>l. ASSUME NEW l \in Looping \cup {"idle", "finish"} PROVE l \notin {"store", "keepalive"}
  BY <1>l DEF Looping, Awaiting, Completing, Mixing
<1>p. {"attempt", "send", "wait", "check", "rotate", "keys", "reset", "passive_rotate",
       "passive_keys", "passive_reset"} \subseteq Looping
  BY DEF Looping, Awaiting, Completing, Mixing
<1>t. ASSUME NEW t \in {"ctl", "app"}, TakeCounter(t),
             call.name = "wg_rekey" => \A u \in {"ctl", "app"} \ {t} : pc[u] # "store"
      PROVE  "wg_rekey" \notin raced'
  BY <1>a, <1>t DEF TakeCounter, MutexInv, Threads, Installing
<1>1. CASE Connect
  BY <1>1, <1>a, <1>l, <1>p, <1>q, <1>r DEF Connect, Goto, Threads, history
<1>2. CASE Rekey
  BY <1>2, <1>a, <1>l, <1>p, <1>q, <1>r DEF Rekey, Goto, Threads, history
<1>3. CASE Start
  BY <1>3, <1>a, <1>l, <1>p, <1>q, <1>r DEF Start, Goto, Threads, history
<1>4. CASE Stop
  BY <1>4, <1>a, <1>l, <1>p, <1>q, <1>r DEF Stop, Goto, Threads, history
<1>5. CASE HandshakeInit
  BY <1>5, <1>a, <1>l, <1>p, <1>q, <1>r DEF HandshakeInit, Goto, Threads, history
<1>6. CASE SendInit
  BY <1>6, <1>a, <1>l, <1>p, <1>q, <1>r DEF SendInit, Goto, Threads, history
<1>7. CASE Timeout
  BY <1>7, <1>a, <1>l, <1>p, <1>q, <1>r DEF Timeout, Continue, Goto, Threads, history
<1>8. CASE RekeyWake
  BY <1>8, <1>a, <1>l, <1>p, <1>q, <1>r DEF RekeyWake, Continue, Goto, Threads, history
<1>9. ASSUME NEW m \in ToTunnel, ConnectReceive(m) PROVE MutexInv'
  BY <1>9, <1>a, <1>l, <1>p, <1>q, <1>r DEF ConnectReceive, Continue, Goto, Threads, history
<1>10. CASE ResponseCheck
  BY <1>10, <1>a, <1>l, <1>p, <1>q, <1>r DEF ResponseCheck, Continue, Goto, Threads, history
<1>11. CASE ResponseRotate
  BY <1>11, <1>a, <1>l, <1>p, <1>q, <1>r DEF ResponseRotate, Goto, Threads, history
<1>12. CASE ResponseKeys
  BY <1>12, <1>a, <1>l, <1>p, <1>q, <1>r DEF ResponseKeys, Goto, Threads, history
<1>13. CASE ResponseReset
  BY <1>13, <1>a, <1>l, <1>p, <1>q, <1>r DEF ResponseReset, Goto, Threads, history
<1>14. ASSUME NEW t \in {"ctl", "recv"}, PassiveRotate(t) PROVE MutexInv'
  BY <1>14, <1>a, <1>l, <1>p, <1>q, <1>r DEF PassiveRotate, Goto, Threads, history
<1>15. ASSUME NEW t \in {"ctl", "recv"}, PassiveKeys(t) PROVE MutexInv'
  BY <1>15, <1>a, <1>l, <1>p, <1>q, <1>r DEF PassiveKeys, Goto, Threads, history
<1>16. ASSUME NEW t \in {"ctl", "recv"}, PassiveReset(t) PROVE MutexInv'
  BY <1>16, <1>a, <1>l, <1>p, <1>q, <1>r DEF PassiveReset, Goto, Threads, history
<1>17. CASE ReturnError
  BY <1>17, <1>a, <1>l, <1>p, <1>q, <1>r DEF ReturnError, Goto, Threads, history
<1>18. CASE KeepaliveCounter
  <2>1. "wg_rekey" \notin raced'
    BY <1>18, <1>t DEF KeepaliveCounter, Goto
  <2> QED
    BY <1>18, <1>a, <2>1 DEF KeepaliveCounter, Goto, Threads, MutexInv
<1>19. CASE KeepaliveEncrypt
  <2>1. "wg_rekey" \notin raced'
    BY <1>19 DEF KeepaliveEncrypt, Encrypt, MutexInv
  <2> QED
    BY <1>19, <1>a, <1>q, <2>1 DEF KeepaliveEncrypt, Goto, Threads
<1>20. ASSUME NEW m \in ToTunnel, RecvHandshake(m) PROVE MutexInv'
  BY <1>20, <1>a, <1>l, <1>p, <1>q, <1>r DEF RecvHandshake, Goto, Threads, history
<1>21. ASSUME NEW m \in ToTunnel, RecvMatch(m) PROVE MutexInv'
  BY <1>21, <1>a, <1>l, <1>p, <1>q, <1>r DEF RecvMatch, Goto, Threads, history
<1>22. CASE RecvDecrypt
  BY <1>22, <1>a, <1>l, <1>p, <1>q, <1>r DEF RecvDecrypt, Goto, Threads, history
<1>23. CASE RecvValidate
  <2>1. "wg_rekey" \notin raced'
    <3>1. raced' = raced \/ raced' = raced \cup {"window"}
      BY <1>23 DEF RecvValidate, Deliver, history
    <3> QED
      BY SMT, <3>1 DEF MutexInv
  <2> QED
    BY <1>23, <1>a, <1>q, <2>1 DEF RecvValidate, Goto, Threads
<1>24. ASSUME NEW m \in ToTunnel, Recv(m) PROVE MutexInv'
  <2>1. "wg_rekey" \notin raced'
    BY <1>24 DEF Recv, Deliver, history, MutexInv
  <2> QED
    BY <1>24, <1>a, <1>q, <2>1 DEF Recv, Goto, Threads
<1>25. CASE SendCheck
  BY <1>25, <1>a, <1>l, <1>p, <1>q, <1>r DEF SendCheck, Goto, Threads, history
<1>26. CASE SendCounter
  <2>1. "wg_rekey" \notin raced'
    BY <1>26, <1>t DEF SendCounter, Goto
  <2> QED
    BY <1>26, <1>a, <2>1 DEF SendCounter, Goto, Threads, MutexInv
<1>27. CASE SendEncrypt
  <2>1. "wg_rekey" \notin raced'
    BY <1>27 DEF SendEncrypt, Encrypt, MutexInv
  <2> QED
    BY <1>27, <1>a, <1>q, <2>1 DEF SendEncrypt, Goto, Threads
<1>28. CASE ZeroKeys
  BY <1>28, <1>a, <1>l, <1>p, <1>q, <1>r DEF ZeroKeys, Goto, Threads, history
<1>29. CASE Tick
  BY <1>29, <1>a, <1>l, <1>p, <1>q, <1>r DEF Tick, Goto, Threads, history
<1>30. ASSUME NEW m \in net, PeerAnswer(m) PROVE MutexInv'
  BY <1>30, <1>a, <1>l, <1>p, <1>q, <1>r DEF PeerAnswer, Goto, Threads, history
<1>31. ASSUME NEW m \in net, PeerAdopt(m) PROVE MutexInv'
  BY <1>31, <1>a, <1>l, <1>p, <1>q, <1>r DEF PeerAdopt, Goto, Threads, history
<1>32. CASE PeerInitiate
  BY <1>32, <1>a, <1>l, <1>p, <1>q, <1>r DEF PeerInitiate, Goto, Threads, history
<1>33. CASE PeerSend
  BY <1>33, <1>a, <1>l, <1>p, <1>q, <1>r DEF PeerSend, Goto, Threads, history
<1>34. CASE KeepaliveStore
  BY <1>34, <1>a, <1>l, <1>p, <1>q, <1>r DEF KeepaliveStore, StoreCounter, Goto, Threads, history
<1>35. CASE SendStore
  BY <1>35, <1>a, <1>l, <1>p, <1>q, <1>r DEF SendStore, StoreCounter, Goto, Threads, history
<1> QED
  BY <1>1, <1>2, <1>3, <1>4, <1>5, <1>6, <1>7, <1>8, <1>9, <1>10, <1>11, <1>12,
     <1>13, <1>14, <1>15, <1>16, <1>17, <1>18, <1>19, <1>20, <1>21, <1>22, <1>23,
     <1>24, <1>25, <1>26, <1>27, <1>28, <1>29, <1>30, <1>31, <1>32, <1>33, <1>34, <1>35
     DEF Next, ControlStep, RecvStep, SenderStep, Peer

\* The counters of a key stay below sending_counter and are each used once, whichever
\* of wg_send and wg_send_keepalive takes them and whatever is installed in between,
\* until the keepalive of wg_connect overlaps with wg_send's or a key is changed between
\* the load of a counter and its use.
LEMMA CountersStep ==
  TypeOK /\ CallInv /\ HandshakesFresh /\ OwnersPast /\ CountersInv /\ Next => CountersInv'
<1> SUFFICES ASSUME TypeOK, CallInv, HandshakesFresh, OwnersPast, CountersInv, Next
             PROVE  CountersInv'
  OBVIOUS
<1> DEFINE Own == \A m \in TunData : m.key # NoKey => m.owner = Pair(m.key)
           Alone == \A t, u \in Threads : ~(t # u /\ pc[t] = "store" /\ pc[u] = "store")
           Used(m) == /\ m.counter < session.sending_counter
                      /\ \A t \in Threads : pc[t] = "store" => m.counter <= tx[t].counter
           Low == session.counted # NoKey =>
                    /\ \A m \in TunData : m.owner = session.counted => Used(m)
                    /\ \A u \in Threads : tx[u].owner = session.counted /\ pc[u] # "store" => Used(tx[u])
           Once == \A t \in Threads : tx[t].owner # NoKey =>
                     /\ \A m \in TunData : ~(m.owner = tx[t].owner /\ m.counter = tx[t].counter)
                     /\ \A u \in Threads \ {t} : ~(tx[u].owner = tx[t].owner /\ tx[u].counter = tx[t].counter)
<1>x. CountersInv <=> (CountersClean => Own /\ Alone /\ Low /\ Once /\ ~reused)
  BY DEF CountersInv
<1>y. CountersInv' <=> (CountersClean' => Own' /\ Alone' /\ Low' /\ Once' /\ ~reused')
  BY DEF CountersInv
<1>z. ASSUME CountersClean', raced \subseteq raced' PROVE Own /\ Alone /\ Low /\ Once /\ ~reused
  BY <1>x, <1>z DEF CountersClean
<1>a. /\ session \in Session /\ tx \in [Threads -> TxSet] /\ session.sending_counter \in Nat
      /\ DOMAIN pc = Threads
  BY DEF TypeOK, LocalsOK, SessionOK, Session, PcOK
<1>b. /\ \A m \in TunData : m.counter \in Nat /\ m.owner \in {NoKey, Pair(m.key)} /\ m.key \in KeySet
      /\ \A t \in Threads : tx[t].counter \in Nat
  BY <1>a DEF TunData, TypeOK, NetOK, MsgOK, TxSet
<1>q. ASSUME session'.counted \in {session.counted, NoKey},
             session'.counted # NoKey => session'.sending_counter = session.sending_counter,
             \A t \in Threads : pc'[t] = "store" <=> pc[t] = "store",
             tx' = tx, TunData' = TunData, reused' = reused, raced \subseteq raced'
      PROVE  CountersInv'
  <2> SUFFICES ASSUME CountersClean' PROVE Own' /\ Alone' /\ Low' /\ Once' /\ ~reused'
    BY <1>y
  <2>1. Own /\ Alone /\ Low /\ Once /\ ~reused
    BY <1>q, <1>z
  <2>2. Own' /\ Alone' /\ ~reused'
    BY <1>q, <2>1
  <2>3. Low'
    BY <1>q, <2>1
  <2>4. Once'
    BY <1>q, <2>1
  <2> QED
    BY <2>2, <2>3, <2>4
<1>r. ASSUME NEW t \in {"ctl", "recv"}, pc[t] \in Completing, session'.counted = OwnerAfter(t),
             \A u \in Threads : pc'[u] = "store" <=> pc[u] = "store",
             tx' = tx, TunData' = TunData, reused' = reused, raced \subseteq raced'
      PROVE  CountersInv'
  <2>1. CASE OwnerAfter(t) = NoKey
    BY <1>q, <1>r, <2>1
  <2>2. CASE OwnerAfter(t) # NoKey
    <3> DEFINE o == OwnerAfter(t)
    <3>1. o.i = hs[t][1] /\ o.r = hs[t][2]
      BY SMT, <2>2 DEF OwnerAfter
    <3> HIDE DEF o
    <3>2. /\ \A m \in TunData : m.owner # o
          /\ \A u \in Threads : tx[u].owner # o
      BY <1>r, <3>1 DEF OwnersPast, NotOf, Threads
    <3>3. session'.counted = o
      BY <1>r DEF o
    <3> SUFFICES ASSUME CountersClean' PROVE Own' /\ Alone' /\ Low' /\ Once' /\ ~reused'
      BY <1>y
    <3>4. Own /\ Alone /\ Low /\ Once /\ ~reused
      BY <1>r, <1>z
    <3>5. Low'
      BY <1>r, <3>2, <3>3
    <3> QED
      BY <1>r, <3>4, <3>5
  <2> QED
    BY <2>1, <2>2
<1>s. ASSUME NEW t \in {"ctl", "app"}, TakeCounter(t), pc' = [pc EXCEPT ![t] = "store"],
             \A u \in Threads \ {t} : pc[u] = "store" => call.name = "wg_connect",
             session' = session, TunData' = TunData, reused' = reused
      PROVE  CountersInv'
  <2> SUFFICES ASSUME CountersClean' PROVE Own' /\ Alone' /\ Low' /\ Once' /\ ~reused'
    BY <1>y
  <2>1. Own /\ Alone /\ Low /\ Once /\ ~reused
    BY <1>s, <1>z DEF TakeCounter
  <2>2. \A u \in Threads \ {t} : pc[u] # "store"
    BY <1>s DEF TakeCounter, CountersClean
  <2>3. t \in Threads /\ pc'[t] = "store" /\ \A u \in Threads \ {t} : pc'[u] # "store" /\ pc[u] # "store"
    BY <1>a, <1>s, <2>2 DEF Threads
  <2>4. /\ tx'[t].owner = session.counted /\ tx'[t].counter = session.sending_counter
        /\ \A u \in Threads \ {t} : tx'[u] = tx[u]
    BY <1>a, <1>s, <2>3 DEF TakeCounter
  <2>5. Own' /\ Alone' /\ ~reused'
    BY <1>s, <2>1, <2>3
  <2>6. ASSUME session.counted # NoKey, NEW m, m.counter \in Nat, Used(m) PROVE Used(m)'
    BY SMT, <1>a, <1>s, <2>3, <2>4, <2>6
  <2>7. Low'
    <3>1. ASSUME session.counted # NoKey, NEW m \in TunData, m.owner = session.counted
          PROVE  Used(m)'
      BY <1>b, <2>1, <2>6, <3>1
    <3>2. ASSUME session.counted # NoKey, NEW u \in Threads \ {t}, tx[u].owner = session.counted
          PROVE  Used(tx[u])'
      <4>1. PICK m : m = tx[u]
        OBVIOUS
      <4>2. m.counter \in Nat /\ Used(m)
        BY <1>b, <2>1, <2>3, <3>2, <4>1
      <4>3. Used(m)' /\ tx'[u] = m
        BY <2>4, <2>6, <3>2, <4>1, <4>2
      <4> QED
        BY <4>3
    <3> HIDE DEF Used
    <3> QED
      BY <1>s, <2>3, <2>4, <3>1, <3>2
  <2>8. session.counted # NoKey =>
          /\ \A m \in TunData : m.owner = session.counted => m.counter # session.sending_counter
          /\ \A u \in Threads \ {t} : tx[u].owner = session.counted => tx[u].counter # session.sending_counter
    BY SMT, <1>a, <1>b, <2>1, <2>3
  <2>9. ASSUME NEW u \in Threads, tx'[u].owner # NoKey
        PROVE  /\ \A m \in TunData' : ~(m.owner = tx'[u].owner /\ m.counter = tx'[u].counter)
               /\ \A v \in Threads \ {u} : ~(tx'[v].owner = tx'[u].owner /\ tx'[v].counter = tx'[u].counter)
    <3>1. CASE u = t
      BY <1>s, <2>4, <2>8, <2>9, <3>1
    <3>2. CASE u # t
      <4>1. tx'[u] = tx[u] /\ tx[u].owner # NoKey
        BY <2>4, <2>9, <3>2
      <4>2. ~(tx'[t].owner = tx[u].owner /\ tx'[t].counter = tx[u].counter)
        BY <2>4, <2>8, <3>2, <4>1
      <4> QED
        BY <1>s, <2>1, <2>4, <4>1, <4>2
    <3> QED
      BY <3>1, <3>2
  <2> QED
    BY <2>5, <2>7, <2>9
<1>w. ASSUME NEW t \in {"ctl", "app"}, StoreCounter(t), NEW l, l # "store", pc' = [pc EXCEPT ![t] = l],
             tx' = tx, TunData' = TunData, reused' = reused, raced \subseteq raced'
      PROVE  CountersInv'
  <2> SUFFICES ASSUME CountersClean' PROVE Own' /\ Alone' /\ Low' /\ Once' /\ ~reused'
    BY <1>y
  <2>1. Own /\ Alone /\ Low /\ Once /\ ~reused
    BY <1>w, <1>z
  <2>2. /\ t \in Threads /\ pc[t] = "store" /\ pc'[t] # "store"
        /\ \A u \in Threads \ {t} : pc[u] # "store" /\ pc'[u] # "store"
    BY <1>a, <1>w, <2>1 DEF Threads, StoreCounter
  <2>3. session'.counted = session.counted /\ session'.sending_counter = tx[t].counter + 1
    BY <1>a, <1>w DEF StoreCounter, Session
  <2>4. ASSUME NEW m, m.counter \in Nat, m.counter <= tx[t].counter PROVE Used(m)'
    <3>1. \A n, k \in Nat : n <= k => n < k + 1
      BY SMT
    <3> QED
      BY <1>b, <2>2, <2>3, <2>4, <3>1
  <2>5. tx[t].counter <= tx[t].counter
    BY SMT, <1>b, <2>2
  <2>6. Low'
    BY <1>b, <1>w, <2>1, <2>2, <2>3, <2>4, <2>5
  <2>7. Own' /\ Alone' /\ Once' /\ ~reused'
    BY <1>w, <2>1, <2>2
  <2> QED
    BY <2>6, <2>7
<1>t. ASSUME NEW t \in {"ctl", "app"}, Encrypt(t), pc[t] # "store", pc' = [pc EXCEPT ![t] = "idle"],
             session' = session
      PROVE  CountersInv'
  <2> SUFFICES ASSUME CountersClean' PROVE Own' /\ Alone' /\ Low' /\ Once' /\ ~reused'
    BY <1>y
  <2>1. Own /\ Alone /\ Low /\ Once /\ ~reused
    BY <1>t, <1>z DEF Encrypt
  <2>2. t \in Threads /\ \A u \in Threads : pc'[u] = "store" <=> pc[u] = "store"
    BY <1>a, <1>t DEF Threads
  <2>3. PICK owner : owner = IF Pair(session.sending_key) = tx[t].owner THEN tx[t].owner ELSE NoKey
    OBVIOUS
  <2>4. PICK x : x = DataMsg("tun", tx[t].receiver, session.sending_key, tx[t].counter, owner)
    OBVIOUS
  <2>5. /\ x.owner = owner /\ x.counter = tx[t].counter /\ x.key = session.sending_key
        /\ x.type = "data" /\ x.from = "tun"
    BY <2>4 DEF DataMsg
  <2>6. /\ net' = net \cup {x} /\ tx' = [tx EXCEPT ![t] = NoTx]
        /\ reused' = (reused \/ (x.key # NoKey /\ Encrypted(x.key, x.counter)))
    BY <1>t, <2>3, <2>4, <2>5 DEF Encrypt
  <2>7. TunData' = TunData \cup {x}
    BY <2>5, <2>6 DEF TunData
  <2>8. tx'[t].owner = NoKey /\ \A u \in Threads \ {t} : tx'[u] = tx[u]
    BY <1>a, <2>2, <2>6 DEF NoTx
  <2>9. x.key # NoKey => x.owner = Pair(x.key) /\ x.owner = tx[t].owner
    BY <1>t, <2>3, <2>5 DEF Encrypt, CountersClean
  <2>10. x.owner # NoKey => x.owner = tx[t].owner
    BY <2>3, <2>5
  <2>11. Pair(x.key) # NoKey
    BY SMT, <1>a, <2>5 DEF Pair, Kdf2, NoKey, Session, KeySet
  <2>12. ~reused'
    <3> SUFFICES ASSUME x.key # NoKey, NEW m \in TunData, m.key = x.key, m.counter = x.counter
                 PROVE  FALSE
      BY <2>1, <2>6 DEF Encrypted, TunData
    <3>1. m.owner = tx[t].owner /\ m.counter = tx[t].counter
      BY <2>1, <2>5, <2>9
    <3> QED
      BY <2>1, <2>2, <2>9, <2>11, <3>1
  <2>13. Own' /\ Alone'
    BY <2>1, <2>2, <2>7, <2>9
  <2>14. Low'
    <3>1. \A y, c : y.counter = c.counter /\ Used(c) => Used(y)
      OBVIOUS
    <3>2. \A y : Used(y) => Used(y)'
      BY <1>t, <2>2, <2>8
    <3>3. session.counted # NoKey /\ x.owner = session.counted => Used(x)
      BY <1>t, <2>1, <2>2, <2>5, <2>10
    <3> QED
      BY <1>t, <2>1, <2>2, <2>7, <2>8, <3>2, <3>3
  <2>15. ASSUME NEW u \in Threads, tx'[u].owner # NoKey
         PROVE  /\ \A m \in TunData' : ~(m.owner = tx'[u].owner /\ m.counter = tx'[u].counter)
                /\ \A v \in Threads \ {u} : ~(tx'[v].owner = tx'[u].owner /\ tx'[v].counter = tx'[u].counter)
    <3>1. u # t /\ tx'[u] = tx[u] /\ tx[u].owner # NoKey
      BY <2>8, <2>15
    <3>2. ~(x.owner = tx[u].owner /\ x.counter = tx[u].counter)
      BY <2>1, <2>2, <2>5, <2>10, <3>1
    <3> QED
      BY <2>1, <2>7, <2>8, <3>1, <3>2
  <2> QED
    BY <2>12, <2>13, <2>14, <2>15
<1>1. CASE Connect
  BY <1>1, <1>a, <1>q DEF Connect, TunData, history, Goto, Threads, Session
<1>2. CASE Rekey
  BY <1>2, <1>a, <1>q DEF Rekey, TunData, history, Goto, Threads, Session
<1>3. CASE Start
  <2>1. \A t \in Threads : pc'[t] = "store" <=> pc[t] = "store"
    BY <1>3, <1>a DEF Start, Goto, Threads, TypeOK, PcOK
  <2> QED
    BY <1>3, <1>q, <2>1 DEF Start, TunData, history
<1>4. CASE Stop
  BY <1>4, <1>a, <1>q DEF Stop, TunData, history, Goto, Threads, Session
<1>5. CASE HandshakeInit
  BY <1>5, <1>a, <1>q DEF HandshakeInit, TunData, history, Goto, Threads, Session
<1>6. CASE SendInit
  <2>1. TunData' = TunData
    BY SMT, <1>6 DEF SendInit, TunData, InitMsg, ResponseMsg, CookieMsg, DataMsg
  <2> QED
    BY <1>6, <1>a, <1>q, <2>1 DEF SendInit, history, Goto, Threads
<1>7. CASE Timeout
  BY <1>7, <1>a, <1>q DEF Timeout, TunData, Continue, history, Goto, Threads, Session
<1>8. CASE RekeyWake
  BY <1>8, <1>a, <1>q DEF RekeyWake, TunData, Continue, history, Goto, Threads, Session
<1>9. ASSUME NEW m \in ToTunnel, ConnectReceive(m) PROVE CountersInv'
  BY <1>9, <1>a, <1>q DEF ConnectReceive, TunData, Continue, history, Goto, Threads, Session
<1>10. CASE ResponseCheck
  BY <1>10, <1>a, <1>q DEF ResponseCheck, TunData, Continue, history, Goto, Threads, Session
<1>11. CASE ResponseRotate
  BY <1>11, <1>a, <1>q DEF ResponseRotate, TunData, history, Goto, Threads, Session
<1>12. CASE ResponseKeys
  BY <1>12, <1>a, <1>q DEF ResponseKeys, TunData, history, Goto, Threads, Session
<1>13. CASE ResponseReset
  <2>1. session'.counted = OwnerAfter("ctl") /\ pc["ctl"] \in Completing
    BY <1>13, <1>a DEF ResponseReset, Session, Completing
  <2> QED
    BY <1>13, <1>a, <1>r, <2>1 DEF ResponseReset, TunData, history, Goto, Threads
<1>14. ASSUME NEW t \in {"ctl", "recv"}, PassiveRotate(t) PROVE CountersInv'
  BY <1>14, <1>a, <1>q DEF PassiveRotate, TunData, history, Goto, Threads, Session
<1>15. ASSUME NEW t \in {"ctl", "recv"}, PassiveKeys(t) PROVE CountersInv'
  BY <1>15, <1>a, <1>q DEF PassiveKeys, TunData, history, Goto, Threads, Session
<1>16. ASSUME NEW t \in {"ctl", "recv"}, PassiveReset(t) PROVE CountersInv'
  <2>1. session'.counted = OwnerAfter(t) /\ pc[t] \in Completing
    BY <1>16, <1>a DEF PassiveReset, Session, Completing
  <2>2. TunData' = TunData
    BY SMT, <1>16 DEF PassiveReset, TunData, ResponseMsg
  <2> QED
    BY <1>16, <1>a, <1>r, <2>1, <2>2 DEF PassiveReset, history, Goto, Threads
<1>17. CASE ReturnError
  BY <1>17, <1>a, <1>q DEF ReturnError, TunData, history, Goto, Threads, Session
<1>18. CASE KeepaliveCounter
  <2>1. \A u \in Threads \ {"ctl"} : pc[u] = "store" => call.name = "wg_connect"
    BY <1>18 DEF KeepaliveCounter, CallInv, Threads, TypeOK, PcOK, Installing
  <2> QED
    BY <1>18, <1>s, <2>1 DEF KeepaliveCounter, TunData, Goto
<1>19. CASE KeepaliveEncrypt
  BY <1>19, <1>t DEF KeepaliveEncrypt, Goto
<1>20. ASSUME NEW m \in ToTunnel, RecvHandshake(m) PROVE CountersInv'
  BY <1>20, <1>a, <1>q DEF RecvHandshake, TunData, history, Goto, Threads, Session
<1>21. ASSUME NEW m \in ToTunnel, RecvMatch(m) PROVE CountersInv'
  BY <1>21, <1>a, <1>q DEF RecvMatch, TunData, history, Goto, Threads, Session
<1>22. CASE RecvDecrypt
  BY <1>22, <1>a, <1>q DEF RecvDecrypt, TunData, history, Goto, Threads, Session
<1>23. CASE RecvValidate
  <2>1. session'.counted = session.counted /\ session'.sending_counter = session.sending_counter
    BY <1>23, <1>a DEF RecvValidate, Session
  <2>2. raced \subseteq raced' /\ reused' = reused
    BY <1>23 DEF RecvValidate, Deliver, history
  <2> QED
    BY <1>23, <1>a, <1>q, <2>1, <2>2 DEF RecvValidate, Deliver, TunData, history, Goto, Threads
<1>24. ASSUME NEW m \in ToTunnel, Recv(m) PROVE CountersInv'
  <2>1. session'.counted = session.counted /\ session'.sending_counter = session.sending_counter
    BY <1>24, <1>a DEF Recv, Session
  <2>2. raced \subseteq raced' /\ reused' = reused
    BY <1>24 DEF Recv, Deliver, history
  <2> QED
    BY <1>24, <1>a, <1>q, <2>1, <2>2 DEF Recv, Deliver, TunData, history, Goto, Threads
<1>25. CASE SendCheck
  BY <1>25, <1>a, <1>q DEF SendCheck, TunData, history, Goto, Threads, Session
<1>26. CASE SendCounter
  <2>1. \A u \in Threads \ {"app"} : pc[u] = "store" => call.name = "wg_connect"
    BY <1>26 DEF SendCounter, CallInv, Threads, TypeOK, PcOK, Installing
  <2> QED
    BY <1>26, <1>s, <2>1 DEF SendCounter, TunData, Goto
<1>27. CASE SendEncrypt
  BY <1>27, <1>t DEF SendEncrypt, Goto
<1>28. CASE ZeroKeys
  BY <1>28, <1>q DEF ZeroKeys, ZeroSession, TunData, history
<1>29. CASE Tick
  BY <1>29, <1>a, <1>q DEF Tick, Older, TunData, history, Session
<1>30. ASSUME NEW m \in net, PeerAnswer(m) PROVE CountersInv'
  <2>1. PICK x : net' = net \cup {x} /\ x.from = "peer"
    <3>1. \A ok : ResponseMsg("peer", nextId, m.sender, ok).from = "peer"
      BY DEF ResponseMsg
    <3>2. CookieMsg(m.sender).from = "peer"
      BY DEF CookieMsg
    <3> QED
      BY <1>30, <3>1, <3>2 DEF PeerAnswer
  <2>2. TunData' = TunData
    BY <2>1 DEF TunData
  <2> QED
    BY <1>30, <1>a, <1>q, <2>2 DEF PeerAnswer, history, Goto, Threads
<1>31. ASSUME NEW m \in net, PeerAdopt(m) PROVE CountersInv'
  BY <1>31, <1>a, <1>q DEF PeerAdopt, TunData, history, Goto, Threads, Session
<1>32. CASE PeerInitiate
  <2>1. TunData' = TunData
    BY SMT, <1>32 DEF PeerInitiate, TunData, InitMsg, ResponseMsg, CookieMsg, DataMsg
  <2> QED
    BY <1>32, <1>a, <1>q, <2>1 DEF PeerInitiate, history, Goto, Threads
<1>33. CASE PeerSend
  <2>1. TunData' = TunData
    BY SMTT(30), <1>33 DEF PeerSend, TunData, InitMsg, ResponseMsg, CookieMsg, DataMsg
  <2> QED
    BY <1>33, <1>a, <1>q, <2>1 DEF PeerSend, history, Goto, Threads
<1>34. CASE KeepaliveStore
  BY <1>34, <1>w DEF KeepaliveStore, TunData, Goto, history
<1>35. CASE SendStore
  BY <1>35, <1>w DEF SendStore, TunData, Goto, history
<1> QED
  BY <1>1, <1>2, <1>3, <1>4, <1>5, <1>6, <1>7, <1>8, <1>9, <1>10, <1>11, <1>12,
     <1>13, <1>14, <1>15, <1>16, <1>17, <1>18, <1>19, <1>20, <1>21, <1>22, <1>23,
     <1>24, <1>25, <1>26, <1>27, <1>28, <1>29, <1>30, <1>31, <1>32, <1>33, <1>34, <1>35
     DEF Next, ControlStep, RecvStep, SenderStep, Peer

\* What was delivered under a key stays in the window of the one session that has it:
\* rotating moves the window along, a reset empties it for a key nothing came under.
LEMMA WindowStep ==
  TypeOK /\ HandshakesFresh /\ OwnersPast /\ WindowInv /\ Next => WindowInv'
<1> SUFFICES ASSUME TypeOK, HandshakesFresh, OwnersPast, WindowInv, Next PROVE WindowInv'
  OBVIOUS
<1>a. session \in Session /\ prev \in Session
  BY DEF TypeOK, SessionOK
<1>q. ASSUME \/ session'.owner = NoKey
             \/ session'.owner = session.owner /\ session.replay \subseteq session'.replay,
             \/ prev'.owner = NoKey
             \/ prev'.owner = prev.owner /\ prev.replay \subseteq prev'.replay,
             delivered' = delivered, duplicated' = duplicated, raced \subseteq raced'
      PROVE  WindowInv'
  BY <1>q DEF WindowInv
<1>o. ASSUME session'.owner = NoKey,
             \/ prev'.owner = prev.owner /\ prev'.replay = prev.replay
             \/ prev'.owner = session.owner /\ prev'.replay = session.replay,
             delivered' = delivered, duplicated' = duplicated, raced \subseteq raced'
      PROVE  WindowInv'
  BY <1>o DEF WindowInv
<1>r. ASSUME NEW t \in {"ctl", "recv"}, pc[t] \in Completing, session'.owner = OwnerAfter(t),
             prev' = prev, delivered' = delivered, duplicated' = duplicated, raced \subseteq raced'
      PROVE  WindowInv'
  <2>1. CASE OwnerAfter(t) = NoKey
    BY <1>q, <1>r, <2>1
  <2>2. CASE OwnerAfter(t) # NoKey
    <3> DEFINE o == OwnerAfter(t)
    <3>1. o.i = hs[t][1] /\ o.r = hs[t][2]
      BY SMT, <2>2 DEF OwnerAfter
    <3> HIDE DEF o
    <3>2. prev.owner # o /\ ("window" \notin raced => \A x \in delivered : x[1] # o)
      BY <1>r, <3>1 DEF OwnersPast, NotOf, Threads
    <3>3. session'.owner = o
      BY <1>r DEF o
    <3> QED
      BY <1>r, <3>2, <3>3 DEF WindowInv
  <2> QED
    BY <2>1, <2>2
<1>v. ASSUME NEW m \in ToTunnel, m.type = "data", NEW s \in {"session", "prev"},
             m.counter \notin Sess(s).replay, Deliver(m, s),
             IF s = "prev"
               THEN prev' = [prev EXCEPT !.replay = @ \cup {m.counter}] /\ session' = session
               ELSE session' = [session EXCEPT !.replay = @ \cup {m.counter}] /\ prev' = prev
      PROVE  WindowInv'
  <2>1. /\ session'.owner = session.owner /\ session.replay \subseteq session'.replay
        /\ prev'.owner = prev.owner /\ prev.replay \subseteq prev'.replay
        /\ s = "prev" => m.counter \in prev'.replay
        /\ s = "session" => m.counter \in session'.replay
    BY SMT, <1>a, <1>v DEF Session
  <2>2. m.key # NoKey
    BY <1>v DEF ToTunnel, TypeOK, NetOK, MsgOK
  <2>3. CASE Sess(s).owner = m.key /\ "window" \notin raced
    <3>1. PICK x : x = <<m.key, m.counter>>
      OBVIOUS
    <3>2. x[1] = m.key /\ x[2] = m.counter
      BY <3>1
    <3>3. x \notin delivered
      BY <1>v, <2>3, <3>2 DEF WindowInv, Sess
    <3>4. delivered' = delivered \cup {x} /\ ~duplicated'
      BY <1>v, <2>3, <3>1, <3>3 DEF Deliver, WindowInv
    <3>5. (x[1] = session'.owner => x[2] \in session'.replay) /\ (x[1] = prev'.owner => x[2] \in prev'.replay)
      BY <1>v, <2>1, <2>2, <2>3, <3>2 DEF WindowInv, Sess
    <3> QED
      BY <2>1, <2>2, <2>3, <3>2, <3>4, <3>5 DEF WindowInv
  <2>4. CASE Sess(s).owner # m.key \/ "window" \in raced
    <3>1. "window" \in raced'
      BY <1>v, <2>4 DEF Deliver
    <3> QED
      BY <2>1, <3>1 DEF WindowInv
  <2> QED
    BY <2>3, <2>4
<1>1. CASE Connect
  BY <1>1, <1>a, <1>q DEF Connect, history, Session
<1>2. CASE Rekey
  BY <1>2, <1>a, <1>q DEF Rekey, history, Session
<1>3. CASE Start
  BY <1>3, <1>a, <1>q DEF Start, history, Session
<1>4. CASE Stop
  BY <1>4, <1>a, <1>q DEF Stop, history, Session
<1>5. CASE HandshakeInit
  BY <1>5, <1>a, <1>q DEF HandshakeInit, history, Session
<1>6. CASE SendInit
  BY <1>6, <1>a, <1>q DEF SendInit, history, Session
<1>7. CASE Timeout
  BY <1>7, <1>a, <1>q DEF Timeout, history, Session
<1>8. CASE RekeyWake
  BY <1>8, <1>a, <1>q DEF RekeyWake, history, Session
<1>9. ASSUME NEW m \in ToTunnel, ConnectReceive(m) PROVE WindowInv'
  BY <1>9, <1>a, <1>q DEF ConnectReceive, history, Session
<1>10. CASE ResponseCheck
  BY <1>10, <1>a, <1>q DEF ResponseCheck, history, Session
<1>11. CASE ResponseRotate
  <2>1. session'.owner = NoKey
    BY <1>11, <1>a DEF ResponseRotate, Session
  <2>2. \/ prev'.owner = prev.owner /\ prev'.replay = prev.replay
        \/ prev'.owner = session.owner /\ prev'.replay = session.replay
    BY <1>11, <1>a DEF ResponseRotate, Session
  <2> QED
    BY <1>11, <1>o, <2>1, <2>2 DEF ResponseRotate, history
<1>12. CASE ResponseKeys
  BY <1>12, <1>a, <1>q DEF ResponseKeys, history, Session
<1>13. CASE ResponseReset
  <2>1. session'.owner = OwnerAfter("ctl") /\ pc["ctl"] \in Completing
    BY <1>13, <1>a DEF ResponseReset, Session, Completing
  <2> QED
    BY <1>13, <1>r, <2>1 DEF ResponseReset, history
<1>14. ASSUME NEW t \in {"ctl", "recv"}, PassiveRotate(t) PROVE WindowInv'
  <2>1. session'.owner = NoKey
    BY <1>14, <1>a DEF PassiveRotate, Session
  <2>2. \/ prev'.owner = prev.owner /\ prev'.replay = prev.replay
        \/ prev'.owner = session.owner /\ prev'.replay = session.replay
    BY <1>14, <1>a DEF PassiveRotate, Session
  <2> QED
    BY <1>14, <1>o, <2>1, <2>2 DEF PassiveRotate, history
<1>15. ASSUME NEW t \in {"ctl", "recv"}, PassiveKeys(t) PROVE WindowInv'
  BY <1>15, <1>a, <1>q DEF PassiveKeys, history, Session
<1>16. ASSUME NEW t \in {"ctl", "recv"}, PassiveReset(t) PROVE WindowInv'
  <2>1. session'.owner = OwnerAfter(t) /\ pc[t] \in Completing
    BY <1>16, <1>a DEF PassiveReset, Session, Completing
  <2> QED
    BY <1>16, <1>r, <2>1 DEF PassiveReset, history
<1>17. CASE ReturnError
  BY <1>17, <1>a, <1>q DEF ReturnError, history, Session
<1>18. CASE KeepaliveCounter
  BY <1>18, <1>q DEF KeepaliveCounter, TakeCounter
<1>19. CASE KeepaliveEncrypt
  BY <1>19, <1>q DEF KeepaliveEncrypt, Encrypt
<1>20. ASSUME NEW m \in ToTunnel, RecvHandshake(m) PROVE WindowInv'
  BY <1>20, <1>a, <1>q DEF RecvHandshake, history, Session
<1>21. ASSUME NEW m \in ToTunnel, RecvMatch(m) PROVE WindowInv'
  BY SMT, <1>21, <1>a, <1>q DEF RecvMatch, ZeroSession, history
<1>22. CASE RecvDecrypt
  BY <1>22, <1>a, <1>q DEF RecvDecrypt, history, Session
<1>23. CASE RecvValidate
  <2>1. /\ rx.msg \in ToTunnel /\ rx.msg.type = "data" /\ rx.sess \in {"session", "prev"}
    BY <1>23 DEF RecvValidate, TypeOK, LocalsOK
  <2>2. CASE rx.msg.counter \in Sess(rx.sess).replay
    BY <1>23, <1>q, <2>2 DEF RecvValidate, history
  <2>3. CASE rx.msg.counter \notin Sess(rx.sess).replay
    BY <1>23, <1>v, <2>1, <2>3 DEF RecvValidate
  <2> QED
    BY <2>2, <2>3
<1>24. ASSUME NEW m \in ToTunnel, Recv(m) PROVE WindowInv'
  BY <1>24, <1>v DEF Recv, Sess
<1>25. CASE SendCheck
  BY <1>25, <1>a, <1>q DEF SendCheck, history, Session
<1>26. CASE SendCounter
  BY <1>26, <1>q DEF SendCounter, TakeCounter
<1>27. CASE SendEncrypt
  BY <1>27, <1>q DEF SendEncrypt, Encrypt
<1>28. CASE ZeroKeys
  BY <1>28, <1>q DEF ZeroKeys, ZeroSession, history
<1>29. CASE Tick
  BY <1>29, <1>a, <1>q DEF Tick, Older, history, Session
<1>30. ASSUME NEW m \in net, PeerAnswer(m) PROVE WindowInv'
  BY <1>30, <1>a, <1>q DEF PeerAnswer, history, Session
<1>31. ASSUME NEW m \in net, PeerAdopt(m) PROVE WindowInv'
  BY <1>31, <1>a, <1>q DEF PeerAdopt, history, Session
<1>32. CASE PeerInitiate
  BY <1>32, <1>a, <1>q DEF PeerInitiate, history, Session
<1>33. CASE PeerSend
  BY ZenonT(40), <1>33, <1>a, <1>q DEF PeerSend, history, Session
<1>34. CASE KeepaliveStore
  BY <1>34, <1>a, <1>q DEF KeepaliveStore, StoreCounter, history, Session
<1>35. CASE SendStore
  BY <1>35, <1>a, <1>q DEF SendStore, StoreCounter, history, Session
<1> QED
  BY <1>1, <1>2, <1>3, <1>4, <1>5, <1>6, <1>7, <1>8, <1>9, <1>10, <1>11, <1>12,
     <1>13, <1>14, <1>15, <1>16, <1>17, <1>18, <1>19, <1>20, <1>21, <1>22, <1>23,
     <1>24, <1>25, <1>26, <1>27, <1>28, <1>29, <1>30, <1>31, <1>32, <1>33, <1>34, <1>35
     DEF Next, ControlStep, RecvStep, SenderStep, Peer

-----------------------------------------------------------------------------
(* The two sessions and the calls. *)

\* prev_session keeps other keys than the session, except between the rotation and the
\* writing of the new keys; it is never valid alone.
LEMMA PrevStep == TypeOK /\ KeysPast /\ PrevInv /\ Next => PrevInv'
<1> SUFFICES ASSUME TypeOK, KeysPast, PrevInv, Next PROVE PrevInv'
  OBVIOUS
<1>a. /\ session \in Session /\ prev \in Session
      /\ DOMAIN pc = Threads /\ started = (pc["recv"] # "off")
  BY DEF TypeOK, SessionOK, PcOK
<1>q. ASSUME \/ ~prev'.valid
             \/ prev'.valid = prev.valid /\ prev'.receiving_key = prev.receiving_key,
             prev'.valid /\ session.valid => session'.valid,
             prev'.valid => session'.receiving_key = session.receiving_key,
             prev'.valid => \A t \in Threads : pc[t] \in {"keys", "passive_keys"} => pc'[t] = pc[t]
      PROVE  PrevInv'
  BY <1>q DEF PrevInv
<1>k. ASSUME NEW t \in {"ctl", "recv"}, pc[t] \in Mixing,
             session'.receiving_key.i = hs[t][1], session'.receiving_key.r = hs[t][2],
             session'.valid = session.valid, prev' = prev
      PROVE  PrevInv'
  BY <1>k DEF PrevInv, KeysPast, NotOf, Threads
<1>1. CASE Connect
  BY <1>1, <1>a, <1>q DEF Connect, Goto, Threads, Session
<1>2. CASE Rekey
  BY <1>2, <1>a, <1>q DEF Rekey, Goto, Threads, Session
<1>3. CASE Start
  BY <1>3, <1>a, <1>q DEF Start, Goto, Threads, Session
<1>4. CASE Stop
  BY <1>4, <1>a, <1>q DEF Stop, Goto, Threads, Session
<1>5. CASE HandshakeInit
  BY <1>5, <1>a, <1>q DEF HandshakeInit, Goto, Threads, Session
<1>6. CASE SendInit
  BY <1>6, <1>a, <1>q DEF SendInit, Goto, Threads, Session
<1>7. CASE Timeout
  BY <1>7, <1>a, <1>q DEF Timeout, Continue, Goto, Threads, Session
<1>8. CASE RekeyWake
  BY <1>8, <1>a, <1>q DEF RekeyWake, Continue, Goto, Threads, Session
<1>9. ASSUME NEW m \in ToTunnel, ConnectReceive(m) PROVE PrevInv'
  BY <1>9, <1>a, <1>q DEF ConnectReceive, Continue, Goto, Threads, Session
<1>10. CASE ResponseCheck
  BY <1>10, <1>a, <1>q DEF ResponseCheck, Continue, Goto, Threads, Session
<1>11. CASE ResponseRotate
  <2>1. pc'["ctl"] \in {"keys", "passive_keys"} /\ "ctl" \in Threads
    BY <1>11, <1>a DEF ResponseRotate, Goto, Threads
  <2>2. prev'.valid => session'.valid
    BY <1>11, <1>a DEF ResponseRotate, Session, PrevInv
  <2> QED
    BY <2>1, <2>2 DEF PrevInv
<1>12. CASE ResponseKeys
  BY <1>12, <1>a, <1>k DEF ResponseKeys, Kdf2, Mixing, Session
<1>13. CASE ResponseReset
  BY <1>13, <1>a, <1>q DEF ResponseReset, Goto, Threads, Session
<1>14. ASSUME NEW t \in {"ctl", "recv"}, PassiveRotate(t) PROVE PrevInv'
  <2>1. pc'[t] \in {"keys", "passive_keys"} /\ t \in Threads
    BY <1>14, <1>a DEF PassiveRotate, Goto, Threads
  <2>2. prev'.valid => session'.valid
    BY <1>14, <1>a DEF PassiveRotate, Session, PrevInv
  <2> QED
    BY <2>1, <2>2 DEF PrevInv
<1>15. ASSUME NEW t \in {"ctl", "recv"}, PassiveKeys(t) PROVE PrevInv'
  BY <1>15, <1>a, <1>k DEF PassiveKeys, Kdf2, Mixing, Session
<1>16. ASSUME NEW t \in {"ctl", "recv"}, PassiveReset(t) PROVE PrevInv'
  BY <1>16, <1>a, <1>q DEF PassiveReset, Goto, Threads, Session
<1>17. CASE ReturnError
  BY <1>17, <1>a, <1>q DEF ReturnError, Goto, Threads, Session
<1>18. CASE KeepaliveCounter
  BY <1>18, <1>a, <1>q DEF KeepaliveCounter, TakeCounter, Goto, Threads, Session
<1>19. CASE KeepaliveEncrypt
  BY <1>19, <1>a, <1>q DEF KeepaliveEncrypt, Goto, Threads, Session
<1>20. ASSUME NEW m \in ToTunnel, RecvHandshake(m) PROVE PrevInv'
  BY <1>20, <1>a, <1>q DEF RecvHandshake, Goto, Threads, Session
<1>21. ASSUME NEW m \in ToTunnel, RecvMatch(m) PROVE PrevInv'
  BY SMT, <1>21, <1>a, <1>q DEF RecvMatch, ZeroSession, Goto, Threads
<1>22. CASE RecvDecrypt
  BY <1>22, <1>a, <1>q DEF RecvDecrypt, Goto, Threads, Session
<1>23. CASE RecvValidate
  BY <1>23, <1>a, <1>q DEF RecvValidate, Goto, Threads, Session
<1>24. ASSUME NEW m \in ToTunnel, Recv(m) PROVE PrevInv'
  BY <1>24, <1>a, <1>q DEF Recv, Goto, Threads, Session
<1>25. CASE SendCheck
  BY <1>25, <1>a, <1>q DEF SendCheck, Goto, Threads, Session
<1>26. CASE SendCounter
  BY <1>26, <1>a, <1>q DEF SendCounter, TakeCounter, Goto, Threads, Session
<1>27. CASE SendEncrypt
  BY <1>27, <1>a, <1>q DEF SendEncrypt, Goto, Threads, Session
<1>28. CASE ZeroKeys
  BY <1>28, <1>q DEF ZeroKeys, ZeroSession
<1>29. CASE Tick
  BY <1>29, <1>a, <1>q DEF Tick, Older, Session
<1>30. ASSUME NEW m \in net, PeerAnswer(m) PROVE PrevInv'
  BY <1>30, <1>a, <1>q DEF PeerAnswer, Goto, Threads, Session
<1>31. ASSUME NEW m \in net, PeerAdopt(m) PROVE PrevInv'
  BY <1>31, <1>a, <1>q DEF PeerAdopt, Goto, Threads, Session
<1>32. CASE PeerInitiate
  BY <1>32, <1>a, <1>q DEF PeerInitiate, Goto, Threads, Session
<1>33. CASE PeerSend
  BY ZenonT(40), <1>33, <1>a, <1>q DEF PeerSend, Goto, Threads, Session
<1>34. CASE KeepaliveStore
  BY <1>34, <1>a, <1>q DEF KeepaliveStore, StoreCounter, Goto, Threads, Session
<1>35. CASE SendStore
  BY <1>35, <1>a, <1>q DEF SendStore, StoreCounter, Goto, Threads, Session
<1> QED
  BY <1>1, <1>2, <1>3, <1>4, <1>5, <1>6, <1>7, <1>8, <1>9, <1>10, <1>11, <1>12,
     <1>13, <1>14, <1>15, <1>16, <1>17, <1>18, <1>19, <1>20, <1>21, <1>22, <1>23,
     <1>24, <1>25, <1>26, <1>27, <1>28, <1>29, <1>30, <1>31, <1>32, <1>33, <1>34, <1>35
     DEF Next, ControlStep, RecvStep, SenderStep, Peer

\* What a call of wg_connect or wg_rekey has reached when its loop is left with WG_OK
\* is preserved, also when the receive thread installs a session or it is wiped.
LEMMA CallStep == TypeOK /\ KeysPast /\ CallInv /\ Next => CallInv'
<1> SUFFICES ASSUME TypeOK, KeysPast, CallInv, Next PROVE CallInv'
  OBVIOUS
<1>a. /\ session \in Session /\ call \in CallSet
      /\ DOMAIN pc = Threads
      /\ pc["ctl"] \in Looping \cup {"idle", "finish", "store", "keepalive"}
      /\ WG_MAX_TIMER_HANDSHAKES \in Nat \ {0}
      /\ scene \in [env : SUBSET Behaviours, max : Nat, data : Nat, calls : Nat]
  BY TunnelAssumption DEF TypeOK, SessionOK, PcOK, LocalsOK, NetOK
<1>q. ASSUME pc'["ctl"] = pc["ctl"], started' = started, call' = call, scene' = scene,
             session'.valid = session.valid \/ session'.valid \/ (pc["ctl"] # "idle" => started),
             session'.receiving_key \in {session.receiving_key, NoKey} \/ session'.receiving_key # call.key
      PROVE  CallInv'
  BY <1>q DEF CallInv, Established, LeftWithOk, AfterOk
<1>i. ASSUME pc'["ctl"] = "idle" PROVE CallInv'
  BY <1>i DEF CallInv, Established, LeftWithOk, AfterOk, Installing
<1>l. ASSUME pc["ctl"] # "idle", started' = started, scene' = scene, call'.name = call.name,
             \/ pc'["ctl"] \in Looping \ {"reset"}
             \/ pc'["ctl"] = "finish" /\ call'.err = "WG_ERR"
             \/ pc'["ctl"] = "finish" /\ ~(call'.attempt < WG_MAX_TIMER_HANDSHAKES),
             pc'["ctl"] \in Installing => call.name = "wg_connect"
      PROVE  CallInv'
  BY <1>l DEF CallInv, Established, LeftWithOk, AfterOk, Looping, Awaiting, Completing, Mixing
<1>c. ASSUME NEW err, Continue(err), pc["ctl"] \in Looping, started' = started, scene' = scene
      PROVE  CallInv'
  <2>1. call'.name = call.name /\ call'.attempt = call.attempt + 1 /\ call.attempt \in Nat
    BY SMT, <1>a, <1>c DEF Continue, CallSet
  <2>2. pc'["ctl"] = IF call.attempt + 1 < WG_MAX_TIMER_HANDSHAKES THEN "attempt" ELSE "finish"
    BY <1>a, <1>c DEF Continue, Goto, Threads
  <2>3. pc["ctl"] # "idle" /\ "attempt" \in Looping \ {"reset"} /\ "attempt" \notin Installing
        /\ "finish" \notin Installing
    BY <1>c DEF Looping, Awaiting, Completing, Mixing, Installing
  <2> QED
    BY <1>c, <1>l, <2>1, <2>2, <2>3
<1>k. ASSUME NEW t \in {"ctl", "recv"}, pc[t] \in Mixing,
             session'.receiving_key.i = hs[t][1], session'.receiving_key.r = hs[t][2]
      PROVE  session'.receiving_key # call.key
  BY <1>k DEF KeysPast, NotOf, Threads
<1>p. ASSUME NEW l \in {"rotate", "keys", "wait", "check", "send", "passive_rotate", "passive_keys"}
      PROVE  l \in Looping \ {"reset"} /\ (l \in Installing => l \in {"passive_rotate", "passive_keys"})
  BY <1>p DEF Looping, Awaiting, Completing, Mixing, Installing
<1>z. ASSUME NEW l \in {"attempt", "send", "wait", "check", "rotate", "keys", "reset", "passive_rotate",
                        "passive_keys", "passive_reset"} PROVE l \in Looping
  BY <1>z DEF Looping, Awaiting, Completing, Mixing
<1>1. CASE Connect
  <2>1. pc'["ctl"] = "attempt" /\ scene'.calls > 0 /\ started' = started
    BY SMT, <1>1, <1>a DEF Connect, Goto, Threads
  <2>2. call'.name = IF started THEN "wg_rekey" ELSE "wg_connect"
    BY <1>1, <1>a DEF Connect, CallSet
  <2> QED
    BY <2>1, <2>2 DEF CallInv, Established, LeftWithOk, AfterOk, Installing
<1>2. CASE Rekey
  <2>1. pc'["ctl"] = "attempt" /\ scene'.calls > 0 /\ started' = started
    BY SMT, <1>2, <1>a DEF Rekey, Goto, Threads
  <2>2. call'.name = IF started THEN "wg_rekey" ELSE "wg_connect"
    BY <1>2, <1>a DEF Rekey, CallSet
  <2> QED
    BY <2>1, <2>2 DEF CallInv, Established, LeftWithOk, AfterOk, Installing
<1>3. CASE Start
  BY <1>3, <1>a, <1>i DEF Start, Goto, Threads
<1>4. CASE Stop
  BY <1>4, <1>a, <1>i DEF Stop, Goto, Threads
<1>5. CASE HandshakeInit
  BY <1>5, <1>a, <1>l, <1>p DEF HandshakeInit, Goto, Threads, CallSet
<1>6. CASE SendInit
  <2>1. call'.name = call.name /\ started' = started /\ scene' = scene
    BY <1>6, <1>a DEF SendInit, CallSet
  <2>2. \/ pc'["ctl"] = "wait"
        \/ pc'["ctl"] = "finish" /\ call'.err = "WG_ERR"
    BY <1>6, <1>a DEF SendInit, Goto, Threads, CallSet
  <2>3. pc["ctl"] # "idle" /\ "finish" \notin Installing
    BY <1>6 DEF SendInit, Installing
  <2> QED
    BY <1>l, <1>p, <2>1, <2>2, <2>3
<1>7. CASE Timeout
  BY <1>7, <1>c, <1>z DEF Timeout
<1>8. CASE RekeyWake
  <2>1. CASE cookie
    BY <1>8, <1>c, <1>z, <2>1 DEF RekeyWake
  <2>2. CASE ~cookie
    BY <1>8, <1>a, <1>l, <1>p, <2>2 DEF RekeyWake, Goto, Threads
  <2> QED
    BY <2>1, <2>2
<1>9. ASSUME NEW m \in ToTunnel, ConnectReceive(m) PROVE CallInv'
  <2>1. CASE \E err : Continue(err)
    BY <1>9, <1>c, <1>z, <2>1 DEF ConnectReceive
  <2>2. CASE ~\E err : Continue(err)
    BY <1>9, <1>a, <1>l, <1>p, <2>2 DEF ConnectReceive, Goto, Threads
  <2> QED
    BY <2>1, <2>2
<1>10. CASE ResponseCheck
  <2>1. CASE \E err : Continue(err)
    BY <1>10, <1>c, <1>z, <2>1 DEF ResponseCheck
  <2>2. CASE ~\E err : Continue(err)
    BY <1>10, <1>a, <1>l, <1>p, <2>2 DEF ResponseCheck, Goto, Threads
  <2> QED
    BY <2>1, <2>2
<1>11. CASE ResponseRotate
  BY <1>11, <1>a, <1>l, <1>p DEF ResponseRotate, Goto, Threads, CallSet
<1>12. CASE ResponseKeys
  <2>1. session'.receiving_key # call.key
    BY <1>12, <1>a, <1>k DEF ResponseKeys, Kdf2, Mixing, Session
  <2> QED
    BY <1>12, <1>a, <2>1 DEF ResponseKeys, Goto, Threads, CallInv, Established, LeftWithOk, AfterOk, Installing
<1>13. CASE ResponseReset
  <2>1. /\ pc'["ctl"] = "finish" /\ session'.valid
        /\ call'.name = call.name /\ call'.key = call.key
        /\ session'.receiving_key = session.receiving_key
    BY <1>13, <1>a DEF ResponseReset, Goto, Threads, Session, CallSet
  <2> QED
    BY <1>13, <2>1 DEF ResponseReset, CallInv, Established, LeftWithOk, AfterOk, Installing
<1>14. ASSUME NEW t \in {"ctl", "recv"}, PassiveRotate(t) PROVE CallInv'
  <2>1. /\ session'.valid = session.valid /\ session'.receiving_key = session.receiving_key
        /\ call' = call /\ started' = started /\ scene' = scene
    BY <1>14, <1>a DEF PassiveRotate, Session
  <2>2. CASE t = "recv"
    BY <1>14, <1>a, <1>q, <2>1, <2>2 DEF PassiveRotate, Goto, Threads
  <2>3. CASE t = "ctl"
    <3>1. pc["ctl"] \in Installing /\ pc'["ctl"] = "passive_keys" /\ pc["ctl"] # "idle"
      BY <1>14, <1>a, <2>3 DEF PassiveRotate, Goto, Threads, Installing
    <3> QED
      BY <1>l, <1>p, <2>1, <3>1 DEF CallInv
  <2> QED
    BY <2>2, <2>3
<1>15. ASSUME NEW t \in {"ctl", "recv"}, PassiveKeys(t) PROVE CallInv'
  <2>1. /\ session'.valid = session.valid /\ session'.receiving_key # call.key
        /\ call' = call /\ started' = started /\ scene' = scene
    BY <1>15, <1>a, <1>k DEF PassiveKeys, Kdf2, Mixing, Session
  <2>2. CASE t = "recv"
    BY <1>15, <1>a, <1>q, <2>1, <2>2 DEF PassiveKeys, Goto, Threads
  <2>3. CASE t = "ctl"
    <3>1. pc["ctl"] \in Installing /\ pc'["ctl"] = "passive_reset" /\ pc["ctl"] # "idle"
      BY <1>15, <1>a, <2>3 DEF PassiveKeys, Goto, Threads, Installing
    <3>2. "passive_reset" \in Looping \ {"reset"}
      BY DEF Looping, Completing
    <3> QED
      BY <1>l, <2>1, <3>1, <3>2 DEF CallInv
  <2> QED
    BY <2>2, <2>3
<1>16. ASSUME NEW t \in {"ctl", "recv"}, PassiveReset(t) PROVE CallInv'
  <2>1. /\ session'.valid /\ session'.receiving_key = session.receiving_key
        /\ started' = started /\ scene' = scene
    BY <1>16, <1>a DEF PassiveReset, Session
  <2>2. CASE t = "recv"
    BY <1>16, <1>a, <1>q, <2>1, <2>2 DEF PassiveReset, Goto, Threads
  <2>3. CASE t = "ctl"
    <3>1. /\ pc["ctl"] \in Installing /\ pc'["ctl"] = "finish" /\ pc["ctl"] # "idle"
          /\ call'.name = call.name
      BY <1>16, <1>a, <2>3 DEF PassiveReset, Goto, Threads, Installing, CallSet
    <3> QED
      BY <2>1, <3>1 DEF CallInv, Established, LeftWithOk, AfterOk, Installing
  <2> QED
    BY <2>2, <2>3
<1>17. CASE ReturnError
  BY <1>17, <1>a, <1>i DEF ReturnError, Goto, Threads
<1>18. CASE KeepaliveCounter
  <2>1. pc'["ctl"] = "store" /\ session' = session
    BY <1>18, <1>a DEF KeepaliveCounter, Goto, Threads
  <2> QED
    BY <1>18, <2>1 DEF KeepaliveCounter, CallInv, Established, LeftWithOk, AfterOk, Installing
<1>19. CASE KeepaliveEncrypt
  BY <1>19, <1>a, <1>i DEF KeepaliveEncrypt, Goto, Threads
<1>20. ASSUME NEW m \in ToTunnel, RecvHandshake(m) PROVE CallInv'
  BY <1>20, <1>a, <1>q DEF RecvHandshake, Goto, Threads, Session
<1>21. ASSUME NEW m \in ToTunnel, RecvMatch(m) PROVE CallInv'
  BY <1>21, <1>a, <1>q DEF RecvMatch, Goto, Threads, Session
<1>22. CASE RecvDecrypt
  BY <1>22, <1>a, <1>q DEF RecvDecrypt, Goto, Threads, Session
<1>23. CASE RecvValidate
  BY <1>23, <1>a, <1>q DEF RecvValidate, Goto, Threads, Session
<1>24. ASSUME NEW m \in ToTunnel, Recv(m) PROVE CallInv'
  BY <1>24, <1>a, <1>q DEF Recv, Goto, Threads, Session
<1>25. CASE SendCheck
  BY <1>25, <1>a, <1>q DEF SendCheck, Goto, Threads, Session
<1>26. CASE SendCounter
  BY <1>26, <1>a, <1>q DEF SendCounter, TakeCounter, Goto, Threads, Session
<1>27. CASE SendEncrypt
  BY <1>27, <1>a, <1>q DEF SendEncrypt, Encrypt, Goto, Threads, Session
<1>28. CASE ZeroKeys
  BY <1>28, <1>q DEF ZeroKeys, ZeroSession
<1>29. CASE Tick
  BY <1>29, <1>a, <1>q DEF Tick, Older, Session
<1>30. ASSUME NEW m \in net, PeerAnswer(m) PROVE CallInv'
  BY <1>30, <1>a, <1>q DEF PeerAnswer, Goto, Threads, Session
<1>31. ASSUME NEW m \in net, PeerAdopt(m) PROVE CallInv'
  BY <1>31, <1>a, <1>q DEF PeerAdopt, Goto, Threads, Session
<1>32. CASE PeerInitiate
  BY <1>32, <1>a, <1>q DEF PeerInitiate, Goto, Threads, Session
<1>33. CASE PeerSend
  BY <1>33, <1>a, <1>q DEF PeerSend, Goto, Threads, Session
<1>34. CASE KeepaliveStore
  <2>1. /\ pc'["ctl"] = "keepalive" /\ session'.valid = session.valid
        /\ session'.receiving_key = session.receiving_key
    BY <1>34, <1>a DEF KeepaliveStore, StoreCounter, Goto, Threads, Session
  <2> QED
    BY <1>34, <2>1 DEF KeepaliveStore, StoreCounter, CallInv, Established, LeftWithOk, AfterOk, Installing
<1>35. CASE SendStore
  BY <1>35, <1>a, <1>q DEF SendStore, StoreCounter, Goto, Threads, Session
<1> QED
  BY <1>1, <1>2, <1>3, <1>4, <1>5, <1>6, <1>7, <1>8, <1>9, <1>10, <1>11, <1>12,
     <1>13, <1>14, <1>15, <1>16, <1>17, <1>18, <1>19, <1>20, <1>21, <1>22, <1>23,
     <1>24, <1>25, <1>26, <1>27, <1>28, <1>29, <1>30, <1>31, <1>32, <1>33, <1>34, <1>35
     DEF Next, ControlStep, RecvStep, SenderStep, Peer

\* WG_OK by default comes from a message that leaves err as it was, and whatever else
\* ends a call clears rekey_in_progress.
LEMMA DefaultStep == TypeOK /\ DefaultInv /\ Next => DefaultInv'
<1> SUFFICES ASSUME TypeOK, DefaultInv, Next PROVE DefaultInv'
  OBVIOUS
<1>a. /\ session \in Session /\ call \in CallSet /\ DOMAIN pc = Threads
      /\ pc["ctl"] \in Looping => call.attempt < WG_MAX_TIMER_HANDSHAKES
  BY DEF TypeOK, SessionOK, PcOK, LocalsOK
<1>b. ToTunnel \subseteq ToTunnel'
  BY Grows DEF TypeOK, NetOK, ToTunnel
<1>q. ASSUME pc'["ctl"] = pc["ctl"], call' = call, cookie' = cookie,
             session'.rekey_in_progress => session.rekey_in_progress
      PROVE  DefaultInv'
  BY <1>b, <1>q DEF DefaultInv, Established, LeftWithOk, AfterOk, OkByDefault
<1>n. ASSUME pc'["ctl"] \notin {"idle", "finish", "store", "keepalive"} \/
               (pc'["ctl"] = "finish" /\ call'.err = "WG_ERR"),
             cookie' => cookie
      PROVE  DefaultInv'
  BY <1>b, <1>n DEF DefaultInv, Established, LeftWithOk, AfterOk
<1>k. ASSUME LeftWithOk, LeftWithOk' \/ pc'["ctl"] = "idle", call' = call, cookie' = cookie,
             session'.rekey_in_progress = session.rekey_in_progress
      PROVE  DefaultInv'
  BY <1>b, <1>k DEF DefaultInv, Established, LeftWithOk, AfterOk, OkByDefault
<1>c. ASSUME Continue("WG_ERR"), pc["ctl"] \in Awaiting, cookie' => cookie PROVE DefaultInv'
  BY <1>c, <1>n, ContinueStep
<1>d. ASSUME Continue(call.err), pc["ctl"] \in Awaiting, cookie' => cookie, NEW m \in ToTunnel,
             IF call.name = "wg_rekey" THEN m.type = "cookie" ELSE m.type = "init" /\ ~m.ok
      PROVE  DefaultInv'
  <2>1. /\ pc'["ctl"] = "attempt" \/
             (pc'["ctl"] = "finish" /\ call'.attempt = WG_MAX_TIMER_HANDSHAKES)
        /\ call'.name = call.name
    BY <1>a, <1>d, ContinueStep DEF CallSet
  <2> QED
    BY <1>b, <1>d, <2>1 DEF DefaultInv, Established, LeftWithOk, AfterOk, OkByDefault
<1>r. ASSUME ~session'.rekey_in_progress, cookie' = cookie,
             \/ pc'["ctl"] = pc["ctl"] /\ call' = call
             \/ /\ pc["ctl"] \in Looping /\ pc'["ctl"] = "finish"
                /\ call'.attempt = call.attempt
      PROVE  DefaultInv'
  BY <1>a, <1>b, <1>r DEF DefaultInv, Established, LeftWithOk, AfterOk, OkByDefault
<1>p. {"send", "wait", "check"} \subseteq Awaiting /\ {"reset", "passive_reset"} \subseteq Looping
  BY DEF Awaiting, Looping, Completing
<1>1. CASE Connect
  BY <1>1, <1>a, <1>n DEF Connect, Goto, Threads
<1>2. CASE Rekey
  BY <1>2, <1>a, <1>n DEF Rekey, Goto, Threads
<1>3. CASE Start
  BY <1>3, <1>a, <1>q DEF Start, Goto, Threads
<1>4. CASE Stop
  BY <1>4, <1>a, <1>q DEF Stop, Goto, Threads
<1>5. CASE HandshakeInit
  BY <1>5, <1>a, <1>n DEF HandshakeInit, Goto, Threads
<1>6. CASE SendInit
  <2>1. cookie' => cookie
    BY <1>6 DEF SendInit
  <2>2. pc'["ctl"] = "wait" \/ (pc'["ctl"] = "finish" /\ call'.err = "WG_ERR")
    BY <1>6, <1>a DEF SendInit, Goto, Threads, CallSet
  <2> QED
    BY <1>n, <2>1, <2>2
<1>7. CASE Timeout
  BY <1>7, <1>c, <1>p DEF Timeout
<1>8. CASE RekeyWake
  <2>1. CASE cookie
    <3>1. PICK m \in ToTunnel : m.type = "cookie"
      BY <2>1 DEF DefaultInv
    <3> QED
      BY <1>8, <1>d, <1>p, <2>1, <3>1 DEF RekeyWake
  <2>2. CASE ~cookie
    <3>1. pc'["ctl"] = "check" /\ cookie' = cookie
      BY <1>8, <1>a, <2>2 DEF RekeyWake, Goto, Threads
    <3> QED
      BY <1>n, <3>1
  <2> QED
    BY <2>1, <2>2
<1>9. ASSUME NEW m \in ToTunnel, ConnectReceive(m) PROVE DefaultInv'
  <2>1. CASE Continue("WG_ERR")
    BY <1>9, <1>c, <1>p, <2>1 DEF ConnectReceive
  <2>2. CASE m.type = "init" /\ ~m.ok
    BY <1>9, <1>d, <1>p, <2>2 DEF ConnectReceive
  <2>3. CASE Goto("ctl", "check") \/ Goto("ctl", "passive_rotate")
    BY <1>9, <1>a, <1>n, <2>3 DEF ConnectReceive, Goto, Threads
  <2> QED
    BY <1>9, <2>1, <2>2, <2>3 DEF ConnectReceive
<1>10. CASE ResponseCheck
  <2>1. CASE Continue("WG_ERR")
    BY <1>10, <1>c, <1>p, <2>1 DEF ResponseCheck
  <2>2. CASE Goto("ctl", "rotate")
    BY <1>10, <1>a, <1>n, <2>2 DEF ResponseCheck, Goto, Threads
  <2> QED
    BY <1>10, <2>1, <2>2 DEF ResponseCheck
<1>11. CASE ResponseRotate
  BY <1>11, <1>a, <1>n DEF ResponseRotate, Goto, Threads
<1>12. CASE ResponseKeys
  BY <1>12, <1>a, <1>n DEF ResponseKeys, Goto, Threads
<1>13. CASE ResponseReset
  BY <1>13, <1>a, <1>p, <1>r DEF ResponseReset, Goto, Threads, Session, CallSet
<1>14. ASSUME NEW t \in {"ctl", "recv"}, PassiveRotate(t) PROVE DefaultInv'
  <2>1. CASE t = "recv"
    BY <1>14, <1>a, <1>q, <2>1 DEF PassiveRotate, Goto, Threads, Session
  <2>2. CASE t = "ctl"
    BY <1>14, <1>a, <1>n, <2>2 DEF PassiveRotate, Goto, Threads
  <2> QED
    BY <2>1, <2>2
<1>15. ASSUME NEW t \in {"ctl", "recv"}, PassiveKeys(t) PROVE DefaultInv'
  <2>1. CASE t = "recv"
    BY <1>15, <1>a, <1>q, <2>1 DEF PassiveKeys, Goto, Threads, Session
  <2>2. CASE t = "ctl"
    BY <1>15, <1>a, <1>n, <2>2 DEF PassiveKeys, Goto, Threads
  <2> QED
    BY <2>1, <2>2
<1>16. ASSUME NEW t \in {"ctl", "recv"}, PassiveReset(t) PROVE DefaultInv'
  <2>1. ~session'.rekey_in_progress /\ cookie' = cookie
    BY <1>16, <1>a DEF PassiveReset, Session
  <2>2. CASE t = "recv"
    BY <1>16, <1>a, <1>r, <2>1, <2>2 DEF PassiveReset, Goto, Threads
  <2>3. CASE t = "ctl"
    BY <1>16, <1>a, <1>p, <1>r, <2>1, <2>3 DEF PassiveReset, Goto, Threads, CallSet
  <2> QED
    BY <2>2, <2>3
<1>17. CASE ReturnError
  <2>1. ~session'.rekey_in_progress /\ pc'["ctl"] = "idle" /\ cookie' = cookie
    BY <1>17, <1>a DEF ReturnError, Goto, Threads, Session
  <2> QED
    BY <1>b, <2>1 DEF DefaultInv, LeftWithOk, AfterOk
<1>18. CASE KeepaliveCounter
  BY <1>18, <1>a, <1>k DEF KeepaliveCounter, Goto, Threads, LeftWithOk, AfterOk
<1>19. CASE KeepaliveEncrypt
  BY <1>19, <1>a, <1>k DEF KeepaliveEncrypt, Goto, Threads, LeftWithOk, AfterOk
<1>20. ASSUME NEW m \in ToTunnel, RecvHandshake(m) PROVE DefaultInv'
  <2>1. CASE cookie' = cookie
    BY <1>20, <1>a, <1>q, <2>1 DEF RecvHandshake, Goto, Threads
  <2>2. CASE m.type = "cookie"
    BY <1>20, <1>b, <2>2 DEF RecvHandshake, DefaultInv, Established, LeftWithOk, AfterOk, OkByDefault
  <2> QED
    BY <1>20, <2>1, <2>2 DEF RecvHandshake
<1>21. ASSUME NEW m \in ToTunnel, RecvMatch(m) PROVE DefaultInv'
  BY <1>21, <1>a, <1>q DEF RecvMatch, Goto, Threads, Session
<1>22. CASE RecvDecrypt
  BY <1>22, <1>a, <1>q DEF RecvDecrypt, Goto, Threads, Session
<1>23. CASE RecvValidate
  BY <1>23, <1>a, <1>q DEF RecvValidate, Goto, Threads, Session
<1>24. ASSUME NEW m \in ToTunnel, Recv(m) PROVE DefaultInv'
  BY <1>24, <1>a, <1>q DEF Recv, Goto, Threads, Session
<1>25. CASE SendCheck
  BY <1>25, <1>a, <1>q DEF SendCheck, Goto, Threads, Session
<1>26. CASE SendCounter
  BY <1>26, <1>a, <1>q DEF SendCounter, Goto, Threads, Session
<1>27. CASE SendEncrypt
  BY <1>27, <1>a, <1>q DEF SendEncrypt, Goto, Threads, Session
<1>28. CASE ZeroKeys
  BY <1>28, <1>q DEF ZeroKeys, ZeroSession
<1>29. CASE Tick
  BY <1>29, <1>a, <1>q DEF Tick, Older, Session
<1>30. ASSUME NEW m \in net, PeerAnswer(m) PROVE DefaultInv'
  BY <1>30, <1>a, <1>q DEF PeerAnswer, Goto, Threads, Session
<1>31. ASSUME NEW m \in net, PeerAdopt(m) PROVE DefaultInv'
  BY <1>31, <1>a, <1>q DEF PeerAdopt, Goto, Threads, Session
<1>32. CASE PeerInitiate
  BY <1>32, <1>a, <1>q DEF PeerInitiate, Goto, Threads, Session
<1>33. CASE PeerSend
  BY <1>33, <1>a, <1>q DEF PeerSend, Goto, Threads, Session
<1>34. CASE KeepaliveStore
  BY <1>34, <1>a, <1>k DEF KeepaliveStore, StoreCounter, Goto, Threads, Session, LeftWithOk, AfterOk
<1>35. CASE SendStore
  BY <1>35, <1>a, <1>q DEF SendStore, StoreCounter, Goto, Threads, Session
<1> QED
  BY <1>1, <1>2, <1>3, <1>4, <1>5, <1>6, <1>7, <1>8, <1>9, <1>10, <1>11, <1>12,
     <1>13, <1>14, <1>15, <1>16, <1>17, <1>18, <1>19, <1>20, <1>21, <1>22, <1>23,
     <1>24, <1>25, <1>26, <1>27, <1>28, <1>29, <1>30, <1>31, <1>32, <1>33, <1>34, <1>35
     DEF Next, ControlStep, RecvStep, SenderStep, Peer

\* The session stays of one piece, step by step, when only wg_send runs beside the calls.
LEMMA CoherentStep == TypeOK /\ CoherentInv /\ Next => CoherentInv'
<1> SUFFICES ASSUME TypeOK, CoherentInv, Next, scene'.env \subseteq {"send"} PROVE CoherentInv'
  BY DEF CoherentInv
<1>a. /\ session \in Session /\ call \in CallSet /\ DOMAIN pc = Threads
      /\ pc["ctl"] \in Looping \cup {"idle", "finish", "store", "keepalive"}
      /\ hs \in [Threads -> Ids \X Ids]
      /\ scene \in [env : SUBSET Behaviours, max : Nat, data : Nat, calls : Nat]
  BY ZenonT(40) DEF TypeOK, SessionOK, PcOK, LocalsOK, NetOK
<1>b. scene'.env = scene.env
  BY <1>a DEF Next, ControlStep, RecvStep, SenderStep, Peer, Connect, Rekey, Start,
     Stop, HandshakeInit,
     SendInit, Timeout, RekeyWake, ConnectReceive, ResponseCheck, ResponseRotate, ResponseKeys,
     ResponseReset, PassiveRotate, PassiveKeys, PassiveReset, ReturnError, KeepaliveCounter,
     KeepaliveEncrypt, RecvHandshake, RecvMatch, RecvDecrypt, RecvValidate, Recv, SendCheck,
     SendCounter, SendEncrypt, KeepaliveStore, SendStore, ZeroKeys, Tick, PeerAnswer, PeerAdopt,
     PeerInitiate, PeerSend
<1>c. /\ \A m \in ToTunnel : m.type \notin {"init", "cookie"} /\ (m.type = "response" => m.ok)
      /\ ~cookie /\ pc["ctl"] \notin Installing /\ pc["recv"] \notin Installing
      /\ session.valid => session.age = 0
      /\ scene.env \cap {"initiate", "cookie", "refuse", "foreign", "age", "stop"} = {}
  BY <1>b DEF CoherentInv
<1> DEFINE Same == /\ session'.sending_key = session.sending_key
                   /\ session'.receiving_key = session.receiving_key
                   /\ session'.valid = session.valid /\ session'.age = session.age
           Indices == /\ session'.local_index = session.local_index
                      /\ session'.remote_index = session.remote_index
           Rest == ToTunnel' = ToTunnel /\ cookie' = cookie /\ pc'["recv"] \notin Installing
           Whole == session.valid =>
                      session.sending_key = Pair(session.receiving_key) /\ session.receiving_key.d = 2
<1>w. Whole
  BY <1>b DEF CoherentInv
<1>q. ASSUME Same, Indices, call' = call, pc'["ctl"] = pc["ctl"], hs'["ctl"] = hs["ctl"],
             cookie' = cookie, pc'["recv"] \notin Installing,
             \A m \in ToTunnel' : m.type \notin {"init", "cookie"} /\ (m.type = "response" => m.ok)
      PROVE  CoherentInv'
  BY <1>b, <1>c, <1>q DEF CoherentInv, KeysBefore
<1>l. ASSUME Same, Rest, KeysBefore, session'.remote_index = session.remote_index,
             call'.name = call.name, call'.saved_local_index = call.saved_local_index,
             \/ pc'["ctl"] = "attempt"
             \/ pc'["ctl"] \in Awaiting /\ session'.local_index = call'.state
             \/ pc'["ctl"] = "finish" /\ call'.err = "WG_ERR",
             pc["ctl"] \notin {"rotate", "keys"}
      PROVE  CoherentInv'
  <2>1. KeysBefore' /\ pc'["ctl"] \notin {"rotate", "keys", "reset"} /\ pc'["ctl"] \notin Installing
    BY <1>l DEF KeysBefore, Awaiting, Installing
  <2>2. pc'["ctl"] \in Awaiting => session'.local_index = call'.state
    BY <1>l DEF Awaiting
  <2>3. session.valid => /\ session.remote_index = session.receiving_key.r
                         /\ call.name = "wg_rekey"
                         /\ call.saved_local_index = session.receiving_key.i
    BY <1>b, <1>l DEF CoherentInv, KeysBefore, Awaiting
  <2> QED
    BY <1>c, <1>l, <1>w, <2>1, <2>2, <2>3 DEF CoherentInv
<1>n. ASSUME Continue("WG_ERR"), pc["ctl"] \in Awaiting, session' = session, Rest
      PROVE  CoherentInv'
  <2>1. /\ call'.name = call.name /\ call'.saved_local_index = call.saved_local_index
        /\ call'.err = "WG_ERR"
    BY <1>a, <1>n DEF Continue, CallSet
  <2>2. pc'["ctl"] \in {"attempt", "finish"}
    BY <1>a, <1>n DEF Continue, Goto, Threads
  <2>3. KeysBefore /\ pc["ctl"] \notin {"rotate", "keys"}
    BY <1>n DEF KeysBefore, Awaiting
  <2> QED
    BY <1>l, <1>n, <2>1, <2>2, <2>3
<1>i. ASSUME Same, Rest, session'.remote_index = session.remote_index, pc'["ctl"] \in {"idle", "store", "keepalive"},
             session.valid => /\ session.remote_index = session.receiving_key.r
                              /\ session'.local_index = session.receiving_key.i
      PROVE  CoherentInv'
  <2>1. pc'["ctl"] \notin Awaiting \cup Installing \cup {"attempt", "rotate", "keys", "reset", "finish"}
    BY <1>i DEF Awaiting, Installing
  <2> QED
    BY <1>c, <1>i, <1>w, <2>1 DEF CoherentInv, KeysBefore
<1>p. "recv" \notin Installing /\ "decrypt" \notin Installing /\ "validate" \notin Installing
      /\ "off" \notin Installing
  BY DEF Installing
<1> HIDE DEF Whole
<1>1. CASE Connect
  <2>1. /\ pc'["ctl"] = "attempt" /\ pc'["recv"] = pc["recv"] /\ session' = session
        /\ ToTunnel' = ToTunnel /\ cookie' = cookie
    BY <1>1, <1>a DEF Connect, Goto, Threads, ToTunnel
  <2>2. session.valid => /\ session.remote_index = session.receiving_key.r
                         /\ call'.name = "wg_rekey"
                         /\ call'.saved_local_index = session.receiving_key.i
    BY <1>1, <1>a, <1>b, <1>c DEF Connect, CoherentInv, KeysBefore, Awaiting, CallSet
  <2> QED
    BY <1>c, <1>w, <2>1, <2>2 DEF CoherentInv, KeysBefore, Awaiting, Installing, Whole
<1>2. CASE Rekey
  <2>1. /\ pc'["ctl"] = "attempt" /\ pc'["recv"] = pc["recv"] /\ session' = session
        /\ ToTunnel' = ToTunnel /\ cookie' = cookie
    BY <1>2, <1>a DEF Rekey, Goto, Threads, ToTunnel
  <2>2. session.valid => /\ session.remote_index = session.receiving_key.r
                         /\ call'.name = "wg_rekey"
                         /\ call'.saved_local_index = session.receiving_key.i
    BY <1>2, <1>a, <1>b, <1>c DEF Rekey, CoherentInv, KeysBefore, Awaiting, CallSet
  <2> QED
    BY <1>c, <1>w, <2>1, <2>2 DEF CoherentInv, KeysBefore, Awaiting, Installing, Whole
<1>3. CASE Start
  BY <1>3, <1>a, <1>c, <1>p, <1>q DEF Start, Goto, Threads, Session, ToTunnel
<1>4. CASE Stop
  BY <1>4, <1>c DEF Stop
<1>5. CASE HandshakeInit
  <2>1. /\ Same /\ session'.remote_index = session.remote_index
        /\ session'.local_index = call'.state
        /\ call'.name = call.name /\ call'.saved_local_index = call.saved_local_index
    BY <1>5, <1>a DEF HandshakeInit, Session, CallSet
  <2>2. /\ pc'["ctl"] = "send" /\ pc'["recv"] = pc["recv"] /\ KeysBefore
        /\ "send" \in Awaiting /\ pc["ctl"] \notin {"rotate", "keys"}
    BY <1>5, <1>a DEF HandshakeInit, Goto, Threads, KeysBefore, Awaiting
  <2>3. ToTunnel' = ToTunnel /\ cookie' = cookie
    BY <1>5, <1>c DEF HandshakeInit, ToTunnel, TypeOK, LocalsOK
  <2> QED
    BY <1>c, <1>l, <2>1, <2>2, <2>3
<1>6. CASE SendInit
  <2>1. /\ session' = session /\ call'.name = call.name /\ call'.state = call.state
        /\ call'.saved_local_index = call.saved_local_index
    BY <1>6, <1>a DEF SendInit, CallSet
  <2>2. /\ pc'["recv"] = pc["recv"] /\ KeysBefore /\ "wait" \in Awaiting /\ pc["ctl"] \in Awaiting
        /\ pc["ctl"] \notin {"rotate", "keys"}
    BY <1>6, <1>a DEF SendInit, Goto, Threads, KeysBefore, Awaiting
  <2>3. pc'["ctl"] = "wait" \/ (pc'["ctl"] = "finish" /\ call'.err = "WG_ERR")
    BY <1>6, <1>a DEF SendInit, Goto, Threads, CallSet
  <2>4. ToTunnel' = ToTunnel /\ cookie' = cookie
    BY SMT, <1>6, <1>c DEF SendInit, ToTunnel, InitMsg, TypeOK, LocalsOK
  <2>5. session.local_index = call.state
    BY <1>b, <2>2 DEF CoherentInv
  <2> QED
    BY <1>c, <1>l, <2>1, <2>2, <2>3, <2>4, <2>5
<1>7. CASE Timeout
  BY <1>7, <1>a, <1>c, <1>n DEF Timeout, Continue, Goto, Threads, ToTunnel, Awaiting
<1>8. CASE RekeyWake
  <2>1. /\ session' = session /\ call' = call /\ pc'["ctl"] = "check" /\ pc'["recv"] = pc["recv"]
        /\ ToTunnel' = ToTunnel /\ cookie' = cookie
    BY <1>8, <1>a, <1>c DEF RekeyWake, Goto, Threads, ToTunnel
  <2>2. KeysBefore /\ pc["ctl"] \in Awaiting /\ "check" \in Awaiting /\ pc["ctl"] \notin {"rotate", "keys"}
    BY <1>8 DEF RekeyWake, KeysBefore, Awaiting
  <2>3. session.local_index = call.state
    BY <1>b, <2>2 DEF CoherentInv
  <2> QED
    BY <1>c, <1>l, <2>1, <2>2, <2>3
<1>9. ASSUME NEW m \in ToTunnel, ConnectReceive(m) PROVE CoherentInv'
  <2>1. /\ KeysBefore /\ pc["ctl"] \in Awaiting /\ "check" \in Awaiting
        /\ pc["ctl"] \notin {"rotate", "keys"}
    BY <1>9 DEF ConnectReceive, KeysBefore, Awaiting
  <2>2. session.local_index = call.state
    BY <1>b, <2>1 DEF CoherentInv
  <2>3. session' = session /\ ToTunnel' = ToTunnel /\ cookie' = cookie
    BY <1>9 DEF ConnectReceive, ToTunnel
  <2>4. CASE m.type = "response"
    <3>1. call' = call /\ pc'["ctl"] = "check" /\ pc'["recv"] = pc["recv"]
      BY <1>9, <1>a, <2>4 DEF ConnectReceive, Goto, Threads
    <3> QED
      BY <1>c, <1>l, <2>1, <2>2, <2>3, <3>1
  <2>5. CASE m.type # "response"
    <3>1. Continue("WG_ERR")
      BY <1>9, <1>c, <2>5 DEF ConnectReceive
    <3>2. pc'["recv"] = pc["recv"]
      BY <1>a, <3>1 DEF Continue, Goto, Threads
    <3> QED
      BY <1>c, <1>n, <2>1, <2>3, <3>1, <3>2
  <2> QED
    BY <2>4, <2>5
<1>10. CASE ResponseCheck
  <2>1. pc["ctl"] \in Awaiting /\ session.local_index = call.state
    BY <1>10, <1>b DEF ResponseCheck, CoherentInv, Awaiting
  <2>2. pending.ok
    BY <1>10, <1>c DEF ResponseCheck, TypeOK, LocalsOK
  <2>3. ToTunnel' = ToTunnel /\ cookie' = cookie
    BY <1>10 DEF ResponseCheck, ToTunnel
  <2>4. CASE pending.receiver # session.local_index
    <3>1. Continue("WG_ERR") /\ session' = session
      BY <1>10, <2>4 DEF ResponseCheck
    <3>2. pc'["recv"] = pc["recv"]
      BY <1>a, <3>1 DEF Continue, Goto, Threads
    <3> QED
      BY <1>c, <1>n, <2>1, <2>3, <3>1, <3>2
  <2>5. CASE pending.receiver = session.local_index
    <3>1. /\ session' = [session EXCEPT !.remote_index = pending.sender] /\ call' = call
          /\ hs' = [hs EXCEPT !["ctl"] = <<call.state, pending.sender>>]
          /\ pc' = [pc EXCEPT !["ctl"] = "rotate"]
      BY <1>10, <2>1, <2>2, <2>5 DEF ResponseCheck, Goto
    <3>2. /\ Same /\ session'.local_index = call.state /\ session'.remote_index = pending.sender
      BY <1>a, <2>1, <3>1 DEF Session
    <3>3. /\ hs'["ctl"][1] = call.state /\ hs'["ctl"][2] = pending.sender
          /\ pc'["ctl"] = "rotate" /\ pc'["recv"] = pc["recv"]
      BY <1>a, <3>1 DEF Threads
    <3>4. session.valid => /\ call.name = "wg_rekey" /\ call.saved_local_index = session.receiving_key.i
      BY <1>b, <2>1 DEF CoherentInv, KeysBefore, Awaiting
    <3> QED
      BY <1>c, <1>w, <2>3, <3>1, <3>2, <3>3, <3>4 DEF CoherentInv, KeysBefore,
         Awaiting, Installing, Whole
  <2> QED
    BY <2>4, <2>5
<1>11. CASE ResponseRotate
  <2>1. /\ Same /\ Indices
        /\ ToTunnel' = ToTunnel /\ cookie' = cookie /\ call' = call /\ hs' = hs
    BY <1>11, <1>a DEF ResponseRotate, Session, ToTunnel
  <2>2. /\ pc["ctl"] = "rotate" /\ pc'["ctl"] = "keys" /\ pc'["recv"] = pc["recv"]
    BY <1>11, <1>a DEF ResponseRotate, Goto, Threads
  <2> QED
    BY <1>b, <1>c, <2>1, <2>2 DEF CoherentInv, KeysBefore, Awaiting, Installing
<1>12. CASE ResponseKeys
  <2>1. /\ session'.receiving_key = Kdf2(hs["ctl"][1], hs["ctl"][2], 2)
        /\ session'.sending_key = Kdf2(hs["ctl"][1], hs["ctl"][2], 1)
        /\ session'.valid = session.valid /\ session'.age = session.age /\ Indices
        /\ ToTunnel' = ToTunnel /\ cookie' = cookie /\ hs' = hs
    BY <1>12, <1>a DEF ResponseKeys, Session, ToTunnel
  <2>2. /\ pc["ctl"] = "keys" /\ pc'["ctl"] = "reset" /\ pc'["recv"] = pc["recv"]
    BY <1>12, <1>a DEF ResponseKeys, Goto, Threads
  <2>3. session'.sending_key = Pair(session'.receiving_key) /\ session'.receiving_key.d = 2
    BY SMT, <2>1 DEF Pair, Kdf2
  <2>4. session'.local_index = hs["ctl"][1] /\ session'.remote_index = hs["ctl"][2]
    BY <1>b, <2>1, <2>2 DEF CoherentInv
  <2> QED
    BY <1>b, <1>c, <2>1, <2>2, <2>3, <2>4 DEF CoherentInv, KeysBefore, Awaiting, Installing
<1>13. CASE ResponseReset
  <2>1. /\ session'.receiving_key = session.receiving_key
        /\ session'.sending_key = session.sending_key
        /\ session'.age = 0 /\ Indices /\ ToTunnel' = ToTunnel /\ cookie' = cookie
    BY <1>13, <1>a DEF ResponseReset, Session, ToTunnel
  <2>2. /\ pc["ctl"] = "reset" /\ pc'["ctl"] = "finish" /\ pc'["recv"] = pc["recv"]
        /\ call'.err = "WG_OK"
    BY <1>13, <1>a DEF ResponseReset, Goto, Threads, CallSet
  <2>3. /\ session.receiving_key = Kdf2(hs["ctl"][1], hs["ctl"][2], 2)
        /\ session.sending_key = Kdf2(hs["ctl"][1], hs["ctl"][2], 1)
        /\ session.local_index = hs["ctl"][1] /\ session.remote_index = hs["ctl"][2]
    BY <1>b, <2>2 DEF CoherentInv
  <2>4. /\ session.sending_key = Pair(session.receiving_key) /\ session.receiving_key.d = 2
        /\ session.local_index = session.receiving_key.i
        /\ session.remote_index = session.receiving_key.r
    BY SMT, <2>3 DEF Pair, Kdf2
  <2>5. ~KeysBefore' /\ pc'["ctl"] \notin Awaiting \cup {"reset", "rotate", "keys"} \cup Installing
    BY <2>2 DEF KeysBefore, Awaiting, Installing
  <2> QED
    BY <1>c, <2>1, <2>2, <2>4, <2>5 DEF CoherentInv
<1>14. ASSUME NEW t \in {"ctl", "recv"}, PassiveRotate(t) PROVE CoherentInv'
  BY <1>14, <1>c DEF PassiveRotate, Installing
<1>15. ASSUME NEW t \in {"ctl", "recv"}, PassiveKeys(t) PROVE CoherentInv'
  BY <1>15, <1>c DEF PassiveKeys, Installing
<1>16. ASSUME NEW t \in {"ctl", "recv"}, PassiveReset(t) PROVE CoherentInv'
  BY <1>16, <1>c DEF PassiveReset, Installing
<1>17. CASE ReturnError
  <2>1. KeysBefore /\ pc["ctl"] = "finish"
    BY <1>17, <1>a DEF ReturnError, KeysBefore, CallSet
  <2>2. /\ Same /\ session'.remote_index = session.remote_index
        /\ call.name = "wg_rekey" => session'.local_index = call.saved_local_index
        /\ ToTunnel' = ToTunnel /\ cookie' = cookie
    BY <1>17, <1>a DEF ReturnError, Session, ToTunnel
  <2>3. pc'["ctl"] = "idle" /\ pc'["recv"] = pc["recv"]
    BY <1>17, <1>a DEF ReturnError, Goto, Threads
  <2>4. session.valid => /\ session.remote_index = session.receiving_key.r
                         /\ session'.local_index = session.receiving_key.i
    BY <1>b, <2>1, <2>2 DEF CoherentInv
  <2> QED
    BY <1>c, <1>i, <2>2, <2>3, <2>4
<1>18. CASE KeepaliveCounter
  <2>1. ~KeysBefore /\ pc["ctl"] \in {"finish", "store", "keepalive"}
    BY <1>18 DEF KeepaliveCounter, KeysBefore, Awaiting
  <2>2. Same /\ Indices /\ ToTunnel' = ToTunnel /\ cookie' = cookie
    BY <1>18, <1>a DEF KeepaliveCounter, TakeCounter, Session, ToTunnel
  <2>3. pc'["ctl"] \in {"idle", "store", "keepalive"} /\ pc'["recv"] = pc["recv"]
    BY <1>18, <1>a DEF KeepaliveCounter, Goto, Threads
  <2>4. session.valid => /\ session.remote_index = session.receiving_key.r
                         /\ session.local_index = session.receiving_key.i
    BY <1>b, <2>1 DEF CoherentInv
  <2> QED
    BY <1>c, <1>i, <2>2, <2>3, <2>4
<1>19. CASE KeepaliveEncrypt
  <2>1. ~KeysBefore /\ pc["ctl"] \in {"finish", "store", "keepalive"}
    BY <1>19 DEF KeepaliveEncrypt, KeysBefore, Awaiting
  <2>2. Same /\ Indices /\ ToTunnel' = ToTunnel /\ cookie' = cookie
    BY SMT, <1>19, <1>a DEF KeepaliveEncrypt, Encrypt, DataMsg, Session, ToTunnel
  <2>3. pc'["ctl"] \in {"idle", "store", "keepalive"} /\ pc'["recv"] = pc["recv"]
    BY <1>19, <1>a DEF KeepaliveEncrypt, Goto, Threads
  <2>4. session.valid => /\ session.remote_index = session.receiving_key.r
                         /\ session.local_index = session.receiving_key.i
    BY <1>b, <2>1 DEF CoherentInv
  <2> QED
    BY <1>c, <1>i, <2>2, <2>3, <2>4
<1>20. ASSUME NEW m \in ToTunnel, RecvHandshake(m) PROVE CoherentInv'
  BY <1>20, <1>a, <1>c, <1>p, <1>q DEF RecvHandshake, ToTunnel
<1>21. ASSUME NEW m \in ToTunnel, RecvMatch(m) PROVE CoherentInv'
  <2>1. pc'["ctl"] = pc["ctl"] /\ pc'["recv"] \in {pc["recv"], "decrypt"}
    BY <1>21, <1>a DEF RecvMatch, Goto, Threads
  <2> QED
    BY <1>21, <1>c, <1>p, <1>q, <2>1 DEF RecvMatch, ToTunnel
<1>22. CASE RecvDecrypt
  BY ZenonT(40), <1>22, <1>a, <1>c, <1>p, <1>q DEF RecvDecrypt, Goto, Threads, Session, ToTunnel
<1>23. CASE RecvValidate
  <2>1. pc'["ctl"] = pc["ctl"] /\ pc'["recv"] = "recv"
    BY <1>23, <1>a DEF RecvValidate, Goto, Threads
  <2>2. Same /\ Indices
    BY <1>23, <1>a DEF RecvValidate, Session
  <2> QED
    BY <1>23, <1>c, <1>p, <1>q, <2>1, <2>2 DEF RecvValidate, ToTunnel
<1>24. ASSUME NEW m \in ToTunnel, Recv(m) PROVE CoherentInv'
  BY <1>24, <1>a, <1>c, <1>p, <1>q DEF Recv, Goto, Threads, Session, ToTunnel
<1>25. CASE SendCheck
  BY <1>25, <1>a, <1>c, <1>p, <1>q DEF SendCheck, Goto, Threads, Session, ToTunnel
<1>26. CASE SendCounter
  BY <1>26, <1>a, <1>c, <1>p, <1>q DEF SendCounter, TakeCounter, Goto, Threads,
     Session, ToTunnel
<1>27. CASE SendEncrypt
  <2>1. ToTunnel' = ToTunnel
    BY SMT, <1>27 DEF SendEncrypt, Encrypt, DataMsg, ToTunnel
  <2> QED
    BY <1>27, <1>a, <1>c, <1>q, <2>1 DEF SendEncrypt, Goto, Threads
<1>28. CASE ZeroKeys
  BY SMT, <1>28, <1>c DEF ZeroKeys
<1>29. CASE Tick
  BY <1>29, <1>c DEF Tick
<1>30. ASSUME NEW m \in net, PeerAnswer(m) PROVE CoherentInv'
  <2>1. net' = net \cup {ResponseMsg("peer", nextId, m.sender, TRUE)}
    BY <1>30, <1>c DEF PeerAnswer
  <2>2. \A x \in ToTunnel' : x.type \notin {"init", "cookie"} /\ (x.type = "response" => x.ok)
    BY SMT, <1>c, <2>1 DEF ToTunnel, ResponseMsg
  <2> QED
    BY <1>30, <1>a, <1>c, <1>q, <2>2 DEF PeerAnswer
<1>31. ASSUME NEW m \in net, PeerAdopt(m) PROVE CoherentInv'
  BY <1>31, <1>a, <1>c, <1>p, <1>q DEF PeerAdopt, Goto, Threads, Session, ToTunnel
<1>32. CASE PeerInitiate
  BY <1>32, <1>c DEF PeerInitiate
<1>33. CASE PeerSend
  <2>2. \A x \in ToTunnel' : x.type \notin {"init", "cookie"} /\ (x.type = "response" => x.ok)
    BY SMT, <1>33, <1>c DEF PeerSend, ToTunnel, DataMsg
  <2> QED
    BY <1>33, <1>a, <1>c, <1>q, <2>2 DEF PeerSend
<1>34. CASE KeepaliveStore
  <2>1. ~KeysBefore /\ pc["ctl"] \in {"finish", "store", "keepalive"}
    BY <1>34 DEF KeepaliveStore, StoreCounter, KeysBefore, Awaiting
  <2>2. Same /\ Indices /\ ToTunnel' = ToTunnel /\ cookie' = cookie
    BY <1>34, <1>a DEF KeepaliveStore, StoreCounter, Session, ToTunnel
  <2>3. pc'["ctl"] \in {"idle", "store", "keepalive"} /\ pc'["recv"] = pc["recv"]
    BY <1>34, <1>a DEF KeepaliveStore, StoreCounter, Goto, Threads
  <2>4. session.valid => /\ session.remote_index = session.receiving_key.r
                         /\ session.local_index = session.receiving_key.i
    BY <1>b, <2>1 DEF CoherentInv
  <2> QED
    BY <1>c, <1>i, <2>2, <2>3, <2>4
<1>35. CASE SendStore
  BY <1>35, <1>a, <1>c, <1>p, <1>q DEF SendStore, StoreCounter, Goto, Threads,
     Session, ToTunnel
<1> QED
  BY ZenonT(40), <1>1, <1>2, <1>3, <1>4, <1>5, <1>6, <1>7, <1>8, <1>9, <1>10, <1>11, <1>12,
     <1>13, <1>14, <1>15, <1>16, <1>17, <1>18, <1>19, <1>20, <1>21, <1>22, <1>23,
     <1>24, <1>25, <1>26, <1>27, <1>28, <1>29, <1>30, <1>31, <1>32, <1>33, <1>34, <1>35
     DEF Next, ControlStep, RecvStep, SenderStep, Peer

\* A counter that was taken fits the key it will be used with, when the thread that
\* sends is the one that connects and rekeys and the peer does not initiate.
LEMMA SerialStep ==
  TypeOK /\ CallInv /\ SerialInv /\ CounterOfItsKey /\ Next => SerialInv' /\ CounterOfItsKey'
<1> SUFFICES ASSUME TypeOK, CallInv, SerialInv, CounterOfItsKey, Next,
                    scene'.env \cap {"send", "initiate"} = {}
             PROVE  SerialInv' /\ CounterOfItsKey'
  BY DEF SerialInv, CounterOfItsKey
<1> DEFINE Strict == scene.env \cap {"foreign", "age"} = {}
<1>a. /\ session \in Session /\ call \in CallSet /\ DOMAIN pc = Threads
      /\ pc["ctl"] \in Looping \cup {"idle", "finish", "store", "keepalive"}
      /\ hs \in [Threads -> Ids \X Ids] /\ tx \in [Threads -> TxSet]
      /\ scene \in [env : SUBSET Behaviours, max : Nat, data : Nat, calls : Nat]
  BY DEF TypeOK, SessionOK, PcOK, LocalsOK, NetOK
<1>b. scene'.env = scene.env
  BY <1>a DEF Next, ControlStep, RecvStep, SenderStep, Peer, Connect, Rekey, Start,
     Stop, HandshakeInit,
     SendInit, Timeout, RekeyWake, ConnectReceive, ResponseCheck, ResponseRotate, ResponseKeys,
     ResponseReset, PassiveRotate, PassiveKeys, PassiveReset, ReturnError, KeepaliveCounter,
     KeepaliveEncrypt, RecvHandshake, RecvMatch, RecvDecrypt, RecvValidate, Recv, SendCheck,
     SendCounter, SendEncrypt, KeepaliveStore, SendStore, ZeroKeys, Tick, PeerAnswer, PeerAdopt,
     PeerInitiate, PeerSend
<1>c. /\ \A m \in ToTunnel : m.type = "init" => ~m.ok
      /\ pc["ctl"] \notin Installing /\ pc["recv"] \notin Installing
      /\ pc["app"] # "idle" => pc["ctl"] = "idle"
      /\ scene.env \cap {"send", "initiate"} = {}
      /\ Strict => \A m \in ToTunnel : m.type # "init"
      /\ Strict => (session.valid => session.age = 0)
  BY <1>b DEF SerialInv
<1> DEFINE Same == /\ session'.sending_key = session.sending_key
                   /\ session'.receiving_key = session.receiving_key
                   /\ session'.valid = session.valid /\ session'.age = session.age
                   /\ session'.counted = session.counted
           Sent == TunData' = TunData
           Got == \A m \in ToTunnel' : /\ m.type = "init" => ~m.ok
                                       /\ Strict => m.type # "init"
<1>n. ASSUME ToTunnel' = ToTunnel PROVE Got
  BY <1>c, <1>n
<1>d. ASSUME Sent PROVE CounterOfItsKey'
  BY <1>b, <1>d DEF CounterOfItsKey
<1>k. ASSUME raced' = raced PROVE CountersClean'
  BY <1>b, <1>k DEF SerialInv, CountersClean
\* A step outside the control thread that leaves the session's keys alone.
<1>q. ASSUME Same, Got, pc'["ctl"] = pc["ctl"], hs'["ctl"] = hs["ctl"], call' = call,
             pc'["recv"] \notin Installing, started' = started,
             pc'["app"] = pc["app"], tx' = tx, CountersClean'
      PROVE  SerialInv'
  BY <1>b, <1>c, <1>q DEF SerialInv, LeftWithOk, AfterOk
\* A step of the control thread before the session is rotated, or after an error.
<1>l. ASSUME Same, Got, pc["ctl"] \notin {"keys", "reset"},
             pc'["ctl"] \in {"idle", "attempt", "send", "wait", "check", "rotate"}
               \/ (pc'["ctl"] = "finish" /\ (call'.err = "WG_OK" => (Strict => session.valid))),
             pc'["app"] = pc["app"], pc'["app"] # "idle" => pc'["ctl"] = "idle",
             pc'["recv"] = pc["recv"], started' = started, tx' = tx, CountersClean'
      PROVE  SerialInv'
  <2>1. pc'["ctl"] \notin {"keys", "reset", "store", "keepalive"} \cup Installing
    BY <1>l DEF Installing
  <2> QED
    BY <1>b, <1>c, <1>l, <2>1 DEF SerialInv, LeftWithOk, AfterOk
<1>e. ASSUME NEW err, Continue(err), pc["ctl"] \in Awaiting, Same, Got, started' = started, tx' = tx,
             CountersClean', err = "WG_OK" => (Strict => session.valid)
      PROVE  SerialInv'
  <2>1. call'.err = err
    BY <1>a, <1>e DEF Continue, CallSet
  <2>2. pc'["ctl"] \in {"attempt", "finish"} /\ pc'["app"] = pc["app"] /\ pc'["recv"] = pc["recv"]
    BY <1>a, <1>e DEF Continue, Goto, Threads
  <2>3. pc["ctl"] \notin {"keys", "reset", "idle"}
    BY <1>e DEF Awaiting
  <2>4. pc["app"] = "idle"
    BY <1>c, <2>3
  <2> QED
    BY <1>e, <1>l, <2>1, <2>2, <2>3, <2>4
\* A packet: the counter the thread has fits the key.
<1>t. ASSUME NEW t \in Threads, Encrypt(t), Fits(tx[t].owner, session.sending_key),
             Strict => session.sending_key # NoKey
      PROVE  /\ CounterOfItsKey' /\ CountersClean' /\ ToTunnel' = ToTunnel
             /\ \A u \in Threads \ {t} : tx'[u] = tx[u]
  <2>1. PICK owner : owner = IF Pair(session.sending_key) = tx[t].owner THEN tx[t].owner ELSE NoKey
    OBVIOUS
  <2>2. PICK x : x = DataMsg("tun", tx[t].receiver, session.sending_key, tx[t].counter, owner)
    OBVIOUS
  <2>3. /\ x.owner = owner /\ x.key = session.sending_key /\ x.type = "data" /\ x.from = "tun"
    BY <2>2 DEF DataMsg
  <2>4. /\ net' = net \cup {x} /\ tx' = [tx EXCEPT ![t] = NoTx]
    BY <1>t, <2>1, <2>2 DEF Encrypt
  <2>5. TunData' = TunData \cup {x} /\ ToTunnel' = ToTunnel
    BY <2>3, <2>4 DEF TunData, ToTunnel
  <2>6. x.key # NoKey => x.owner = Pair(x.key)
    BY <1>t, <2>1, <2>3 DEF Fits
  <2>7. CountersClean'
    BY <1>k, <1>t DEF Encrypt, Fits
  <2> QED
    BY <1>a, <1>b, <1>t, <2>3, <2>4, <2>5, <2>6, <2>7 DEF CounterOfItsKey
<1>p. "recv" \notin Installing /\ "decrypt" \notin Installing /\ "validate" \notin Installing
      /\ "off" \notin Installing
  BY DEF Installing
<1> HIDE DEF Got
<1>1. CASE Connect
  <2>1. /\ pc'["ctl"] = "attempt" /\ pc'["recv"] = pc["recv"] /\ pc'["app"] = pc["app"]
        /\ pc["app"] = "idle" /\ pc["ctl"] = "idle"
    BY <1>1, <1>a, <1>c DEF Connect, Goto, Threads
  <2> QED
    BY <1>1, <1>d, <1>k, <1>l, <1>n, <2>1 DEF history, Connect, ToTunnel, TunData
<1>2. CASE Rekey
  <2>1. /\ pc'["ctl"] = "attempt" /\ pc'["recv"] = pc["recv"] /\ pc'["app"] = pc["app"]
        /\ pc["app"] = "idle" /\ pc["ctl"] = "idle"
    BY <1>2, <1>a, <1>c DEF Rekey, Goto, Threads
  <2> QED
    BY <1>2, <1>d, <1>k, <1>l, <1>n, <2>1 DEF history, Rekey, ToTunnel, TunData
<1>3. CASE Start
  <2>1. /\ pc'["ctl"] = "idle" /\ pc'["recv"] = "recv" /\ pc'["app"] = pc["app"]
    BY <1>3, <1>a DEF Start, Goto, Threads
  <2> QED
    BY <1>3, <1>b, <1>c, <1>k, <1>d, <1>p, <2>1 DEF Start, SerialInv, LeftWithOk, AfterOk, history, ToTunnel, TunData,
       Installing
<1>4. CASE Stop
  <2>1. /\ pc'["ctl"] = "idle" /\ pc'["recv"] = "off" /\ pc'["app"] = pc["app"]
    BY <1>4, <1>a DEF Stop, Goto, Threads
  <2> QED
    BY <1>4, <1>b, <1>c, <1>k, <1>d, <1>p, <2>1 DEF Stop, SerialInv, LeftWithOk, AfterOk, history, ToTunnel, TunData, Installing
<1>5. CASE HandshakeInit
  <2>1. Same
    BY <1>5, <1>a DEF HandshakeInit, Session
  <2>2. /\ pc'["ctl"] = "send" /\ pc'["recv"] = pc["recv"]
        /\ pc'["app"] = pc["app"] /\ pc["app"] = "idle"
    BY <1>5, <1>a, <1>c DEF HandshakeInit, Goto, Threads
  <2> QED
    BY <1>5, <1>d, <1>k, <1>l, <1>n, <2>1, <2>2 DEF history, HandshakeInit, ToTunnel, TunData
<1>6. CASE SendInit
  <2>1. ToTunnel' = ToTunnel /\ TunData' = TunData
    BY SMT, <1>6 DEF SendInit, InitMsg, ToTunnel, TunData
  <2>2. /\ pc'["ctl"] = "wait" \/ (pc'["ctl"] = "finish" /\ call'.err = "WG_ERR")
        /\ pc'["recv"] = pc["recv"] /\ pc'["app"] = pc["app"] /\ pc["app"] = "idle"
    BY <1>6, <1>a, <1>c DEF SendInit, Goto, Threads, CallSet
  <2> QED
    BY <1>6, <1>d, <1>k, <1>l, <1>n, <2>1, <2>2 DEF history, SendInit
<1>7. CASE Timeout
  BY <1>7, <1>d, <1>k, <1>e, <1>n DEF history, Timeout, Awaiting, ToTunnel, TunData
<1>8. CASE RekeyWake
  <2>1. pc["ctl"] \in Awaiting /\ pc["ctl"] = "wait"
    BY <1>8 DEF RekeyWake, Awaiting
  <2>2. Strict => session.valid
    BY <1>8, <1>b, <2>1 DEF RekeyWake, CallInv, SerialInv
  <2>3. CASE cookie
    BY <1>8, <1>d, <1>k, <1>e, <1>n, <2>1, <2>2, <2>3 DEF history, RekeyWake, ToTunnel, TunData
  <2>4. CASE ~cookie
    <3>1. /\ pc'["ctl"] = "check" /\ pc'["recv"] = pc["recv"] /\ pc'["app"] = pc["app"]
          /\ pc["app"] = "idle"
      BY <1>8, <1>a, <1>c, <2>4 DEF RekeyWake, Goto, Threads
    <3> QED
      BY <1>8, <1>d, <1>k, <1>l, <1>n, <2>1, <3>1 DEF history, RekeyWake, ToTunnel, TunData
  <2> QED
    BY <2>3, <2>4
<1>9. ASSUME NEW m \in ToTunnel, ConnectReceive(m) PROVE SerialInv' /\ CounterOfItsKey'
  <2>1. pc["ctl"] \in Awaiting /\ pc["ctl"] = "wait" /\ pc["app"] = "idle"
    BY <1>9, <1>c DEF ConnectReceive, Awaiting
  <2>2. CASE m.type = "response"
    <3>1. /\ pc'["ctl"] = "check" /\ pc'["recv"] = pc["recv"] /\ pc'["app"] = pc["app"]
      BY <1>9, <1>a, <2>2 DEF ConnectReceive, Goto, Threads
    <3> QED
      BY <1>9, <1>d, <1>k, <1>l, <1>n, <2>1, <3>1 DEF history, ConnectReceive, ToTunnel, TunData
  <2>3. CASE m.type = "init"
    BY <1>9, <1>c, <1>d, <1>k, <1>e, <1>n, <2>1, <2>3 DEF history, ConnectReceive, ToTunnel, TunData
  <2>4. CASE m.type \notin {"init", "response"}
    BY <1>9, <1>c, <1>d, <1>k, <1>e, <1>n, <2>1, <2>4 DEF history, ConnectReceive, ToTunnel, TunData
  <2> QED
    BY <2>2, <2>3, <2>4
<1>10. CASE ResponseCheck
  <2>1. pc["ctl"] \in Awaiting /\ pc["ctl"] = "check" /\ pc["app"] = "idle"
    BY <1>10, <1>c DEF ResponseCheck, Awaiting
  <2>2. Same
    BY <1>10, <1>a DEF ResponseCheck, Session
  <2>3. CASE Continue("WG_ERR")
    BY <1>10, <1>d, <1>k, <1>e, <1>n, <2>1, <2>2, <2>3 DEF history, ResponseCheck, ToTunnel, TunData
  <2>4. CASE ~Continue("WG_ERR")
    <3>1. /\ pc'["ctl"] = "rotate" /\ pc'["recv"] = pc["recv"] /\ pc'["app"] = pc["app"]
      BY ZenonT(40), <1>10, <1>a, <2>4 DEF ResponseCheck, Goto, Threads
    <3> QED
      BY <1>10, <1>d, <1>k, <1>l, <1>n, <2>1, <2>2, <3>1 DEF history, ResponseCheck, ToTunnel, TunData
  <2> QED
    BY <2>3, <2>4
<1>11. CASE ResponseRotate
  <2>1. /\ session'.sending_key = session.sending_key /\ session'.valid = session.valid
        /\ session'.age = session.age /\ session'.counted = session.counted
        /\ ToTunnel' = ToTunnel /\ Sent
    BY <1>11, <1>a DEF ResponseRotate, Session, ToTunnel, TunData
  <2>2. /\ pc'["ctl"] = "keys" /\ pc'["recv"] = pc["recv"]
        /\ pc'["app"] = pc["app"] /\ pc["app"] = "idle"
    BY <1>11, <1>a, <1>c DEF ResponseRotate, Goto, Threads
  <2>3. SerialInv'
    BY <1>11, <1>b, <1>c, <1>k, <2>1, <2>2 DEF ResponseRotate, SerialInv, LeftWithOk, AfterOk, history, Installing
  <2> QED
    BY <1>d, <2>1, <2>3
<1>12. CASE ResponseKeys
  <2>1. /\ session'.receiving_key = Kdf2(hs["ctl"][1], hs["ctl"][2], 2)
        /\ session'.sending_key = Kdf2(hs["ctl"][1], hs["ctl"][2], 1)
        /\ session'.valid = session.valid /\ session'.age = session.age
        /\ ToTunnel' = ToTunnel /\ Sent /\ hs' = hs
    BY <1>12, <1>a DEF ResponseKeys, Session, ToTunnel, TunData
  <2>2. /\ pc'["ctl"] = "reset" /\ pc'["recv"] = pc["recv"]
        /\ pc'["app"] = pc["app"] /\ pc["app"] = "idle"
    BY <1>12, <1>a, <1>c DEF ResponseKeys, Goto, Threads
  <2>3. session'.sending_key # NoKey
    BY SMT, <2>1 DEF NoKey, Kdf2
  <2>4. SerialInv'
    BY <1>12, <1>b, <1>c, <1>k, <2>1, <2>2, <2>3 DEF ResponseKeys, SerialInv, LeftWithOk, AfterOk, history, Installing
  <2> QED
    BY <1>d, <2>1, <2>4
<1>13. CASE ResponseReset
  <2>1. /\ session'.receiving_key = session.receiving_key
        /\ session'.sending_key = session.sending_key
        /\ session'.valid /\ session'.age = 0 /\ session'.counted = OwnerAfter("ctl")
        /\ ToTunnel' = ToTunnel /\ Sent
    BY <1>13, <1>a DEF ResponseReset, Session, ToTunnel, TunData
  <2>2. /\ pc["ctl"] = "reset" /\ pc'["ctl"] = "finish" /\ pc'["recv"] = pc["recv"]
        /\ pc'["app"] = pc["app"] /\ pc["app"] = "idle"
    BY <1>13, <1>a, <1>c DEF ResponseReset, Goto, Threads
  <2>3. \/ session.receiving_key = NoKey /\ session.sending_key = NoKey
        \/ /\ session.receiving_key = Kdf2(hs["ctl"][1], hs["ctl"][2], 2)
           /\ session.sending_key = Kdf2(hs["ctl"][1], hs["ctl"][2], 1)
    BY <1>b, <2>2 DEF SerialInv
  <2>4. hs["ctl"] = <<hs["ctl"][1], hs["ctl"][2]>>
    BY SMT, <1>a DEF Threads
  <2>5. Fits(OwnerAfter("ctl"), session.sending_key)
    BY SMT, <2>3, <2>4 DEF Fits, OwnerAfter, Pair, Kdf2
  <2>6. SerialInv'
    BY <1>13, <1>b, <1>c, <1>k, <2>1, <2>2, <2>5 DEF ResponseReset, SerialInv, LeftWithOk, AfterOk, history, Installing
  <2> QED
    BY <1>d, <2>1, <2>6
<1>14. ASSUME NEW t \in {"ctl", "recv"}, PassiveRotate(t)
       PROVE  SerialInv' /\ CounterOfItsKey'
  BY <1>14, <1>c DEF PassiveRotate, Installing
<1>15. ASSUME NEW t \in {"ctl", "recv"}, PassiveKeys(t) PROVE SerialInv' /\ CounterOfItsKey'
  BY <1>15, <1>c DEF PassiveKeys, Installing
<1>16. ASSUME NEW t \in {"ctl", "recv"}, PassiveReset(t)
       PROVE  SerialInv' /\ CounterOfItsKey'
  BY <1>16, <1>c DEF PassiveReset, Installing
<1>17. CASE ReturnError
  <2>1. Same
    BY <1>17, <1>a DEF ReturnError, Session
  <2>2. /\ pc["ctl"] = "finish" /\ pc'["ctl"] = "idle"
        /\ pc'["recv"] = pc["recv"] /\ pc'["app"] = pc["app"]
    BY <1>17, <1>a DEF ReturnError, Goto, Threads
  <2> QED
    BY <1>17, <1>d, <1>k, <1>l, <1>n, <2>1, <2>2 DEF history, ReturnError, ToTunnel, TunData
<1>18. CASE KeepaliveCounter
  <2>1. Same /\ tx'["ctl"].owner = session.counted /\ tx'["app"] = tx["app"]
    BY <1>18, <1>a DEF KeepaliveCounter, TakeCounter, Threads
  <2>2. /\ pc["ctl"] = "finish" /\ pc'["ctl"] = "store" /\ pc'["recv"] = pc["recv"]
        /\ pc'["app"] = pc["app"] /\ pc["app"] = "idle"
    BY <1>18, <1>a, <1>c DEF KeepaliveCounter, Goto, Threads
  <2>3. CountersClean'
    BY <1>18, <1>k, <2>2 DEF KeepaliveCounter, TakeCounter, Threads, TypeOK, PcOK, Installing
  <2>4. SerialInv'
    BY <1>18, <1>b, <1>c, <2>1, <2>2, <2>3 DEF KeepaliveCounter, SerialInv, LeftWithOk, AfterOk,
       Installing, ToTunnel
  <2> QED
    BY <1>18, <1>d, <2>4 DEF KeepaliveCounter, TunData
<1>19. CASE KeepaliveEncrypt
  <2>1. Fits(tx["ctl"].owner, session.sending_key) /\ (Strict => session.sending_key # NoKey)
    BY <1>19, <1>b DEF KeepaliveEncrypt, SerialInv, LeftWithOk, AfterOk
  <2>2. CounterOfItsKey' /\ CountersClean' /\ ToTunnel' = ToTunnel /\ tx'["app"] = tx["app"]
    BY <1>19, <1>t, <2>1 DEF KeepaliveEncrypt, Threads
  <2>3. /\ pc["ctl"] = "keepalive" /\ pc'["ctl"] = "idle"
        /\ pc'["recv"] = pc["recv"] /\ pc'["app"] = pc["app"]
    BY <1>19, <1>a DEF KeepaliveEncrypt, Goto, Threads
  <2>4. SerialInv'
    BY <1>19, <1>b, <1>c, <2>2, <2>3 DEF KeepaliveEncrypt, SerialInv, LeftWithOk, AfterOk, Installing
  <2> QED
    BY <2>2, <2>4
<1>20. ASSUME NEW m \in ToTunnel, RecvHandshake(m) PROVE SerialInv' /\ CounterOfItsKey'
  BY <1>20, <1>c, <1>d, <1>n, <1>k, <1>q DEF history, RecvHandshake, ToTunnel, TunData
<1>21. ASSUME NEW m \in ToTunnel, RecvMatch(m) PROVE SerialInv' /\ CounterOfItsKey'
  <2>1. pc'["ctl"] = pc["ctl"] /\ pc'["app"] = pc["app"] /\ pc'["recv"] \in {pc["recv"], "decrypt"}
    BY <1>21, <1>a DEF RecvMatch, Goto, Threads
  <2> QED
    BY <1>21, <1>c, <1>d, <1>n, <1>p, <1>k, <1>q, <2>1 DEF history, RecvMatch, ToTunnel, TunData
<1>22. CASE RecvDecrypt
  <2>1. pc'["ctl"] = pc["ctl"] /\ pc'["app"] = pc["app"] /\ pc'["recv"] \in {"recv", "validate"}
    BY <1>22, <1>a DEF RecvDecrypt, Goto, Threads
  <2> QED
    BY <1>22, <1>c, <1>d, <1>n, <1>p, <1>k, <1>q, <2>1 DEF history, RecvDecrypt, ToTunnel, TunData
<1>23. CASE RecvValidate
  <2>1. pc'["ctl"] = pc["ctl"] /\ pc'["app"] = pc["app"] /\ pc'["recv"] = "recv"
    BY <1>23, <1>a DEF RecvValidate, Goto, Threads
  <2>2. Same
    BY ZenonT(40), <1>23, <1>a DEF RecvValidate, Session
  <2>3. CountersClean'
    <3>1. raced' = raced \/ raced' = raced \cup {"window"}
      BY <1>23 DEF RecvValidate, Deliver, history
    <3> QED
      BY SMT, <1>b, <3>1 DEF SerialInv, CountersClean
  <2> QED
    BY <1>23, <1>d, <1>n, <1>p, <1>q, <2>1, <2>2, <2>3 DEF RecvValidate, ToTunnel, TunData
<1>24. ASSUME NEW m \in ToTunnel, Recv(m) PROVE SerialInv' /\ CounterOfItsKey'
  <2>1. Same
    BY <1>24, <1>a DEF Recv, Session
  <2>2. CountersClean'
    <3>1. raced' = raced \/ raced' = raced \cup {"window"}
      BY <1>24 DEF Recv, Deliver
    <3> QED
      BY SMT, <1>b, <3>1 DEF SerialInv, CountersClean
  <2> QED
    BY <1>24, <1>c, <1>d, <1>n, <1>q, <2>1, <2>2 DEF Recv, ToTunnel, TunData
<1>25. CASE SendCheck
  <2>1. pc'["ctl"] = pc["ctl"] /\ pc'["recv"] = pc["recv"] /\ pc'["app"] = "lock" /\ pc["ctl"] = "idle"
    BY <1>25, <1>a, <1>c DEF SendCheck, Goto, Threads
  <2> QED
    BY <1>25, <1>b, <1>c, <1>k, <1>d, <2>1 DEF SendCheck, SerialInv, LeftWithOk, AfterOk, history, ToTunnel, TunData
<1>26. CASE SendCounter
  <2>1. Same /\ tx'["app"].owner = session.counted /\ tx'["ctl"] = tx["ctl"]
    BY <1>26, <1>a DEF SendCounter, TakeCounter, Threads
  <2>2. /\ pc["ctl"] = "idle" /\ pc'["ctl"] = "idle" /\ pc'["recv"] = pc["recv"]
        /\ pc'["app"] = "store" /\ pc["app"] # "idle"
    BY <1>26, <1>a, <1>c DEF SendCounter, Goto, Threads
  <2>3. CountersClean'
    BY <1>26, <1>k, <2>2 DEF SendCounter, TakeCounter, Threads, TypeOK, PcOK, Installing
  <2>4. SerialInv'
    BY <1>26, <1>b, <1>c, <2>1, <2>2, <2>3 DEF SendCounter, SerialInv, LeftWithOk, AfterOk,
       Installing, ToTunnel
  <2> QED
    BY <1>26, <1>d, <2>4 DEF SendCounter, TunData
<1>27. CASE SendEncrypt
  <2>1. Fits(tx["app"].owner, session.sending_key) /\ (Strict => session.sending_key # NoKey)
    BY <1>27, <1>b DEF SendEncrypt, SerialInv
  <2>2. CounterOfItsKey' /\ CountersClean' /\ ToTunnel' = ToTunnel /\ tx'["ctl"] = tx["ctl"]
    BY <1>27, <1>t, <2>1 DEF SendEncrypt, Threads
  <2>3. /\ pc["app"] = "encrypt" /\ pc'["app"] = "idle"
        /\ pc'["recv"] = pc["recv"] /\ pc'["ctl"] = pc["ctl"]
    BY <1>27, <1>a DEF SendEncrypt, Goto, Threads
  <2>4. SerialInv'
    BY <1>27, <1>b, <1>c, <2>2, <2>3 DEF SendEncrypt, SerialInv, LeftWithOk, AfterOk, Installing
  <2> QED
    BY <2>2, <2>4
<1>28. CASE ZeroKeys
  <2>1. ~Strict
    BY SMT, <1>28, <1>c DEF ZeroKeys
  <2>2. session'.sending_key = NoKey /\ session'.receiving_key = NoKey
    BY <1>28 DEF ZeroKeys, ZeroSession
  <2>3. SerialInv'
    BY <1>28, <1>b, <1>c, <1>k, <2>1, <2>2 DEF ZeroKeys, SerialInv, LeftWithOk, AfterOk, history, Fits, ToTunnel
  <2> QED
    BY <1>28, <1>d, <2>3 DEF ZeroKeys, TunData
<1>29. CASE Tick
  <2>1. ~Strict
    BY <1>29 DEF Tick
  <2>2. /\ session'.sending_key = session.sending_key
        /\ session'.receiving_key = session.receiving_key
        /\ session'.counted = session.counted
    BY <1>29, <1>a DEF Tick, Older, Session
  <2>3. SerialInv'
    BY <1>29, <1>b, <1>c, <1>k, <2>1, <2>2 DEF Tick, SerialInv, LeftWithOk, AfterOk, history, ToTunnel
  <2> QED
    BY <1>29, <1>d, <2>3 DEF Tick, TunData
<1>30. ASSUME NEW m \in net, PeerAnswer(m) PROVE SerialInv' /\ CounterOfItsKey'
  <2>1. PICK x : net' = net \cup {x} /\ x.from = "peer" /\ x.type # "init"
    <3>1. \A ok : LET x == ResponseMsg("peer", nextId, m.sender, ok) IN x.from = "peer" /\ x.type # "init"
      BY DEF ResponseMsg
    <3>2. CookieMsg(m.sender).from = "peer" /\ CookieMsg(m.sender).type # "init"
      BY DEF CookieMsg
    <3> QED
      BY <1>30, <3>1, <3>2 DEF PeerAnswer
  <2>2. TunData' = TunData /\ Got
    BY <1>c, <2>1 DEF TunData, ToTunnel, Got
  <2> QED
    BY <1>30, <1>c, <1>d, <1>k, <1>q, <2>2 DEF history, PeerAnswer
<1>31. ASSUME NEW m \in net, PeerAdopt(m) PROVE SerialInv' /\ CounterOfItsKey'
  BY <1>31, <1>c, <1>d, <1>n, <1>k, <1>q DEF history, PeerAdopt, ToTunnel, TunData
<1>32. CASE PeerInitiate
  <2>1. ~Strict /\ net' = net \cup {InitMsg("peer", nextId, FALSE)}
    BY <1>32, <1>c DEF PeerInitiate
  <2>2. TunData' = TunData /\ Got
    BY SMT, <1>c, <2>1 DEF TunData, ToTunnel, Got, InitMsg
  <2> QED
    BY <1>32, <1>c, <1>d, <1>k, <1>q, <2>2 DEF history, PeerInitiate
<1>33. CASE PeerSend
  <2>1. TunData' = TunData /\ Got
    BY SMT, <1>33, <1>c DEF PeerSend, TunData, ToTunnel, Got, DataMsg
  <2> QED
    BY <1>33, <1>c, <1>d, <1>k, <1>q, <2>1 DEF history, PeerSend
<1>34. CASE KeepaliveStore
  <2>1. Same
    BY <1>34, <1>a DEF KeepaliveStore, StoreCounter, Session
  <2>2. /\ pc["ctl"] = "store" /\ pc'["ctl"] = "keepalive" /\ pc'["recv"] = pc["recv"]
        /\ pc'["app"] = pc["app"] /\ pc["app"] = "idle"
    BY <1>34, <1>a, <1>c DEF KeepaliveStore, StoreCounter, Goto, Threads
  <2>3. SerialInv'
    BY <1>34, <1>b, <1>c, <1>k, <2>1, <2>2 DEF KeepaliveStore, SerialInv, LeftWithOk, AfterOk,
       Installing, ToTunnel, history
  <2> QED
    BY <1>34, <1>d, <2>3 DEF KeepaliveStore, TunData
<1>35. CASE SendStore
  <2>1. Same
    BY <1>35, <1>a DEF SendStore, StoreCounter, Session
  <2>2. /\ pc["ctl"] = "idle" /\ pc'["ctl"] = "idle" /\ pc'["recv"] = pc["recv"]
        /\ pc'["app"] = "encrypt" /\ pc["app"] = "store"
    BY <1>35, <1>a, <1>c DEF SendStore, StoreCounter, Goto, Threads
  <2>3. SerialInv'
    BY <1>35, <1>b, <1>c, <1>k, <2>1, <2>2 DEF SendStore, SerialInv, LeftWithOk, AfterOk,
       Installing, ToTunnel, history
  <2> QED
    BY <1>35, <1>d, <2>3 DEF SendStore, TunData
<1> QED
  BY <1>1, <1>2, <1>3, <1>4, <1>5, <1>6, <1>7, <1>8, <1>9, <1>10, <1>11, <1>12,
     <1>13, <1>14, <1>15, <1>16, <1>17, <1>18, <1>19, <1>20, <1>21, <1>22, <1>23,
     <1>24, <1>25, <1>26, <1>27, <1>28, <1>29, <1>30, <1>31, <1>32, <1>33, <1>34, <1>35
     DEF Next, ControlStep, RecvStep, SenderStep, Peer

-----------------------------------------------------------------------------
(* The theorems. *)

\* The invariant holds of a tunnel that wg_init has just made.
LEMMA InitInv == Init => TunnelInv
<1> SUFFICES ASSUME Init PROVE TunnelInv
  OBVIOUS
<1>a. /\ net = {} /\ nextId = 1 /\ session = ZeroSession /\ prev = ZeroSession
      /\ pc = [t \in Threads |-> IF t = "recv" THEN "off" ELSE "idle"]
      /\ tx = [t \in Threads |-> NoTx] /\ delivered = {} /\ ~reused /\ ~duplicated
      /\ raced = {}
  BY DEF Init
<1>b. pc["ctl"] = "idle" /\ pc["app"] = "idle" /\ pc["recv"] = "off"
  BY <1>a DEF Threads
<1>c. /\ \A t \in Threads : pc[t] \notin Completing \cup Mixing \cup Looping \cup Installing
      /\ pc["ctl"] \notin Awaiting
  BY <1>a, <1>b DEF Threads, Completing, Mixing, Looping, Awaiting, Installing
<1>d. TunData = {} /\ ToTunnel = {}
  BY <1>a DEF TunData, ToTunnel
<1>e. Ids = {0} /\ NoKey \in KeySet
  BY SMT, <1>a DEF Ids, KeySet, NoKey, Kdf2
<1>f. PICK sc \in Scenarios :
        scene = [env |-> sc.env, max |-> sc.max, data |-> sc.data, calls |-> 0]
  BY DEF Init
<1>g. /\ scene \in [env : SUBSET Behaviours, max : Nat, data : Nat, calls : Nat] /\ scene.calls = 0
      /\ WG_REJECT_AFTER_MESSAGES \in Nat \ {0} /\ WG_MAX_TIMER_HANDSHAKES \in Nat \ {0}
  BY <1>f, TunnelAssumption
<1>1. SessionOK
  BY SMT, <1>a, <1>e, <1>g DEF SessionOK, Session, ZeroSession
<1>2. PcOK
  <2>1. pc \in [Threads -> {"idle", "off"}] /\ started = FALSE
    BY <1>a DEF Init
  <2> QED
    BY <1>b, <2>1 DEF PcOK
<1>3. LocalsOK
  <2>1. call \in CallSet
    <3>1. 0 \in 0 .. WG_MAX_TIMER_HANDSHAKES
      BY SMT, <1>g
    <3> QED
      BY <1>e, <3>1 DEF Init, CallSet
  <2>2. hs = [t \in Threads |-> <<0, 0>>] /\ <<0, 0>> \in Ids \X Ids
    BY <1>e DEF Init
  <2>3. NoTx \in TxSet
    BY <1>e, SMT DEF TxSet, NoTx
  <2>4. hs \in [Threads -> Ids \X Ids] /\ tx \in [Threads -> TxSet]
    BY <1>a, <2>2, <2>3
  <2> QED
    BY <1>b, <1>c, <2>1, <2>4 DEF LocalsOK, Init, Threads
<1>4. NetOK
  <2>1. peerKey = NoKey /\ peerSent = 0
    BY DEF Init
  <2>2. 0 \in Nat /\ 1 \in Nat \ {0}
    BY SMT
  <2> QED
    BY <1>a, <1>e, <1>g, <2>1, <2>2 DEF NetOK
<1>5. CounterLimit
  <2>1. session.sending_counter = 0
    BY <1>a DEF ZeroSession
  <2> QED
    BY SMT, <1>b, <1>g, <2>1 DEF CounterLimit, BeforeLoad
<1>6. \A k : NotOf(k, Completing) /\ NotOf(k, Mixing)
  BY <1>c DEF NotOf
<1>7. HandshakesFresh /\ OwnersPast /\ KeysPast
  BY <1>c, <1>6, <1>a DEF HandshakesFresh, OwnersPast, KeysPast, Threads
<1>8. MutexInv /\ CountersInv /\ WindowInv /\ PrevInv
  <2>1. /\ session.owner = NoKey /\ session.counted = NoKey /\ ~prev.valid
        /\ \A t \in Threads : tx[t].owner = NoKey /\ pc[t] # "store"
    BY <1>a DEF ZeroSession, NoTx
  <2>2. MutexInv
    BY <1>a, <1>b DEF MutexInv
  <2> QED
    BY <1>a, <1>d, <2>1, <2>2 DEF CountersInv, WindowInv, PrevInv
<1>9. CallInv /\ DefaultInv /\ CoherentInv /\ SerialInv /\ CounterOfItsKey
  <2>1. ~session.valid /\ session.sending_key = NoKey /\ ~session.rekey_in_progress
    BY <1>a DEF ZeroSession
  <2>2. ~cookie /\ started = FALSE
    BY DEF Init
  <2>3. ~LeftWithOk /\ pc["ctl"] \notin AfterOk
    BY <1>b DEF LeftWithOk, AfterOk
  <2>4. CountersClean
    BY <1>a DEF CountersClean
  <2>5. CallInv /\ DefaultInv /\ CoherentInv
    BY <1>b, <1>c, <1>d, <2>1, <2>2, <2>3 DEF CallInv, DefaultInv, Established, CoherentInv, Threads
  <2> QED
    BY <1>b, <1>c, <1>d, <2>1, <2>2, <2>3, <2>4, <2>5 DEF SerialInv, Fits, CounterOfItsKey, Threads
<1> QED
  BY <1>1, <1>2, <1>3, <1>4, <1>5, <1>7, <1>8, <1>9 DEF TunnelInv, SafeInv, TypeOK

\* A step that changes nothing preserves the invariant.
LEMMA StutterInv == TunnelInv /\ UNCHANGED vars => TunnelInv'
<1> SUFFICES ASSUME TunnelInv, UNCHANGED vars PROVE TunnelInv'
  OBVIOUS
<1>a. /\ session' = session /\ prev' = prev /\ started' = started /\ pending' = pending
      /\ cookie' = cookie /\ pc' = pc /\ call' = call /\ hs' = hs
      /\ rx' = rx /\ tx' = tx /\ net' = net
      /\ nextId' = nextId /\ peerKey' = peerKey /\ peerSent' = peerSent /\ scene' = scene
      /\ delivered' = delivered /\ reused' = reused /\ duplicated' = duplicated
      /\ raced' = raced
  BY DEF vars, history
<1>b. /\ Ids' = Ids /\ KeySet' = KeySet /\ Session' = Session
      /\ CallSet' = CallSet /\ TxSet' = TxSet
      /\ TunData' = TunData /\ ToTunnel' = ToTunnel
  BY <1>a DEF Ids, KeySet, Session, CallSet, TxSet, TunData, ToTunnel
<1>1. TypeOK'
  <2>1. \A m \in net' : MsgOK(m)'
    BY <1>a, <1>b DEF TunnelInv, SafeInv, TypeOK, NetOK, MsgOK
  <2>2. SessionOK' /\ PcOK'
    BY <1>a, <1>b DEF TunnelInv, SafeInv, TypeOK, SessionOK, PcOK
  <2>3. LocalsOK'
    BY <1>a, <1>b DEF TunnelInv, SafeInv, TypeOK, LocalsOK
  <2>4. NetOK'
    BY <1>a, <1>b, <2>1 DEF TunnelInv, SafeInv, TypeOK, NetOK
  <2> QED
    BY <2>2, <2>3, <2>4 DEF TypeOK
<1>2. CounterLimit' /\ HandshakesFresh'
  BY <1>a, <1>b DEF TunnelInv, SafeInv, CounterLimit, BeforeLoad, HandshakesFresh
<1>3. OwnersPast' /\ KeysPast'
  BY <1>a, <1>b DEF TunnelInv, SafeInv, OwnersPast, KeysPast, NotOf
<1>4. MutexInv' /\ CountersInv' /\ WindowInv' /\ PrevInv'
  BY <1>a, <1>b DEF TunnelInv, SafeInv, MutexInv, CountersInv, CountersClean, WindowInv, PrevInv
<1>5. CallInv' /\ DefaultInv' /\ CoherentInv'
  <2>1. CallInv' /\ DefaultInv'
    BY <1>a, <1>b DEF TunnelInv, CallInv, DefaultInv, Established, LeftWithOk, OkByDefault
  <2> QED
    BY <1>a, <1>b, <2>1 DEF TunnelInv, CoherentInv, KeysBefore
<1>6. SerialInv' /\ CounterOfItsKey'
  BY <1>a, <1>b DEF TunnelInv, SerialInv, CountersClean, LeftWithOk, CounterOfItsKey
<1> QED
  BY <1>1, <1>2, <1>3, <1>4, <1>5, <1>6 DEF TunnelInv, SafeInv

\* TunnelInv holds in every reachable state of the session of a tunnel, for every
\* number of attempts, calls, packets and indices and in every scenario.
THEOREM TunnelInvariant == Spec => []TunnelInv
<1>1. Init => TunnelInv
  BY InitInv
<1>2. TunnelInv /\ [Next]_vars => TunnelInv'
  <2>1. TunnelInv /\ Next => TunnelInv'
    BY TypeStep, LimitStep, FreshStep, OwnersStep, KeysStep, MutexStep, CountersStep,
       WindowStep, PrevStep, CallStep, DefaultStep, CoherentStep, SerialStep DEF TunnelInv, SafeInv
  <2> QED
    BY <2>1, StutterInv
<1> QED
  BY <1>1, <1>2, PTL DEF Spec

\* wg_send, wg_send_keepalive and the handshake functions never encrypt two packets
\* with one key and counter, as long as no keepalive of wg_connect has overlapped the
\* sending_counter++ of a wg_send and no key has changed under a packet.  That the
\* keepalive of wg_rekey does not overlap it either is proved, not assumed: it holds
\* send_mutex.
THEOREM NoncesAreUnique == Spec => []NonceUnique
<1>1. TunnelInv => NonceUnique
  BY DEF TunnelInv, SafeInv, CountersInv, CountersClean, NonceUnique
<1> QED
  BY <1>1, TunnelInvariant, PTL

\* The receive thread and wg_recv hand a packet over at most once, across any number
\* of rekeys, as long as none was checked against another window than its key's.
THEOREM PacketsOnlyOnce == Spec => []PacketOnce
<1>1. TunnelInv => PacketOnce
  BY DEF TunnelInv, SafeInv, WindowInv, PacketOnce
<1> QED
  BY <1>1, TunnelInvariant, PTL

\* Every packet has a counter of its own key when the application sends, connects and
\* rekeys on one thread and the peer does not initiate: wg_send takes the counter and
\* reads the sending key in two steps.
THEOREM CountersFitTheirKey == Spec => []CounterOfItsKey
<1>1. TunnelInv => CounterOfItsKey
  BY DEF TunnelInv
<1> QED
  BY <1>1, TunnelInvariant, PTL

\* WG_OK from wg_connect or wg_rekey before the attempts are used up means a session
\* from a new handshake; after the last attempt it comes from a cookie reply or from
\* an initiation that does not decrypt.
THEOREM OkIsAHandshake == Spec => []OkMeansHandshake
<1>1. TunnelInv => OkMeansHandshake
  BY DEF TunnelInv, CallInv, DefaultInv, LeftWithOk, Established, OkMeansHandshake
<1> QED
  BY <1>1, TunnelInvariant, PTL

\* Between calls, a valid session has keys and indices of one handshake, its counter
\* is within the limit, and prev_session has other keys.
THEOREM SessionOfOnePiece == Spec => []SessionInv
<1>1. TunnelInv => SessionInv
  <2> SUFFICES ASSUME TunnelInv PROVE SessionInv
    OBVIOUS
  <2>1. SessionCoherent
    <3> SUFFICES ASSUME scene.env \subseteq {"send"}, Quiet, session.valid
                 PROVE  /\ session.sending_key = Pair(session.receiving_key)
                        /\ session.local_index = LocalOf(session.receiving_key)
                        /\ session.remote_index = RemoteOf(session.receiving_key)
      BY DEF SessionCoherent
    <3> QED
      BY DEF TunnelInv, CoherentInv, Quiet, KeysBefore, Awaiting, LocalOf, RemoteOf
  <2>2. PrevIsOlder
    BY DEF TunnelInv, SafeInv, TypeOK, PcOK, PrevInv, PrevIsOlder, Quiet,
       Installing, Threads
  <2> QED
    BY <2>1, <2>2 DEF TunnelInv, SafeInv, SessionInv
<1> QED
  BY <1>1, TunnelInvariant, PTL

=============================================================================
