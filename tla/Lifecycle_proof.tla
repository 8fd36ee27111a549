--------------------------- MODULE Lifecycle_proof ---------------------------
(***************************************************************************)
(* Proofs about Lifecycle, for any set of clients and calls without end:   *)
(* LifecycleInv is inductive.  Its main clause says where a call can be    *)
(* and what state goes with each of its steps.                             *)
(***************************************************************************)
EXTENDS Lifecycle, SequenceTheorems, TLAPS

USE ZenonT(30)

-----------------------------------------------------------------------------
(* The calls as sequences of steps. *)

Ops == {"check", "callback", "reset", "create", "running", "stopped", "signal", "broadcast",
        "join", "stop", "free"}
Args == {"", "tun", "relay", "recv", "ka", "rt"}
AnyStep == {Step(op, arg) : op \in Ops, arg \in Args}
             \cup {Get(res, unwind) : res, unwind \in SUBSET (Tunnel \cup Relay)}

\* The step after the i-th one is the i+1-st.
LEMMA FromStep ==
  ASSUME NEW p \in Seq(AnyStep), NEW i \in 1 .. Len(p)
  PROVE  /\ From(p, i) \in Seq(AnyStep) /\ From(p, i) # <<>>
         /\ Head(From(p, i)) = p[i] /\ Tail(From(p, i)) = From(p, i + 1)
<1>1. Len(p) \in Nat /\ \A j \in i .. Len(p) : p[j] \in AnyStep
  BY SMT, LenProperties, ElementOfSeq
<1>2. From(p, i) \in Seq(AnyStep) /\ Len(From(p, i)) = Len(p) - i + 1
  BY SMT, <1>1, SubSeqProperties DEF From
<1>3. From(p, i) # <<>>
  BY SMT, <1>1, <1>2
<1>4. Head(From(p, i)) = p[i] /\ Tail(From(p, i)) = From(p, i + 1)
  BY SMT, <1>1, HeadTailOfSubSeq DEF From
<1> QED
  BY <1>2, <1>3, <1>4

\* The whole call, and its end.
LEMMA FromEnds ==
  ASSUME NEW p \in Seq(AnyStep)
  PROVE  From(p, 1) = p /\ From(p, Len(p) + 1) = <<>>
<1>1. Len(p) \in Nat
  BY LenProperties
<1> QED
  BY SMT, <1>1, SubSeqFull, SubSeqEmpty DEF From

\* The same for a function that is called inside another call.
LEMMA HeadTailThen ==
  ASSUME NEW p \in Seq(AnyStep), p # <<>>, NEW k \in Seq(AnyStep)
  PROVE  p \o k # <<>> /\ Head(p \o k) = Head(p) /\ Tail(p \o k) = Tail(p) \o k
<1>1. Len(p) \in Nat /\ Len(p) >= 1 /\ Len(k) \in Nat
  BY SMT, LenProperties, EmptySeq
<1>2. /\ p \o k \in Seq(AnyStep) /\ Len(p \o k) = Len(p) + Len(k)
      /\ \A i \in 1 .. Len(p) + Len(k) : (p \o k)[i] = IF i <= Len(p) THEN p[i] ELSE k[i - Len(p)]
  BY ConcatProperties
<1>3. p \o k # <<>>
  BY SMT, <1>1, <1>2, EmptySeq
<1>4. Head(p \o k) = Head(p)
  BY SMT, <1>1, <1>2
<1>5. /\ Tail(p) \in Seq(AnyStep) /\ Len(Tail(p)) = Len(p) - 1
      /\ \A i \in 1 .. Len(p) - 1 : Tail(p)[i] = p[i + 1]
  BY <1>1, HeadTailProperties
<1>6. /\ Tail(p) \o k \in Seq(AnyStep) /\ Len(Tail(p) \o k) = Len(p) - 1 + Len(k)
      /\ \A i \in 1 .. Len(p) - 1 + Len(k) :
           (Tail(p) \o k)[i] = IF i <= Len(p) - 1 THEN Tail(p)[i] ELSE k[i - (Len(p) - 1)]
  BY SMT, <1>5, ConcatProperties
<1>7. /\ Tail(p \o k) \in Seq(AnyStep) /\ Len(Tail(p \o k)) = Len(p) + Len(k) - 1
      /\ \A i \in 1 .. Len(p) + Len(k) - 1 : Tail(p \o k)[i] = (p \o k)[i + 1]
  BY SMT, <1>2, <1>3, HeadTailProperties
<1>8. ASSUME NEW i \in 1 .. Len(p) + Len(k) - 1
      PROVE  Tail(p \o k)[i] = (Tail(p) \o k)[i]
  <2>1. Tail(p \o k)[i] = IF i + 1 <= Len(p) THEN p[i + 1] ELSE k[i + 1 - Len(p)]
    BY SMT, <1>1, <1>2, <1>7
  <2>2. (Tail(p) \o k)[i] = IF i <= Len(p) - 1 THEN p[i + 1] ELSE k[i - (Len(p) - 1)]
    BY SMT, <1>1, <1>5, <1>6
  <2>3. i + 1 - Len(p) = i - (Len(p) - 1) /\ (i + 1 <= Len(p) <=> i <= Len(p) - 1)
    BY SMT, <1>1
  <2> QED
    BY SMT, <2>1, <2>2, <2>3
<1>9. Len(Tail(p \o k)) = Len(Tail(p) \o k)
  BY SMT, <1>1, <1>6, <1>7
<1> QED
  BY <1>3, <1>4, <1>6, <1>7, <1>8, <1>9, SeqEqual

\* The steps of the calls.
LEMMA StepsAreSteps ==
  /\ \A op \in Ops, arg \in Args : Step(op, arg) \in AnyStep
  /\ \A r, u \in SUBSET (Tunnel \cup Relay) : Get(r, u) \in AnyStep
BY SMT DEF AnyStep

\* Short sequences of steps.
LEMMA Tuples ==
  ASSUME NEW x \in AnyStep, NEW y \in AnyStep, NEW z \in AnyStep,
         NEW u \in AnyStep, NEW v \in AnyStep
  PROVE  /\ <<>> \in Seq(AnyStep) /\ Len(<<>>) = 0
         /\ <<x>> \in Seq(AnyStep) /\ Len(<<x>>) = 1 /\ <<x>>[1] = x
         /\ <<x, y>> \in Seq(AnyStep) /\ Len(<<x, y>>) = 2 /\ <<x, y>>[1] = x /\ <<x, y>>[2] = y
         /\ LET s == <<x, y, z>>
            IN s \in Seq(AnyStep) /\ Len(s) = 3 /\ s[1] = x /\ s[2] = y /\ s[3] = z
         /\ LET s == <<x, y, z, u, v>>
            IN  /\ s \in Seq(AnyStep) /\ Len(s) = 5
                /\ s[1] = x /\ s[2] = y /\ s[3] = z /\ s[4] = u /\ s[5] = v
BY SMT

\* wg_start has five steps.
LEMMA WgStartIs ==
  /\ WgStart \in Seq(AnyStep) /\ Len(WgStart) = 5
  /\ WgStart[1] = Step("check", "") /\ WgStart[2] = Step("reset", "tun")
  /\ WgStart[3] = Step("create", "recv") /\ WgStart[4] = Step("create", "ka")
  /\ WgStart[5] = Step("running", "tun")
<1>1. /\ Step("check", "") \in AnyStep /\ Step("reset", "tun") \in AnyStep
      /\ Step("create", "recv") \in AnyStep /\ Step("create", "ka") \in AnyStep
      /\ Step("running", "tun") \in AnyStep
  BY StepsAreSteps DEF Ops, Args
<1> QED
  BY <1>1, Tuples DEF WgStart

\* wg_relay_start has nine, wg_start's among them.
LEMMA WgRelayStartIs ==
  /\ WgRelayStart \in Seq(AnyStep) /\ Len(WgRelayStart) = 9
  /\ WgRelayStart[1] = Step("callback", "")
  /\ WgRelayStart[2] = Step("check", "") /\ WgRelayStart[3] = Step("reset", "tun")
  /\ WgRelayStart[4] = Step("create", "recv") /\ WgRelayStart[5] = Step("create", "ka")
  /\ WgRelayStart[6] = Step("running", "tun")
  /\ WgRelayStart[7] = Step("reset", "relay") /\ WgRelayStart[8] = Step("create", "rt")
  /\ WgRelayStart[9] = Step("running", "relay")
<1> DEFINE a == <<Step("callback", "")>>
           b == <<Step("reset", "relay"), Step("create", "rt"), Step("running", "relay")>>
<1>1. /\ Step("callback", "") \in AnyStep /\ Step("reset", "relay") \in AnyStep
      /\ Step("create", "rt") \in AnyStep /\ Step("running", "relay") \in AnyStep
  BY StepsAreSteps DEF Ops, Args
<1>2. /\ a \in Seq(AnyStep) /\ Len(a) = 1 /\ a[1] = Step("callback", "")
      /\ b \in Seq(AnyStep) /\ Len(b) = 3 /\ b[1] = Step("reset", "relay")
      /\ b[2] = Step("create", "rt") /\ b[3] = Step("running", "relay")
  BY ZenonT(40), <1>1, Tuples
<1> DEFINE c == a \o WgStart
           d == c \o b
<1>3. WgRelayStart = d
  BY DEF WgRelayStart
<1> HIDE DEF a, b
<1>4. /\ c \in Seq(AnyStep) /\ Len(c) = Len(a) + Len(WgStart)
      /\ \A i \in 1 .. Len(a) + Len(WgStart) :
           c[i] = IF i <= Len(a) THEN a[i] ELSE WgStart[i - Len(a)]
  BY <1>2, WgStartIs, ConcatProperties
<1> HIDE DEF c
<1>5. Len(a) = 1 /\ Len(WgStart) = 5 /\ Len(b) = 3
  BY <1>2, WgStartIs
<1>6. /\ Len(c) = 6 /\ \A i \in 1 .. 6 : c[i] = IF i <= 1 THEN a[i] ELSE WgStart[i - 1]
  BY SMT, <1>4, <1>5
<1>d. c \in Seq(AnyStep) /\ b \in Seq(AnyStep)
  BY <1>2, <1>4
<1>e. /\ d \in Seq(AnyStep) /\ Len(d) = Len(c) + Len(b)
      /\ \A i \in 1 .. Len(c) + Len(b) : d[i] = IF i <= Len(c) THEN c[i] ELSE b[i - Len(c)]
  BY <1>d, ConcatProperties
<1> HIDE DEF d
<1>f. Len(c) = 6
  BY <1>6
<1>7. /\ Len(d) = 9 /\ \A i \in 1 .. 9 : d[i] = IF i <= 6 THEN c[i] ELSE b[i - 6]
  BY SMT, <1>5, <1>e, <1>f
<1>8. d[1] = a[1] /\ d[7] = b[1] /\ d[8] = b[2] /\ d[9] = b[3]
  BY SMT, <1>6, <1>7
<1>9. /\ d[2] = WgStart[1] /\ d[3] = WgStart[2] /\ d[4] = WgStart[3]
      /\ d[5] = WgStart[4] /\ d[6] = WgStart[5]
  BY SMT, <1>6, <1>7
<1> QED
  BY <1>2, <1>3, <1>e, <1>7, <1>8, <1>9, WgStartIs

\* Two steps and one.
LEMMA TwoOne ==
  ASSUME NEW x \in AnyStep, NEW y \in AnyStep, NEW z \in AnyStep
  PROVE  LET s == <<x, y>> \o <<z>>
         IN  /\ s \in Seq(AnyStep) /\ Len(s) = 3
             /\ s[1] = x /\ s[2] = y /\ s[3] = z
<1> DEFINE a == <<x, y>>
           b == <<z>>
           c == a \o b
<1>1. /\ a \in Seq(AnyStep) /\ Len(a) = 2 /\ a[1] = x /\ a[2] = y
      /\ b \in Seq(AnyStep) /\ Len(b) = 1 /\ b[1] = z
  BY SMT
<1> HIDE DEF a, b
<1>2. /\ c \in Seq(AnyStep) /\ Len(c) = Len(a) + Len(b)
      /\ \A i \in 1 .. Len(a) + Len(b) : c[i] = IF i <= Len(a) THEN a[i] ELSE b[i - Len(a)]
  BY <1>1, ConcatProperties
<1> HIDE DEF c
<1>3. Len(a) = 2 /\ Len(b) = 1
  BY <1>1
<1>4. Len(c) = 3 /\ \A i \in 1 .. 3 : c[i] = IF i <= 2 THEN a[i] ELSE b[i - 2]
  BY SMT, <1>2, <1>3
<1>5. c[1] = x /\ c[2] = y /\ c[3] = z
  BY SMT, <1>1, <1>4
<1> QED
  BY <1>2, <1>4, <1>5 DEF a, b, c

\* Two steps and three.
LEMMA TwoThree ==
  ASSUME NEW x \in AnyStep, NEW y \in AnyStep, NEW z \in AnyStep,
         NEW u \in AnyStep, NEW v \in AnyStep
  PROVE  LET s == <<x, y>> \o <<z, u, v>>
         IN  /\ s \in Seq(AnyStep) /\ Len(s) = 5
             /\ s[1] = x /\ s[2] = y /\ s[3] = z /\ s[4] = u /\ s[5] = v
<1> DEFINE a == <<x, y>>
           b == <<z, u, v>>
           c == a \o b
<1>1. /\ a \in Seq(AnyStep) /\ Len(a) = 2 /\ a[1] = x /\ a[2] = y
      /\ b \in Seq(AnyStep) /\ Len(b) = 3 /\ b[1] = z /\ b[2] = u /\ b[3] = v
  BY SMT
<1> HIDE DEF a, b
<1>2. /\ c \in Seq(AnyStep) /\ Len(c) = Len(a) + Len(b)
      /\ \A i \in 1 .. Len(a) + Len(b) : c[i] = IF i <= Len(a) THEN a[i] ELSE b[i - Len(a)]
  BY <1>1, ConcatProperties
<1> HIDE DEF c
<1>3. Len(a) = 2 /\ Len(b) = 3
  BY <1>1
<1>4. Len(c) = 5 /\ \A i \in 1 .. 5 : c[i] = IF i <= 2 THEN a[i] ELSE b[i - 2]
  BY SMT, <1>2, <1>3
<1>5. c[1] = x /\ c[2] = y /\ c[3] = z /\ c[4] = u /\ c[5] = v
  BY SMT, <1>1, <1>4
<1> QED
  BY <1>2, <1>4, <1>5 DEF a, b, c

\* Three steps and two.
LEMMA ThreeTwo ==
  ASSUME NEW x \in AnyStep, NEW y \in AnyStep, NEW z \in AnyStep,
         NEW u \in AnyStep, NEW v \in AnyStep
  PROVE  LET s == <<x, y, z>> \o <<u, v>>
         IN  /\ s \in Seq(AnyStep) /\ Len(s) = 5
             /\ s[1] = x /\ s[2] = y /\ s[3] = z /\ s[4] = u /\ s[5] = v
<1> DEFINE a == <<x, y, z>>
           b == <<u, v>>
           c == a \o b
<1>1. /\ a \in Seq(AnyStep) /\ Len(a) = 3 /\ a[1] = x /\ a[2] = y /\ a[3] = z
      /\ b \in Seq(AnyStep) /\ Len(b) = 2 /\ b[1] = u /\ b[2] = v
  BY SMT
<1> HIDE DEF a, b
<1>2. /\ c \in Seq(AnyStep) /\ Len(c) = Len(a) + Len(b)
      /\ \A i \in 1 .. Len(a) + Len(b) : c[i] = IF i <= Len(a) THEN a[i] ELSE b[i - Len(a)]
  BY <1>1, ConcatProperties
<1> HIDE DEF c
<1>3. Len(a) = 3 /\ Len(b) = 2
  BY <1>1
<1>4. Len(c) = 5 /\ \A i \in 1 .. 5 : c[i] = IF i <= 3 THEN a[i] ELSE b[i - 3]
  BY SMT, <1>2, <1>3
<1>5. c[1] = x /\ c[2] = y /\ c[3] = z /\ c[4] = u /\ c[5] = v
  BY SMT, <1>1, <1>4
<1> QED
  BY <1>2, <1>4, <1>5 DEF a, b, c

\* wg_stop and wg_relay_stop have five steps each.
LEMMA StopStepsIs ==
  /\ StopSteps("tun") \in Seq(AnyStep) /\ Len(StopSteps("tun")) = 5
  /\ StopSteps("tun")[1] = Step("signal", "tun") /\ StopSteps("tun")[2] = Step("broadcast", "tun")
  /\ StopSteps("tun")[3] = Step("join", "recv") /\ StopSteps("tun")[4] = Step("join", "ka")
  /\ StopSteps("tun")[5] = Step("stopped", "tun")
  /\ StopSteps("relay") \in Seq(AnyStep) /\ Len(StopSteps("relay")) = 5
  /\ StopSteps("relay")[1] = Step("signal", "relay")
  /\ StopSteps("relay")[2] = Step("broadcast", "relay")
  /\ StopSteps("relay")[3] = Step("join", "rt") /\ StopSteps("relay")[4] = Step("stop", "tun")
  /\ StopSteps("relay")[5] = Step("stopped", "relay")
<1>1. StopSteps("tun") = <<Step("signal", "tun"), Step("broadcast", "tun")>>
        \o <<Step("join", "recv"), Step("join", "ka"), Step("stopped", "tun")>>
  BY DEF StopSteps, Signal
<1>2. StopSteps("relay") = <<Step("signal", "relay"), Step("broadcast", "relay")>>
        \o <<Step("join", "rt"), Step("stop", "tun"), Step("stopped", "relay")>>
  BY DEF StopSteps, Signal
<1>3. /\ Step("signal", "tun") \in AnyStep /\ Step("broadcast", "tun") \in AnyStep
      /\ Step("join", "recv") \in AnyStep /\ Step("join", "ka") \in AnyStep
      /\ Step("stopped", "tun") \in AnyStep
  BY StepsAreSteps DEF Ops, Args
<1>4. /\ Step("signal", "relay") \in AnyStep /\ Step("broadcast", "relay") \in AnyStep
      /\ Step("join", "rt") \in AnyStep /\ Step("stop", "tun") \in AnyStep
      /\ Step("stopped", "relay") \in AnyStep
  BY StepsAreSteps DEF Ops, Args
<1>5. /\ StopSteps("tun") \in Seq(AnyStep) /\ Len(StopSteps("tun")) = 5
      /\ StopSteps("tun")[1] = Step("signal", "tun") /\ StopSteps("tun")[2] = Step("broadcast", "tun")
      /\ StopSteps("tun")[3] = Step("join", "recv") /\ StopSteps("tun")[4] = Step("join", "ka")
      /\ StopSteps("tun")[5] = Step("stopped", "tun")
  <2> DEFINE s == <<Step("signal", "tun"), Step("broadcast", "tun")>>
                    \o <<Step("join", "recv"), Step("join", "ka"), Step("stopped", "tun")>>
  <2>1. /\ s \in Seq(AnyStep) /\ Len(s) = 5
        /\ s[1] = Step("signal", "tun") /\ s[2] = Step("broadcast", "tun")
        /\ s[3] = Step("join", "recv") /\ s[4] = Step("join", "ka") /\ s[5] = Step("stopped", "tun")
    BY SMT, <1>3, TwoThree
  <2>2. StopSteps("tun") = s
    BY <1>1
  <2> HIDE DEF s
  <2> QED
    BY <2>1, <2>2
<1>6. /\ StopSteps("relay") \in Seq(AnyStep) /\ Len(StopSteps("relay")) = 5
      /\ StopSteps("relay")[1] = Step("signal", "relay")
      /\ StopSteps("relay")[2] = Step("broadcast", "relay")
      /\ StopSteps("relay")[3] = Step("join", "rt") /\ StopSteps("relay")[4] = Step("stop", "tun")
      /\ StopSteps("relay")[5] = Step("stopped", "relay")
  <2> DEFINE s == <<Step("signal", "relay"), Step("broadcast", "relay")>>
                    \o <<Step("join", "rt"), Step("stop", "tun"), Step("stopped", "relay")>>
  <2>1. /\ s \in Seq(AnyStep) /\ Len(s) = 5
        /\ s[1] = Step("signal", "relay") /\ s[2] = Step("broadcast", "relay")
        /\ s[3] = Step("join", "rt") /\ s[4] = Step("stop", "tun") /\ s[5] = Step("stopped", "relay")
    BY SMT, <1>4, TwoThree
  <2>2. StopSteps("relay") = s
    BY <1>2
  <2> HIDE DEF s
  <2> QED
    BY <2>1, <2>2
<1> QED
  BY <1>5, <1>6

\* What is left to do when a thread cannot be created.
LEMMA UndoIs ==
  /\ Undo("recv") = <<>> /\ Undo("rt") = <<Step("stop", "tun")>>
  /\ Undo("ka") \in Seq(AnyStep) /\ Len(Undo("ka")) = 3
  /\ Undo("ka")[1] = Step("signal", "tun") /\ Undo("ka")[2] = Step("broadcast", "tun")
  /\ Undo("ka")[3] = Step("join", "recv")
<1>1. Undo("ka") = <<Step("signal", "tun"), Step("broadcast", "tun")>> \o <<Step("join", "recv")>>
  BY DEF Undo, Signal
<1>2. Undo("recv") = <<>> /\ Undo("rt") = <<Step("stop", "tun")>>
  BY DEF Undo
<1>3. /\ Step("signal", "tun") \in AnyStep /\ Step("broadcast", "tun") \in AnyStep
      /\ Step("join", "recv") \in AnyStep
  BY StepsAreSteps DEF Ops, Args
<1> DEFINE s == <<Step("signal", "tun"), Step("broadcast", "tun")>> \o <<Step("join", "recv")>>
<1>4. /\ s \in Seq(AnyStep) /\ Len(s) = 3
      /\ s[1] = Step("signal", "tun") /\ s[2] = Step("broadcast", "tun")
      /\ s[3] = Step("join", "recv")
  BY SMT, <1>3, TwoOne
<1>5. Undo("ka") = s
  BY <1>1
<1> HIDE DEF s
<1> QED
  BY <1>2, <1>4, <1>5

\* wg_relay_create has five steps; a step that fails releases what the steps before
\* it acquired, and the last one completes the relay.
LEMMA WgRelayCreateIs ==
  /\ WgRelayCreate \in Seq(AnyStep) /\ Len(WgRelayCreate) = 5
  /\ \A i \in 1 .. 5 : /\ WgRelayCreate[i].op = "get" /\ WgRelayCreate[i].unwind \subseteq Relay
                       /\ WgRelayCreate[i].get \subseteq Relay
  /\ WgRelayCreate[1].unwind = {}
  /\ \A i \in 1 .. 4 :
       WgRelayCreate[i].unwind \cup WgRelayCreate[i].get = WgRelayCreate[i + 1].unwind
  /\ WgRelayCreate[5].unwind \cup WgRelayCreate[5].get = Relay
<1> DEFINE u3 == {"local_socket", "relay"}
           u5 == {"local_socket", "relay", "relay_stop_mutex"}
           g5 == {"relay_stop_mutex", "relay_stop_cond"}
           s1 == Get({"relay"}, {})
           s2 == Get({"local_socket"}, {"relay"})
           s3 == Get({}, u3)
           s4 == Get({"relay_stop_mutex"}, u3)
           s5 == Get(g5, u5)
           c == <<s1, s2, s3>> \o <<s4, s5>>
<1>1. /\ StopMutex("relay") = "relay_stop_mutex" /\ StopCond("relay") = g5
      /\ u3 \cup {"relay_stop_mutex"} = u5
  BY DEF StopMutex, StopCond
<1>2. WgRelayCreate = c
  <2>1. WgRelayCreate = <<s1, s2, s3>>
          \o <<Get({"relay_stop_mutex"}, u3), Get(g5, u3 \cup {"relay_stop_mutex"})>>
    BY <1>1 DEF WgRelayCreate, StopCondInit
  <2> QED
    BY <1>1, <2>1
<1>3. Relay = u3 \cup g5
  BY <1>1 DEF Relay
<1>4. /\ s1 \in AnyStep /\ s2 \in AnyStep /\ s3 \in AnyStep /\ s4 \in AnyStep
      /\ s5 \in AnyStep
  BY <1>3, StepsAreSteps
<1>5. \A r, u : Get(r, u).op = "get" /\ Get(r, u).get = r /\ Get(r, u).unwind = u
  BY DEF Get
<1>6. /\ s1.op = "get" /\ s2.op = "get" /\ s3.op = "get" /\ s4.op = "get" /\ s5.op = "get"
  BY <1>5
<1>7. /\ s1.unwind = {} /\ s1.unwind \cup s1.get = s2.unwind
      /\ s2.unwind \cup s2.get = s3.unwind /\ s3.unwind \cup s3.get = s4.unwind
      /\ s4.unwind \cup s4.get = s5.unwind /\ s5.unwind \cup s5.get = Relay
  BY SMT, <1>3, <1>5
<1> HIDE DEF s1, s2, s3, s4, s5
<1>8. /\ s1.unwind \subseteq Relay /\ s2.unwind \subseteq Relay /\ s3.unwind \subseteq Relay
      /\ s4.unwind \subseteq Relay /\ s5.unwind \subseteq Relay
      /\ s1.get \subseteq Relay /\ s2.get \subseteq Relay /\ s3.get \subseteq Relay
      /\ s4.get \subseteq Relay /\ s5.get \subseteq Relay
  BY <1>7
<1>9. /\ c \in Seq(AnyStep) /\ Len(c) = 5
      /\ c[1] = s1 /\ c[2] = s2 /\ c[3] = s3 /\ c[4] = s4 /\ c[5] = s5
  BY SMT, <1>4, ThreeTwo
<1> HIDE DEF c
<1>10. ASSUME NEW i \in 1 .. 5
       PROVE  c[i].op = "get" /\ c[i].unwind \subseteq Relay /\ c[i].get \subseteq Relay
  <2>1. i = 1 \/ i = 2 \/ i = 3 \/ i = 4 \/ i = 5
    BY SMT
  <2> QED
    BY <1>6, <1>8, <1>9, <2>1
<1>11. ASSUME NEW i \in 1 .. 4
       PROVE  c[i].unwind \cup c[i].get = c[i + 1].unwind
  <2>1. /\ i = 1 \/ i = 2 \/ i = 3 \/ i = 4
        /\ 1 + 1 = 2 /\ 2 + 1 = 3 /\ 3 + 1 = 4 /\ 4 + 1 = 5
    BY SMT
  <2> QED
    BY <1>7, <1>9, <2>1
<1> QED
  BY <1>2, <1>7, <1>9, <1>10, <1>11

\* wg_init has seven steps; a step that fails releases what the steps before it
\* acquired, and the last one completes the tunnel.
LEMMA WgInitIs ==
  /\ WgInit \in Seq(AnyStep) /\ Len(WgInit) = 7
  /\ \A i \in 1 .. 7 : WgInit[i].op = "get" /\ WgInit[i].unwind \subseteq Tunnel
  /\ WgInit[1].unwind = {}
  /\ \A i \in 1 .. 6 : WgInit[i].unwind \cup WgInit[i].get = WgInit[i + 1].unwind
  /\ WgInit[7].unwind \cup WgInit[7].get = Tunnel
<1> DEFINE u4 == {"send_mutex", "tun"}
           u5 == {"send_mutex", "tun", "tun_stop_mutex"}
           u6 == {"tun_stop_mutex", "tun_stop_cond", "send_mutex", "tun"}
           u7 == {"tun_stop_mutex", "tun_stop_cond", "send_mutex", "tun", "slots"}
           g5 == {"tun_stop_mutex", "tun_stop_cond"}
           s1 == Get({"tun"}, {})
           s2 == Get({}, {"tun"})
           s3 == Get({"send_mutex"}, {"tun"})
           s4 == Get({"tun_stop_mutex"}, u4)
           s5 == Get(g5, u5)
           s6 == Get({"slots"}, u6)
           s7 == Get({"free_mutex"}, u7)
           a == <<s1, s2, s3>> \o <<s4, s5>>
           b == <<s6, s7>>
           c == a \o b
<1>1. /\ StopMutex("tun") = "tun_stop_mutex" /\ StopCond("tun") = g5
      /\ u4 \cup {"tun_stop_mutex"} = u5 /\ g5 \cup u4 = u6 /\ u6 \cup {"slots"} = u7
  BY DEF StopMutex, StopCond
<1>2. StopCondInit("tun", u4) = <<s4, s5>>
  <2>1. StopCondInit("tun", u4)
          = <<Get({"tun_stop_mutex"}, u4), Get(g5, u4 \cup {"tun_stop_mutex"})>>
    BY <1>1 DEF StopCondInit
  <2> QED
    BY <1>1, <2>1
<1>3. WgInit = c
  <2>1. WgInit = (<<s1, s2, s3>> \o StopCondInit("tun", u4))
          \o <<Get({"slots"}, g5 \cup u4), Get({"free_mutex"}, (g5 \cup u4) \cup {"slots"})>>
    BY <1>1 DEF WgInit
  <2> QED
    BY <1>1, <1>2, <2>1
<1>4. Tunnel = u7 \cup {"free_mutex"}
  BY <1>1 DEF Tunnel
<1>5. /\ s1 \in AnyStep /\ s2 \in AnyStep /\ s3 \in AnyStep /\ s4 \in AnyStep
      /\ s5 \in AnyStep /\ s6 \in AnyStep /\ s7 \in AnyStep
  BY <1>4, StepsAreSteps
<1>6. \A r, u : Get(r, u).op = "get" /\ Get(r, u).get = r /\ Get(r, u).unwind = u
  BY DEF Get
<1>7. /\ s1.op = "get" /\ s2.op = "get" /\ s3.op = "get" /\ s4.op = "get"
      /\ s5.op = "get" /\ s6.op = "get" /\ s7.op = "get"
  BY <1>6
<1>8. /\ s1.unwind = {} /\ s1.unwind \cup s1.get = s2.unwind
      /\ s2.unwind \cup s2.get = s3.unwind /\ s3.unwind \cup s3.get = s4.unwind
      /\ s4.unwind \cup s4.get = s5.unwind /\ s5.unwind \cup s5.get = s6.unwind
      /\ s6.unwind \cup s6.get = s7.unwind /\ s7.unwind \cup s7.get = Tunnel
  BY SMT, <1>4, <1>6
<1> HIDE DEF s1, s2, s3, s4, s5, s6, s7
<1>9. /\ s1.unwind \subseteq Tunnel /\ s2.unwind \subseteq Tunnel /\ s3.unwind \subseteq Tunnel
      /\ s4.unwind \subseteq Tunnel /\ s5.unwind \subseteq Tunnel /\ s6.unwind \subseteq Tunnel
      /\ s7.unwind \subseteq Tunnel
  BY <1>8
<1>10. /\ a \in Seq(AnyStep) /\ Len(a) = 5
       /\ a[1] = s1 /\ a[2] = s2 /\ a[3] = s3 /\ a[4] = s4 /\ a[5] = s5
  BY SMT, <1>5, ThreeTwo
<1>11. b \in Seq(AnyStep) /\ Len(b) = 2 /\ b[1] = s6 /\ b[2] = s7
  BY <1>5, Tuples
<1> HIDE DEF a, b
<1>12. /\ c \in Seq(AnyStep) /\ Len(c) = Len(a) + Len(b)
       /\ \A i \in 1 .. Len(a) + Len(b) : c[i] = IF i <= Len(a) THEN a[i] ELSE b[i - Len(a)]
  BY <1>10, <1>11, ConcatProperties
<1> HIDE DEF c
<1>13. Len(a) = 5 /\ Len(b) = 2
  BY <1>10, <1>11
<1>14. Len(c) = 7 /\ \A i \in 1 .. 7 : c[i] = IF i <= 5 THEN a[i] ELSE b[i - 5]
  BY SMT, <1>12, <1>13
<1>15. /\ c[1] = s1 /\ c[2] = s2 /\ c[3] = s3 /\ c[4] = s4 /\ c[5] = s5
       /\ c[6] = s6 /\ c[7] = s7
  BY SMT, <1>10, <1>11, <1>14
<1>16. ASSUME NEW i \in 1 .. 7
       PROVE  c[i].op = "get" /\ c[i].unwind \subseteq Tunnel
  <2>1. i = 1 \/ i = 2 \/ i = 3 \/ i = 4 \/ i = 5 \/ i = 6 \/ i = 7
    BY SMT
  <2> QED
    BY <1>7, <1>9, <1>15, <2>1
<1>17. ASSUME NEW i \in 1 .. 6
       PROVE  c[i].unwind \cup c[i].get = c[i + 1].unwind
  <2>1. /\ i = 1 \/ i = 2 \/ i = 3 \/ i = 4 \/ i = 5 \/ i = 6
        /\ 1 + 1 = 2 /\ 2 + 1 = 3 /\ 3 + 1 = 4 /\ 4 + 1 = 5 /\ 5 + 1 = 6 /\ 6 + 1 = 7
    BY SMT
  <2> QED
    BY <1>8, <1>15, <2>1
<1> QED
  BY <1>3, <1>8, <1>12, <1>14, <1>15, <1>16, <1>17

\* A single step before others.
LEMMA OneThen ==
  ASSUME NEW x \in AnyStep, NEW k \in Seq(AnyStep)
  PROVE  <<x>> \o k # <<>> /\ Head(<<x>> \o k) = x /\ Tail(<<x>> \o k) = k
<1>1. <<x>> \in Seq(AnyStep) /\ <<x>> # <<>> /\ Head(<<x>>) = x /\ Tail(<<x>>) = <<>>
  BY SMT
<1>2. <<>> \o k = k
  BY ConcatEmptySeq
<1> QED
  BY ZenonT(40), <1>1, <1>2, HeadTailThen

\* What is left of a call after wg_stop and after wg_relay_stop.
LEMMA AfterStops ==
  /\ AfterStop \subseteq Seq(AnyStep) /\ AfterRelayStop \subseteq Seq(AnyStep)
  /\ <<Step("stopped", "relay")>> \o <<>> = <<Step("stopped", "relay")>>
  /\ <<Step("stopped", "relay")>> \o <<Step("free", "relay")>>
       = <<Step("stopped", "relay"), Step("free", "relay")>>
  /\ <<Step("stop", "tun")>> \o <<>> = <<Step("stop", "tun")>>
  /\ <<Step("stop", "relay")>> \o <<>> = <<Step("stop", "relay")>>
  /\ <<Step("stop", "tun")>> \o <<Step("free", "tun")>> = WgClose
  /\ <<Step("stop", "relay")>> \o <<Step("free", "relay")>> = WgRelayDestroy
<1>1. /\ Step("free", "tun") \in AnyStep /\ Step("free", "relay") \in AnyStep
      /\ Step("stopped", "relay") \in AnyStep
      /\ Step("stop", "tun") \in AnyStep /\ Step("stop", "relay") \in AnyStep
  BY StepsAreSteps DEF Ops, Args
<1>2. \A x \in AnyStep, y \in AnyStep : /\ <<x>> \in Seq(AnyStep) /\ <<x, y>> \in Seq(AnyStep)
                                        /\ <<>> \in Seq(AnyStep)
  BY Tuples
<1>3. AfterStop \subseteq Seq(AnyStep)
  BY <1>1, <1>2 DEF AfterStop
<1>4. AfterRelayStop \subseteq Seq(AnyStep)
  BY <1>1, <1>2 DEF AfterRelayStop
<1>5. ASSUME NEW x \in AnyStep
      PROVE  <<x>> \o <<>> = <<x>>
  BY <1>2, ConcatEmptySeq
<1>6. ASSUME NEW x \in AnyStep, NEW y \in AnyStep
      PROVE  <<x>> \o <<y>> = <<x, y>>
  <2> DEFINE c == <<x>> \o <<y>>
  <2> DEFINE a == <<x>>
             b == <<y>>
  <2>1. /\ a \in Seq(AnyStep) /\ Len(a) = 1 /\ a[1] = x
        /\ b \in Seq(AnyStep) /\ Len(b) = 1 /\ b[1] = y
    BY Tuples
  <2>2. c = a \o b
    OBVIOUS
  <2> HIDE DEF a, b, c
  <2>3. /\ c \in Seq(AnyStep) /\ Len(c) = Len(a) + Len(b)
        /\ \A i \in 1 .. Len(a) + Len(b) : c[i] = IF i <= Len(a) THEN a[i] ELSE b[i - Len(a)]
    BY <2>1, <2>2, ConcatProperties
  <2>4. Len(a) = 1 /\ Len(b) = 1
    BY <2>1
  <2>5. Len(c) = 2 /\ \A i \in 1 .. 2 : c[i] = IF i <= 1 THEN a[i] ELSE b[i - 1]
    BY SMT, <2>3, <2>4
  <2>6. c[1] = x /\ c[2] = y
    BY SMT, <2>1, <2>5
  <2>7. c = <<c[1], c[2]>>
    <3>1. c \in Seq(AnyStep) /\ Len(c) = 2
      BY <2>3, <2>5
    <3> QED
      BY SMT, <3>1
  <2> QED
    BY <2>6, <2>7 DEF c
<1> QED
  BY <1>1, <1>3, <1>4, <1>5, <1>6 DEF WgClose, WgRelayDestroy

-----------------------------------------------------------------------------
(* The threads. *)

ThreadStep == RecvThread \/ KaThread \/ WaitTimeout \/ RelayThread

\* A step of a thread keeps the types, and ends no thread's existence: that is the
\* join's.
LEMMA ThreadsKeep ==
  ASSUME TypeOK, ThreadStep
  PROVE  /\ TypeOK'
         /\ UNCHANGED <<held, todo, pred, running, direct, badfree, cb>>
         /\ \A t \in Threads : Exists(t)' <=> Exists(t)
<1> DEFINE Labels == {"none", "top", "body", "sleep", "waiting", "woken", "flag", "send", "exited"}
<1>1. /\ pc \in [Threads -> Labels]
      /\ mutex = [c \in Conds |-> IF c = "tun" /\ pc["ka"] = "sleep" THEN "ka" ELSE "free"]
      /\ mutex["tun"] = IF pc["ka"] = "sleep" THEN "ka" ELSE "free"
  BY DEF TypeOK, Conds
<1>2. \A t \in Threads, l \in Labels : [pc EXCEPT ![t] = l] \in [Threads -> Labels]
  BY <1>1
<1>3. ASSUME NEW t \in Threads, Top(t)
      PROVE  /\ UNCHANGED <<held, todo, pred, running, direct, badfree, cb>>
             /\ TypeOK' /\ \A s \in Threads : Exists(s)' <=> Exists(s)
  <2>1. pc' \in [Threads -> Labels] /\ pc'[t] \in {"exited", "body"} /\ pc[t] = "top"
        /\ \A s \in Threads : s # t => pc'[s] = pc[s]
    BY <1>1, <1>2, <1>3 DEF Top, Goto
  <2>2. pc'["ka"] = "sleep" <=> pc["ka"] = "sleep"
    BY <2>1 DEF Threads
  <2>3. /\ UNCHANGED <<held, todo, pred, mutex, running, valid, cb, client, has_client, direct, dangling,
                        badfree>>
    BY <1>3 DEF Top
  <2>4. TypeOK'
    BY <2>1, <2>2, <2>3, <1>1 DEF TypeOK
  <2> QED
    BY <2>1, <2>3, <2>4 DEF Exists
<1>4. ASSUME RecvBody
      PROVE  /\ UNCHANGED <<held, todo, pred, running, direct, badfree, cb>>
             /\ TypeOK' /\ \A s \in Threads : Exists(s)' <=> Exists(s)
  <2>1. pc' \in [Threads -> Labels] /\ pc'["recv"] = "top" /\ pc["recv"] = "body"
        /\ \A s \in Threads : s # "recv" => pc'[s] = pc[s]
    BY <1>1, <1>2, <1>4 DEF RecvBody, Goto, Threads
  <2>2. pc'["ka"] = pc["ka"]
    BY <2>1 DEF Threads
  <2>3. UNCHANGED <<held, todo, pred, mutex, running, valid, cb, client, has_client, direct, badfree>>
    BY <1>4 DEF RecvBody
  <2>4. dangling' \in BOOLEAN
    BY <1>4 DEF RecvBody, TypeOK
  <2>5. TypeOK'
    BY <2>1, <2>2, <2>3, <2>4, <1>1 DEF TypeOK
  <2> QED
    BY <2>1, <2>3, <2>5 DEF Exists
<1>5. ASSUME WaitTest \/ WaitSleep \/ WaitTimeout
      PROVE  /\ UNCHANGED <<held, todo, pred, running, direct, badfree, cb>>
             /\ TypeOK' /\ \A s \in Threads : Exists(s)' <=> Exists(s)
  <2>1. /\ pc' \in [Threads -> Labels] /\ pc'["ka"] # "none" /\ pc["ka"] # "none"
        /\ \A s \in Threads : s # "ka" => pc'[s] = pc[s]
    BY SMT, <1>1, <1>2, <1>5 DEF WaitTest, WaitSleep, WaitTimeout, Goto, Threads
  <2>2. mutex' = [c \in Conds |-> IF c = "tun" /\ pc'["ka"] = "sleep" THEN "ka" ELSE "free"]
    <3>1. CASE WaitTest
      BY <3>1, <1>1 DEF WaitTest, Goto, Threads, Conds
    <3>2. CASE WaitSleep
      BY <3>2, <1>1 DEF WaitSleep, Goto, Threads, Conds
    <3>3. CASE WaitTimeout
      BY <3>3, <1>1 DEF WaitTimeout, Goto, Threads, Conds
    <3> QED
      BY <1>5, <3>1, <3>2, <3>3
  <2>3. UNCHANGED <<held, todo, pred, running, valid, cb, client, has_client, direct, dangling, badfree>>
    BY <1>5 DEF WaitTest, WaitSleep, WaitTimeout
  <2>4. TypeOK'
    BY <2>1, <2>2, <2>3 DEF TypeOK
  <2> QED
    BY <2>1, <2>3, <2>4 DEF Exists
<1>6. ASSUME RelayClient \/ RelayNext
      PROVE  /\ UNCHANGED <<held, todo, pred, running, direct, badfree, cb>>
             /\ TypeOK' /\ \A s \in Threads : Exists(s)' <=> Exists(s)
  <2>1. /\ pc' \in [Threads -> Labels] /\ pc'["rt"] # "none" /\ pc["rt"] # "none"
        /\ \A s \in Threads : s # "rt" => pc'[s] = pc[s]
    BY SMT, <1>1, <1>2, <1>6 DEF RelayClient, RelayNext, Goto, Threads
  <2>2. pc'["ka"] = pc["ka"]
    BY <2>1 DEF Threads
  <2>3. /\ UNCHANGED <<held, todo, pred, mutex, running, valid, cb, direct, dangling, badfree>>
        /\ client' \in Clients \cup {0} /\ has_client' \in BOOLEAN
    BY <1>6 DEF RelayClient, RelayNext, TypeOK
  <2>4. TypeOK'
    BY ZenonT(40), <2>1, <2>2, <2>3, <1>1 DEF TypeOK
  <2> QED
    BY <2>1, <2>3, <2>4 DEF Exists
<1> QED
  BY <1>3, <1>4, <1>5, <1>6 DEF ThreadStep, RecvThread, KaThread, RelayThread, Threads

\* What the flags and the existence of the threads say depends on nothing else.
LEMMA SameFlags ==
  ASSUME UNCHANGED <<held, running, direct>>, \A t \in Threads : Exists(t)' <=> Exists(t)
  PROVE  /\ Whole' <=> Whole
         /\ \A c \in Conds : AsFlagged(c)' <=> AsFlagged(c)
         /\ (Owned' <=> Owned) /\ (Settled' <=> Settled)
         /\ \A i \in Nat : Starting(i)' <=> Starting(i)
         /\ \A k : RelayDuringStop(k)' <=> RelayDuringStop(k)
<1>1. (Whole' <=> Whole) /\ (Owned' <=> Owned)
  BY DEF Whole, Owned
<1>2. ASSUME NEW c \in Conds
      PROVE  AsFlagged(c)' <=> AsFlagged(c)
  BY DEF AsFlagged
<1>3. "tun" \in Conds /\ "relay" \in Conds
      /\ "recv" \in Threads /\ "ka" \in Threads /\ "rt" \in Threads
  BY DEF Conds, Threads
<1>4. Settled' <=> Settled
  BY <1>1, <1>2, <1>3 DEF Settled
<1>5. ASSUME NEW i \in Nat
      PROVE  Starting(i)' <=> Starting(i)
  BY <1>2, <1>3 DEF Starting
<1>6. ASSUME NEW k
      PROVE  RelayDuringStop(k)' <=> RelayDuringStop(k)
  <2>1. CASE k = <<>>
    BY <2>1, <1>2, <1>3 DEF RelayDuringStop
  <2>2. CASE k # <<>> /\ k = <<Step("free", "tun")>>
    BY <2>2, <1>2, <1>3 DEF RelayDuringStop
  <2>3. CASE k # <<>> /\ k # <<Step("free", "tun")>>
    BY <2>3, <1>3 DEF RelayDuringStop
  <2> QED
    BY <2>1, <2>2, <2>3
<1> QED
  BY <1>1, <1>2, <1>4, <1>5, <1>6

\* What leaves the resources, the flags and the existence of the threads as they are
\* leaves the application's call where it is.
LEMMA SameCall ==
  ASSUME LifecycleInv, UNCHANGED <<held, todo, running, direct>>,
         \A t \in Threads : Exists(t)' <=> Exists(t)
  PROVE  CallAtStep'
<1>1. UNCHANGED <<held, todo, running, direct>> /\ \A t \in Threads : Exists(t)' <=> Exists(t)
  OBVIOUS
<1>2. "tun" \in Conds /\ "relay" \in Conds
      /\ "recv" \in Threads /\ "ka" \in Threads /\ "rt" \in Threads
  BY DEF Conds, Threads
<1>3. /\ Whole' <=> Whole
      /\ \A c \in Conds : AsFlagged(c)' <=> AsFlagged(c)
      /\ (Owned' <=> Owned) /\ (Settled' <=> Settled)
      /\ \A i \in Nat : Starting(i)' <=> Starting(i)
      /\ \A k : RelayDuringStop(k)' <=> RelayDuringStop(k)
  BY <1>1, SameFlags
<1>4. CASE todo = <<>> /\ Settled
  BY <1>4, <1>1, <1>3 DEF CallAtStep
<1>5. ASSUME NEW i \in 1 .. 7, InitAt(i)
      PROVE  InitAt(i)'
  BY <1>5, <1>1, <1>3 DEF InitAt
<1>6. ASSUME NEW i \in 1 .. 5, RelayCreateAt(i)
      PROVE  RelayCreateAt(i)'
  BY <1>6, <1>1, <1>2, <1>3 DEF RelayCreateAt
<1>7. ASSUME NEW i \in 1 .. 5, StartAt(i)
      PROVE  StartAt(i)'
  BY SMT, <1>7, <1>1, <1>2, <1>3 DEF StartAt
<1>8. ASSUME NEW i \in 1 .. 9, RelayStartAt(i)
      PROVE  RelayStartAt(i)'
  <2>1. i \in 3 .. 6 => i - 1 \in Nat
    BY SMT
  <2>2. i \in 3 .. 6 => Starting(i - 1)'
    BY <1>8, <2>1, <1>3 DEF RelayStartAt
  <2> QED
    BY <1>8, <2>2, <1>1, <1>2, <1>3 DEF RelayStartAt
<1>9. ASSUME NEW i \in 1 .. 3, UndoAt(i)
      PROVE  UndoAt(i)'
  BY <1>9, <1>1, <1>2, <1>3 DEF UndoAt
<1>10. ASSUME NEW k \in AfterStop, StopTun(k)
      PROVE  StopTun(k)'
  BY <1>10, <1>1, <1>2, <1>3 DEF StopTun
<1>11. ASSUME NEW k \in AfterStop, NEW i \in 1 .. 5, StopTunAt(i, k)
      PROVE  StopTunAt(i, k)'
  BY <1>11, <1>1, <1>2, <1>3 DEF StopTunAt
<1>12. ASSUME NEW k \in AfterRelayStop, StopRelay(k)
      PROVE  StopRelay(k)'
  BY <1>12, <1>1, <1>3 DEF StopRelay
<1>13. ASSUME NEW k \in AfterRelayStop, NEW i \in 1 .. 3, StopRelayAt(i, k)
       PROVE  StopRelayAt(i, k)'
  BY <1>13, <1>1, <1>2, <1>3 DEF StopRelayAt
<1>14. ASSUME NEW k \in AfterRelayStop, RelayStopped(k)
       PROVE  RelayStopped(k)'
  BY <1>14, <1>1, <1>2, <1>3 DEF RelayStopped
<1>15. (FreeTun => FreeTun') /\ (FreeRelay => FreeRelay')
  BY <1>1, <1>3 DEF FreeTun, FreeRelay
<1> QED
  BY <1>4, <1>5, <1>6, <1>7, <1>8, <1>9, <1>10, <1>11, <1>12, <1>13, <1>14, <1>15
  DEF LifecycleInv, CallAtStep

\* A step of a thread keeps the invariant.
LEMMA ThreadsInvStep ==
  ASSUME LifecycleInv, ThreadStep
  PROVE  LifecycleInv'
<1>1. /\ TypeOK' /\ UNCHANGED <<held, todo, running, direct, badfree, cb>>
      /\ \A t \in Threads : Exists(t)' <=> Exists(t)
  BY ThreadsKeep DEF LifecycleInv
<1>2. "recv" \in Threads
  BY DEF Threads
<1>3. CallAtStep'
  BY <1>1, SameCall
<1>4. ThreadsHaveState'
  <2>1. ~direct' => ~dangling'
    <3>1. CASE dangling' = dangling
      BY <3>1, <1>1 DEF LifecycleInv, ThreadsHaveState
    <3>2. CASE RecvBody
      <4>1. Exists("recv")
        BY <3>2 DEF RecvBody, Exists
      <4>2. ~direct => ~dangling /\ "relay" \in held
        BY <4>1 DEF LifecycleInv, ThreadsHaveState
      <4>3. dangling' = dangling \/ dangling' = (dangling \/ (cb /\ "relay" \notin held))
        BY <3>2 DEF RecvBody
      <4> QED
        BY <4>2, <4>3, <1>1
    <3>3. RecvBody \/ dangling' = dangling
      BY DEF ThreadStep, RecvThread, KaThread, RelayThread, Top, WaitTest, WaitSleep,
             WaitTimeout, RelayClient, RelayNext
    <3> QED
      BY <3>1, <3>2, <3>3
  <2> QED
    BY <2>1, <1>1, <1>2 DEF LifecycleInv, ThreadsHaveState
<1> QED
  BY <1>1, <1>3, <1>4 DEF LifecycleInv

-----------------------------------------------------------------------------
(* The application. *)

\* The next step of the call decides which action the application takes.
LEMMA ActionOf ==
  ASSUME AppStep
  PROVE  /\ todo # <<>>
         /\ Head(todo).op = "get" => Acquire
         /\ Head(todo).op = "free" => Free
         /\ Head(todo).op = "check" => StartCheck
         /\ Head(todo).op = "callback" => SetCallback
         /\ Head(todo).op = "reset" => Reset
         /\ Head(todo).op = "create" => Create
         /\ Head(todo).op = "signal" => SignalPred
         /\ Head(todo).op = "broadcast" => Broadcast
         /\ Head(todo).op = "join" => Join
         /\ Head(todo).op = "stop" => StopCheck
         /\ Head(todo).op \in {"running", "stopped"} => SetRunning
BY DEF AppStep, Acquire, Free, StartCheck, SetCallback, Reset, Create, SignalPred, Broadcast,
       Join, StopCheck, SetRunning, Doing

\* Threads keep what they use when nothing is released and no thread is created.
LEMMA StateKept ==
  ASSUME ThreadsHaveState, UNCHANGED <<direct, dangling>>, held \subseteq held',
         \A t \in Threads : Exists(t)' => Exists(t)
  PROVE  ThreadsHaveState'
<1>1. "recv" \in Threads
  BY DEF Threads
<1> QED
  BY <1>1 DEF ThreadsHaveState

\* The actions that release nothing and create no thread.
LEMMA QuietStep ==
  ASSUME LifecycleInv,
         StartCheck \/ SetCallback \/ Reset \/ SignalPred \/ Broadcast \/ StopCheck \/ SetRunning
           \/ Join,
         Head(todo).op = "join" => Arg \in Threads
  PROVE  /\ TypeOK' /\ ~badfree' /\ ThreadsHaveState' /\ UNCHANGED <<held, direct>>
         /\ Head(todo).op \notin {"running", "stopped"} => UNCHANGED running
         /\ Head(todo).op # "join" => \A t \in Threads : Exists(t)' <=> Exists(t)
<1> DEFINE Labels == {"none", "top", "body", "sleep", "waiting", "woken", "flag", "send", "exited"}
<1>1. /\ pc \in [Threads -> Labels] /\ running \in [Conds -> BOOLEAN] /\ pred \in [Conds -> BOOLEAN]
      /\ mutex = [c \in Conds |-> IF c = "tun" /\ pc["ka"] = "sleep" THEN "ka" ELSE "free"]
  BY DEF LifecycleInv, TypeOK
<1>2. UNCHANGED <<held, mutex, valid, client, has_client, direct, dangling, badfree>>
  BY DEF StartCheck, SetCallback, Reset, SignalPred, Broadcast, StopCheck, SetRunning, Join
<1>3. /\ ~SetRunning => UNCHANGED running
      /\ ~Join /\ ~Broadcast => UNCHANGED pc
  BY DEF StartCheck, SetCallback, Reset, SignalPred, Broadcast, StopCheck, SetRunning, Join
<1>4. running' \in [Conds -> BOOLEAN]
  BY <1>1, <1>3 DEF SetRunning
<1>5. pred' \in [Conds -> BOOLEAN]
  BY <1>1 DEF StartCheck, SetCallback, Reset, SignalPred, Broadcast, StopCheck, SetRunning, Join
<1>6. cb' \in BOOLEAN
  BY DEF StartCheck, SetCallback, Reset, SignalPred, Broadcast, StopCheck, SetRunning, Join,
         LifecycleInv, TypeOK
<1>7. /\ pc' \in [Threads -> Labels] /\ (pc'["ka"] = "sleep" <=> pc["ka"] = "sleep")
      /\ ~Join => \A t \in Threads : Exists(t)' <=> Exists(t)
      /\ \A t \in Threads : Exists(t)' => Exists(t)
  <2>1. CASE Join /\ Arg \in Threads
    <3>1. /\ pc' = [pc EXCEPT ![Arg] = "none"] /\ pc[Arg] = "exited"
      BY <2>1 DEF Join
    <3>2. pc' \in [Threads -> Labels] /\ \A t \in Threads : pc'[t] = IF t = Arg THEN "none" ELSE pc[t]
      BY <3>1, <1>1
    <3> QED
      BY <2>1, <3>1, <3>2 DEF Exists, Threads
  <2>2. CASE Broadcast
    <3>1. \A t \in Threads : /\ pc'[t] \in Labels /\ (pc'[t] = pc[t] \/ (pc[t] = "waiting" /\ pc'[t] = "woken"))
      BY <2>2, <1>1 DEF Broadcast
    <3>2. pc' \in [Threads -> Labels]
      BY <2>2, <3>1 DEF Broadcast
    <3> QED
      BY <3>1, <3>2 DEF Exists, Threads
  <2>3. CASE ~Join /\ ~Broadcast
    BY <2>3, <1>1, <1>3 DEF Exists
  <2>4. Join => Arg \in Threads
    BY DEF Join, Doing
  <2> QED
    BY <2>1, <2>2, <2>3, <2>4
<1>8. TypeOK'
  BY <1>1, <1>2, <1>4, <1>5, <1>6, <1>7 DEF LifecycleInv, TypeOK
<1>9. ThreadsHaveState'
  BY <1>2, <1>7, StateKept DEF LifecycleInv
<1>10. /\ Head(todo).op \notin {"running", "stopped"} => ~SetRunning
       /\ Head(todo).op # "join" => ~Join
  BY DEF SetRunning, Join, Doing
<1> QED
  BY <1>2, <1>3, <1>7, <1>8, <1>9, <1>10 DEF LifecycleInv

\* running is set at the end of a start and reset at the end of a stop.
LEMMA RunningStep ==
  ASSUME LifecycleInv, SetRunning, Arg \in Conds
  PROVE  /\ todo' = Rest
         /\ running'[Arg] <=> Head(todo).op = "running"
         /\ \A c \in Conds \ {Arg} : running'[c] <=> running[c]
<1>1. running \in [Conds -> BOOLEAN]
  BY DEF LifecycleInv, TypeOK
<1> QED
  BY <1>1 DEF SetRunning

\* The resources of the tunnel and of the relay are different ones.
LEMMA Disjoint ==
  Tunnel \cap Relay = {} /\ "socket" \notin Tunnel \cup Relay /\ "tun" \in Tunnel /\ "relay" \in Relay
BY DEF Tunnel, Relay, StopCond, StopMutex

\* An acquisition keeps the types, whether it succeeds or not.
LEMMA AcquireTypes ==
  ASSUME TypeOK, Acquire, Head(todo).get \subseteq Tunnel \cup Relay
  PROVE  TypeOK' /\ UNCHANGED <<pc, running, direct, dangling>>
<1>1. held' \subseteq Tunnel \cup Relay \cup {"socket"} /\ badfree' \in BOOLEAN
  BY DEF TypeOK, Acquire
<1>2. UNCHANGED <<pc, pred, mutex, running, valid, cb, client, has_client, direct, dangling>>
  BY DEF Acquire
<1> QED
  BY <1>1, <1>2 DEF TypeOK

\* wg_init, whichever of its steps fails.
LEMMA InitStep ==
  ASSUME LifecycleInv, NEW i \in 1 .. 7, InitAt(i), AppStep
  PROVE  LifecycleInv'
<1> DEFINE u == WgInit[i].unwind
           g == WgInit[i].get
<1>1. /\ todo # <<>> /\ Head(todo) = WgInit[i] /\ Tail(todo) = From(WgInit, i + 1)
      /\ WgInit[i].op = "get" /\ u \subseteq Tunnel
  BY WgInitIs, FromStep DEF InitAt
<1>2. Acquire
  BY <1>1, ActionOf
<1>3. /\ i < 7 => i + 1 \in 1 .. 7 /\ u \cup g = WgInit[i + 1].unwind
      /\ i = 7 => u \cup g = Tunnel /\ From(WgInit, i + 1) = <<>>
  <2>1. i = 7 => From(WgInit, i + 1) = <<>>
    BY WgInitIs, FromEnds
  <2>2. i < 7 => i \in 1 .. 6 /\ i + 1 \in 1 .. 7
    BY SMT
  <2> QED
    BY <2>1, <2>2, WgInitIs
<1>4. u \cup g \subseteq Tunnel
  <2>1. i < 7 \/ i = 7
    BY SMT
  <2> QED
    BY <2>1, <1>3, WgInitIs
<1>5. held = u /\ \A c \in Conds : ~running[c] /\ AsFlagged(c)
  BY DEF InitAt
<1>6. TypeOK' /\ UNCHANGED <<pc, running, direct, dangling>>
  BY <1>1, <1>2, <1>4, AcquireTypes DEF LifecycleInv
<1>7. \A t \in Threads : ~Exists(t)
  BY <1>5 DEF AsFlagged, CondOf, Conds, Threads
<1>8. \A t \in Threads : ~Exists(t)'
  BY <1>6, <1>7 DEF Exists
<1>9. \A c \in Conds : ~running'[c] /\ AsFlagged(c)'
  BY <1>5, <1>6, <1>7, <1>8 DEF AsFlagged
<1>10. "tun" \in Conds /\ "relay" \in Conds /\ "recv" \in Threads
  BY DEF Conds, Threads
<1>11. ThreadsHaveState'
  BY <1>6, <1>8, <1>10 DEF LifecycleInv, ThreadsHaveState
<1>12. ~badfree' /\ CallAtStep'
  <2>1. CASE held' = held \cup Head(todo).get /\ todo' = Rest /\ UNCHANGED badfree
    <3>1. held' = u \cup g /\ todo' = From(WgInit, i + 1)
      BY <2>1, <1>1, <1>5 DEF Rest
    <3>2. CASE i < 7
      <4>1. InitAt(i + 1)'
        BY <3>1, <3>2, <1>3, <1>9 DEF InitAt
      <4> QED
        BY <2>1, <3>2, <4>1, <1>3 DEF CallAtStep, LifecycleInv
    <3>3. CASE i = 7
      <4>1. todo' = <<>> /\ held' = Tunnel
        BY <3>1, <3>3, <1>3
      <4>2. Whole' /\ Owned'
        BY <4>1, <1>9, <1>10, Disjoint DEF Whole, Owned
      <4> QED
        BY <2>1, <4>1, <4>2, <1>9, <1>10 DEF CallAtStep, Settled, LifecycleInv
    <3> QED
      BY SMT, <3>2, <3>3
  <2>2. CASE /\ held' = held \ Head(todo).unwind
             /\ badfree' = (badfree \/ ~(Head(todo).unwind \subseteq held)) /\ todo' = <<>>
    <3>1. held' = {} /\ ~badfree'
      BY <2>2, <1>1, <1>5 DEF LifecycleInv
    <3>2. Whole' /\ Owned'
      BY <3>1, <1>9, <1>10 DEF Whole, Owned
    <3> QED
      BY <2>2, <3>1, <3>2, <1>9, <1>10 DEF CallAtStep, Settled
  <2> QED
    BY <1>2, <2>1, <2>2 DEF Acquire
<1> QED
  BY <1>6, <1>11, <1>12 DEF LifecycleInv

\* wg_relay_create, whichever of its steps fails.
LEMMA RelayCreateStep ==
  ASSUME LifecycleInv, NEW i \in 1 .. 5, RelayCreateAt(i), AppStep
  PROVE  LifecycleInv'
<1> DEFINE u == WgRelayCreate[i].unwind
           g == WgRelayCreate[i].get
<1>1. /\ todo # <<>> /\ Head(todo) = WgRelayCreate[i] /\ Tail(todo) = From(WgRelayCreate, i + 1)
      /\ WgRelayCreate[i].op = "get" /\ u \subseteq Relay /\ g \subseteq Relay
  BY WgRelayCreateIs, FromStep DEF RelayCreateAt
<1>2. Acquire
  BY <1>1, ActionOf
<1>3. /\ i < 5 => i + 1 \in 1 .. 5 /\ u \cup g = WgRelayCreate[i + 1].unwind
      /\ i = 5 => u \cup g = Relay /\ From(WgRelayCreate, i + 1) = <<>>
  <2>1. i = 5 => From(WgRelayCreate, i + 1) = <<>>
    BY WgRelayCreateIs, FromEnds
  <2>2. i < 5 => i \in 1 .. 4 /\ i + 1 \in 1 .. 5
    BY SMT
  <2> QED
    BY <2>1, <2>2, WgRelayCreateIs
<1>4. /\ Tunnel \subseteq held /\ held \cap Relay = u
      /\ ~running["relay"] /\ AsFlagged("tun") /\ AsFlagged("relay") /\ Owned
  BY DEF RelayCreateAt
<1>5. TypeOK' /\ UNCHANGED <<pc, running, direct, dangling>>
  BY <1>1, <1>2, AcquireTypes DEF LifecycleInv
<1>6. \A t \in Threads : Exists(t)' <=> Exists(t)
  BY <1>5 DEF Exists
<1>7. ~running'["relay"] /\ AsFlagged("tun")' /\ AsFlagged("relay")' /\ Owned'
  BY <1>4, <1>5, <1>6 DEF AsFlagged, Owned
<1>8. "rt" \in Threads /\ "recv" \in Threads /\ CondOf("rt") = "relay" /\ CondOf("recv") = "tun"
  BY DEF Threads, CondOf
<1>9. ~Exists("rt") /\ (~direct => ~Exists("recv"))
  BY <1>4, <1>8 DEF AsFlagged, Owned
<1>10. Tunnel \subseteq held'
  BY <1>1, <1>2, <1>4, Disjoint DEF Acquire
<1>11. ThreadsHaveState'
  BY <1>5, <1>6, <1>8, <1>9, <1>10 DEF LifecycleInv, ThreadsHaveState
<1>12. ~badfree' /\ CallAtStep'
  <2>1. CASE held' = held \cup Head(todo).get /\ todo' = Rest /\ UNCHANGED badfree
    <3>1. held' \cap Relay = u \cup g /\ todo' = From(WgRelayCreate, i + 1)
      BY <2>1, <1>1, <1>4 DEF Rest
    <3>2. CASE i < 5
      <4>1. RelayCreateAt(i + 1)'
        BY <3>1, <3>2, <1>3, <1>7, <1>10 DEF RelayCreateAt
      <4> QED
        BY <2>1, <3>2, <4>1, <1>3 DEF CallAtStep, LifecycleInv
    <3>3. CASE i = 5
      <4>1. todo' = <<>> /\ held' \cap Relay = Relay /\ held' \cap Tunnel = Tunnel
        BY <3>1, <3>3, <1>3, <1>10
      <4>2. Whole'
        BY <4>1, <1>7, <1>10 DEF Whole
      <4> QED
        BY <2>1, <4>1, <4>2, <1>7 DEF CallAtStep, Settled, LifecycleInv
    <3> QED
      BY SMT, <3>2, <3>3
  <2>2. CASE /\ held' = held \ Head(todo).unwind
             /\ badfree' = (badfree \/ ~(Head(todo).unwind \subseteq held)) /\ todo' = <<>>
    <3>1. held' \cap Relay = {} /\ held' \cap Tunnel = Tunnel /\ ~badfree'
      BY <2>2, <1>1, <1>4, <1>10 DEF LifecycleInv
    <3>2. Whole'
      BY <3>1, <1>7, <1>10 DEF Whole
    <3> QED
      BY <2>2, <3>1, <3>2, <1>7 DEF CallAtStep, Settled
  <2> QED
    BY <1>2, <2>1, <2>2 DEF Acquire
<1> QED
  BY <1>5, <1>11, <1>12 DEF LifecycleInv

\* A thread is created, or the caller undoes what it has done.
LEMMA CreateStep ==
  ASSUME LifecycleInv, Create, Arg \in Threads, ~Exists(Arg), Tunnel \subseteq held,
         Arg = "rt" => Relay \subseteq held, Arg = "recv" => direct \/ "relay" \in held
  PROVE  /\ TypeOK' /\ ~badfree' /\ ThreadsHaveState' /\ UNCHANGED <<held, running, direct>>
         /\ \/ todo' = Rest /\ \A t \in Threads : Exists(t)' <=> Exists(t) \/ t = Arg
            \/ todo' = Undo(Arg) /\ \A t \in Threads : Exists(t)' <=> Exists(t)
<1> DEFINE Labels == {"none", "top", "body", "sleep", "waiting", "woken", "flag", "send", "exited"}
<1>1. /\ pc \in [Threads -> Labels]
      /\ mutex = [c \in Conds |-> IF c = "tun" /\ pc["ka"] = "sleep" THEN "ka" ELSE "free"]
  BY DEF LifecycleInv, TypeOK
<1>2. UNCHANGED <<held, pred, mutex, running, valid, cb, client, has_client, direct, dangling, badfree>>
  BY DEF Create
<1>3. \/ pc' = [pc EXCEPT ![Arg] = "top"] /\ todo' = Rest
      \/ todo' = Undo(Arg) /\ UNCHANGED pc
  BY DEF Create
<1>4. CASE pc' = [pc EXCEPT ![Arg] = "top"] /\ todo' = Rest
  <2>1. /\ pc' \in [Threads -> Labels]
        /\ \A t \in Threads : pc'[t] = IF t = Arg THEN "top" ELSE pc[t]
    BY <1>1, <1>4
  <2>2. pc'["ka"] = "sleep" <=> pc["ka"] = "sleep"
    BY <2>1 DEF Exists, Threads
  <2>3. TypeOK'
    BY <1>1, <1>2, <2>1, <2>2 DEF LifecycleInv, TypeOK
  <2>4. \A t \in Threads : Exists(t)' <=> Exists(t) \/ t = Arg
    BY <2>1 DEF Exists
  <2>5. "recv" \in Threads
    BY DEF Threads
  <2>6. ThreadsHaveState'
    BY <1>2, <2>4, <2>5 DEF LifecycleInv, ThreadsHaveState
  <2> QED
    BY <1>2, <1>4, <2>3, <2>4, <2>6 DEF LifecycleInv
<1>5. CASE todo' = Undo(Arg) /\ UNCHANGED pc
  <2>1. TypeOK'
    BY <1>1, <1>2, <1>5 DEF LifecycleInv, TypeOK
  <2>2. \A t \in Threads : Exists(t)' <=> Exists(t)
    BY <1>5 DEF Exists
  <2>3. ThreadsHaveState'
    BY <1>2, <2>2, StateKept DEF LifecycleInv
  <2> QED
    BY <1>2, <1>5, <2>1, <2>2, <2>3 DEF LifecycleInv
<1> QED
  BY <1>3, <1>4, <1>5

\* The fields of a step, and what it makes of the threads and conditions it names.
LEMMA StepFields ==
  ASSUME NEW op, NEW arg, Head(todo) = Step(op, arg)
  PROVE  Head(todo).op = op /\ Arg = arg
BY SMT DEF Step, Arg

\* Which threads look at which condition.
LEMMA ThreadsOf ==
  /\ "recv" \in Threads /\ "ka" \in Threads /\ "rt" \in Threads
  /\ "tun" \in Conds /\ "relay" \in Conds
  /\ AsFlagged("tun") <=> (running["tun"] <=> Exists("recv")) /\ (running["tun"] <=> Exists("ka"))
  /\ AsFlagged("relay") <=> (running["relay"] <=> Exists("rt"))
BY DEF Threads, Conds, AsFlagged, CondOf

\* wg_start, called by the application.
LEMMA StartStep ==
  ASSUME LifecycleInv, NEW i \in 1 .. 5, StartAt(i), AppStep
  PROVE  LifecycleInv'
<1>1. /\ todo # <<>> /\ Head(todo) = WgStart[i] /\ Rest = From(WgStart, i + 1)
      /\ direct /\ Whole /\ Tunnel \subseteq held /\ AsFlagged("relay") /\ Starting(i)
      /\ From(WgStart, 6) = <<>>
  <2>1. From(WgStart, 6) = <<>>
    <3>1. From(WgStart, Len(WgStart) + 1) = <<>>
      BY WgStartIs, FromEnds
    <3>2. Len(WgStart) = 5
      BY WgStartIs
    <3> QED
      BY SMT, <3>1, <3>2
  <2>2. /\ From(WgStart, i) # <<>> /\ Head(From(WgStart, i)) = WgStart[i]
        /\ Tail(From(WgStart, i)) = From(WgStart, i + 1)
    BY WgStartIs, FromStep
  <2> QED
    BY <2>1, <2>2 DEF StartAt, Rest
<1>2. CASE i = 1
  <2>1. Head(todo).op = "check"
    BY <1>1, <1>2, WgStartIs, StepFields
  <2>2. StartCheck
    BY <2>1, ActionOf
  <2>3. /\ TypeOK' /\ ~badfree' /\ ThreadsHaveState' /\ UNCHANGED <<held, direct, running>>
        /\ \A t \in Threads : Exists(t)' <=> Exists(t)
    BY <2>1, <2>2, QuietStep
  <2>4. Whole' /\ AsFlagged("tun")' /\ AsFlagged("relay")' /\ Owned'
    BY <1>1, <1>2, <2>3, SameFlags, ThreadsOf DEF Starting, Owned
  <2>5. CASE todo' = <<>>
    BY <2>3, <2>4, <2>5 DEF LifecycleInv, CallAtStep, Settled
  <2>6. CASE todo' = Rest /\ ~running["tun"]
    <3>1. Starting(2)'
      BY SMT, <2>3, <2>4, <2>6, <1>1, <1>2, ThreadsOf DEF Starting
    <3>2. StartAt(2)'
      BY SMT, <2>3, <2>4, <2>6, <3>1, <1>1, <1>2 DEF StartAt
    <3> QED
      BY SMT, <2>3, <3>2 DEF LifecycleInv, CallAtStep
  <2> QED
    BY <2>2, <2>5, <2>6 DEF StartCheck
<1>3. CASE i = 2
  <2>1. Head(todo).op = "reset"
    BY <1>1, <1>3, WgStartIs, StepFields
  <2>2. Reset
    BY <2>1, ActionOf
  <2>3. /\ TypeOK' /\ ~badfree' /\ ThreadsHaveState' /\ UNCHANGED <<held, direct, running>>
        /\ \A t \in Threads : Exists(t)' <=> Exists(t)
    BY <2>1, <2>2, QuietStep
  <2>4. Whole' /\ AsFlagged("relay")'
    BY <1>1, <2>3, SameFlags, ThreadsOf
  <2>5. Starting(3)'
    BY SMT, <1>1, <1>3, <2>3, ThreadsOf DEF Starting
  <2>6. StartAt(3)'
    BY SMT, <2>2, <2>3, <2>4, <2>5, <1>1, <1>3 DEF StartAt, Reset
  <2> QED
    BY SMT, <2>3, <2>6 DEF LifecycleInv, CallAtStep
<1>4. CASE i = 3
  <2>1. Head(todo).op = "create" /\ Arg = "recv"
    BY <1>1, <1>4, WgStartIs, StepFields
  <2>2. Create
    BY <2>1, ActionOf
  <2>3. ~running["tun"] /\ ~Exists("recv") /\ ~Exists("ka")
    BY SMT, <1>1, <1>4 DEF Starting
  <2>4. /\ TypeOK' /\ ~badfree' /\ ThreadsHaveState' /\ UNCHANGED <<held, running, direct>>
        /\ \/ todo' = Rest /\ \A t \in Threads : Exists(t)' <=> Exists(t) \/ t = "recv"
           \/ todo' = Undo("recv") /\ \A t \in Threads : Exists(t)' <=> Exists(t)
    BY <1>1, <2>1, <2>2, <2>3, CreateStep, ThreadsOf
  <2>5. Whole' /\ AsFlagged("relay")' /\ Owned'
    BY <1>1, <2>4, ThreadsOf DEF Whole, AsFlagged, CondOf, Owned
  <2>6. CASE todo' = Rest /\ \A t \in Threads : Exists(t)' <=> Exists(t) \/ t = "recv"
    <3>1. Starting(4)'
      BY SMT, <2>3, <2>4, <2>6, ThreadsOf DEF Starting
    <3>2. StartAt(4)'
      BY SMT, <2>4, <2>5, <2>6, <3>1, <1>1, <1>4 DEF StartAt
    <3> QED
      BY SMT, <2>4, <3>2 DEF LifecycleInv, CallAtStep
  <2>7. CASE todo' = Undo("recv") /\ \A t \in Threads : Exists(t)' <=> Exists(t)
    <3>1. AsFlagged("tun")'
      BY <2>3, <2>4, <2>7, ThreadsOf DEF AsFlagged, CondOf, Threads
    <3> QED
      BY <2>4, <2>5, <2>7, <3>1, UndoIs DEF LifecycleInv, CallAtStep, Settled
  <2> QED
    BY <2>4, <2>6, <2>7
<1>5. CASE i = 4
  <2>1. Head(todo).op = "create" /\ Arg = "ka"
    BY <1>1, <1>5, WgStartIs, StepFields
  <2>2. Create
    BY <2>1, ActionOf
  <2>3. ~running["tun"] /\ Exists("recv") /\ ~Exists("ka")
    BY SMT, <1>1, <1>5 DEF Starting
  <2>4. /\ TypeOK' /\ ~badfree' /\ ThreadsHaveState' /\ UNCHANGED <<held, running, direct>>
        /\ \/ todo' = Rest /\ \A t \in Threads : Exists(t)' <=> Exists(t) \/ t = "ka"
           \/ todo' = Undo("ka") /\ \A t \in Threads : Exists(t)' <=> Exists(t)
    BY <1>1, <2>1, <2>2, <2>3, CreateStep, ThreadsOf
  <2>5. Whole' /\ AsFlagged("relay")'
    BY <1>1, <2>4, ThreadsOf DEF Whole, AsFlagged, CondOf
  <2>6. CASE todo' = Rest /\ \A t \in Threads : Exists(t)' <=> Exists(t) \/ t = "ka"
    <3>1. Starting(5)'
      BY SMT, <2>3, <2>4, <2>6, ThreadsOf DEF Starting
    <3>2. StartAt(5)'
      BY SMT, <2>4, <2>5, <2>6, <3>1, <1>1, <1>5 DEF StartAt
    <3> QED
      BY SMT, <2>4, <3>2 DEF LifecycleInv, CallAtStep
  <2>7. CASE todo' = Undo("ka") /\ \A t \in Threads : Exists(t)' <=> Exists(t)
    <3>1. todo' = From(Undo("ka"), 1)
      BY <2>7, UndoIs, FromEnds
    <3>2. UndoAt(1)'
      BY <1>1, <2>3, <2>4, <2>5, <2>7, <3>1, ThreadsOf DEF UndoAt
    <3> QED
      BY SMT, <2>4, <3>2 DEF LifecycleInv, CallAtStep
  <2> QED
    BY <2>4, <2>6, <2>7
<1>6. CASE i = 5
  <2>1. Head(todo).op = "running" /\ Arg = "tun"
    BY <1>1, <1>6, WgStartIs, StepFields
  <2>2. SetRunning
    BY <2>1, ActionOf
  <2>3. /\ TypeOK' /\ ~badfree' /\ ThreadsHaveState' /\ UNCHANGED <<held, direct>>
        /\ \A t \in Threads : Exists(t)' <=> Exists(t)
    BY <2>1, <2>2, QuietStep
  <2>4. running'["tun"] /\ (running'["relay"] <=> running["relay"]) /\ todo' = <<>>
    BY SMT, <1>1, <1>6, <2>1, <2>2, ThreadsOf, RunningStep
  <2>5. Whole' /\ AsFlagged("tun")' /\ AsFlagged("relay")' /\ Owned'
    BY SMT, <1>1, <1>6, <2>3, <2>4, ThreadsOf
    DEF Whole, AsFlagged, CondOf, Owned, Starting, Threads
  <2> QED
    BY <2>3, <2>4, <2>5 DEF LifecycleInv, CallAtStep, Settled
<1> QED
  <2>1. i = 1 \/ i = 2 \/ i = 3 \/ i = 4 \/ i = 5
    BY SMT
  <2> QED
    BY <2>1, <1>2, <1>3, <1>4, <1>5, <1>6

\* wg_relay_start, wg_start among its steps.
LEMMA RelayStartStep ==
  ASSUME LifecycleInv, NEW i \in 1 .. 9, RelayStartAt(i), AppStep
  PROVE  LifecycleInv'
<1>1. /\ todo # <<>> /\ Head(todo) = WgRelayStart[i] /\ Rest = From(WgRelayStart, i + 1)
      /\ Whole /\ Tunnel \subseteq held /\ Relay \subseteq held /\ "relay" \in held
      /\ ~running["relay"] /\ (Exists("rt") <=> i = 9)
  <2>1. /\ From(WgRelayStart, i) # <<>> /\ Head(From(WgRelayStart, i)) = WgRelayStart[i]
        /\ Tail(From(WgRelayStart, i)) = From(WgRelayStart, i + 1)
    BY WgRelayStartIs, FromStep
  <2> QED
    BY <2>1, Disjoint DEF RelayStartAt, Rest
<1>2. From(WgRelayStart, 10) = <<>>
  <2>1. From(WgRelayStart, Len(WgRelayStart) + 1) = <<>>
    BY WgRelayStartIs, FromEnds
  <2>2. Len(WgRelayStart) = 9
    BY WgRelayStartIs
  <2> QED
    BY SMT, <2>1, <2>2
<1>3. /\ WgRelayStart[1] = Step("callback", "") /\ WgRelayStart[2] = Step("check", "")
      /\ WgRelayStart[3] = Step("reset", "tun") /\ WgRelayStart[4] = Step("create", "recv")
      /\ WgRelayStart[5] = Step("create", "ka") /\ WgRelayStart[6] = Step("running", "tun")
      /\ WgRelayStart[7] = Step("reset", "relay") /\ WgRelayStart[8] = Step("create", "rt")
      /\ WgRelayStart[9] = Step("running", "relay")
  BY WgRelayStartIs
<1>4. CASE i = 1
  <2>1. Head(todo).op = "callback"
    BY <1>1, <1>3, <1>4, StepFields
  <2>2. SetCallback
    BY <2>1, ActionOf
  <2>3. /\ TypeOK' /\ ~badfree' /\ ThreadsHaveState' /\ UNCHANGED <<held, direct, running>>
        /\ \A t \in Threads : Exists(t)' <=> Exists(t)
    BY <2>1, <2>2, QuietStep
  <2>4. Whole' /\ (AsFlagged("tun")' <=> AsFlagged("tun")) /\ (Owned' <=> Owned)
    BY <1>1, <2>3, SameFlags, ThreadsOf
  <2>5. RelayStartAt(2)'
    BY SMT, <1>1, <1>4, <2>2, <2>3, <2>4, ThreadsOf DEF RelayStartAt, SetCallback
  <2> QED
    BY SMT, <2>3, <2>5 DEF LifecycleInv, CallAtStep
<1>5. CASE i = 2
  <2>1. Head(todo).op = "check"
    BY ZenonT(40), <1>1, <1>3, <1>5, StepFields
  <2>2. StartCheck
    BY <2>1, ActionOf
  <2>3. /\ TypeOK' /\ ~badfree' /\ ThreadsHaveState' /\ UNCHANGED <<held, direct, running>>
        /\ \A t \in Threads : Exists(t)' <=> Exists(t)
    BY <2>1, <2>2, QuietStep
  <2>4. Whole' /\ (AsFlagged("tun")' <=> AsFlagged("tun")) /\ (Owned' <=> Owned)
    BY <1>1, <2>3, SameFlags, ThreadsOf
  <2>5. AsFlagged("tun") /\ Owned
    BY SMT, <1>5 DEF RelayStartAt
  <2>6. CASE todo' = <<>>
    <3>1. AsFlagged("relay")'
      BY SMT, <1>1, <1>5, <2>3, ThreadsOf DEF AsFlagged, CondOf, Threads
    <3> QED
      BY <2>3, <2>4, <2>5, <2>6, <3>1 DEF LifecycleInv, CallAtStep, Settled
  <2>7. CASE todo' = Rest /\ ~running["tun"]
    <3>1. Starting(2)'
      BY SMT, <2>3, <2>5, <2>7, ThreadsOf DEF Starting
    <3>2. RelayStartAt(3)'
      BY SMT, <1>1, <1>5, <2>3, <2>4, <2>7, <3>1, ThreadsOf DEF RelayStartAt
    <3> QED
      BY SMT, <2>3, <3>2 DEF LifecycleInv, CallAtStep
  <2> QED
    BY <2>2, <2>6, <2>7 DEF StartCheck
<1>6. CASE i = 3
  <2>1. Head(todo).op = "reset"
    BY ZenonT(40), <1>1, <1>3, <1>6, StepFields
  <2>2. Reset
    BY <2>1, ActionOf
  <2>3. /\ TypeOK' /\ ~badfree' /\ ThreadsHaveState' /\ UNCHANGED <<held, direct, running>>
        /\ \A t \in Threads : Exists(t)' <=> Exists(t)
    BY <2>1, <2>2, QuietStep
  <2>4. Whole' /\ (AsFlagged("tun")' <=> AsFlagged("tun")) /\ (Owned' <=> Owned)
    BY <1>1, <2>3, SameFlags, ThreadsOf
  <2>5. Starting(2)
    BY SMT, <1>6 DEF RelayStartAt
  <2>6. Starting(3)'
    BY SMT, <2>3, <2>5, ThreadsOf DEF Starting
  <2>7. RelayStartAt(4)'
    BY SMT, <1>1, <1>6, <2>2, <2>3, <2>4, <2>6, ThreadsOf DEF RelayStartAt, Reset
  <2> QED
    BY SMT, <2>3, <2>7 DEF LifecycleInv, CallAtStep
<1>7. CASE i = 4
  <2>1. Head(todo).op = "create" /\ Arg = "recv"
    BY ZenonT(40), <1>1, <1>3, <1>7, StepFields
  <2>2. Create
    BY <2>1, ActionOf
  <2>3. ~running["tun"] /\ ~Exists("recv") /\ ~Exists("ka")
    BY SMT, <1>7 DEF RelayStartAt, Starting
  <2>4. /\ TypeOK' /\ ~badfree' /\ ThreadsHaveState' /\ UNCHANGED <<held, running, direct>>
        /\ \/ todo' = Rest /\ \A t \in Threads : Exists(t)' <=> Exists(t) \/ t = "recv"
           \/ todo' = Undo("recv") /\ \A t \in Threads : Exists(t)' <=> Exists(t)
    BY <1>1, <2>1, <2>2, <2>3, CreateStep, ThreadsOf
  <2>5. Whole' /\ Owned' /\ ~Exists("rt")'
    BY SMT, <1>1, <1>7, <2>3, <2>4, ThreadsOf DEF Whole, Owned
  <2>6. CASE todo' = Rest /\ \A t \in Threads : Exists(t)' <=> Exists(t) \/ t = "recv"
    <3>1. Starting(4)'
      BY SMT, <2>3, <2>4, <2>6, ThreadsOf DEF Starting
    <3>2. RelayStartAt(5)'
      BY SMT, <1>1, <1>7, <2>4, <2>5, <2>6, <3>1 DEF RelayStartAt
    <3> QED
      BY SMT, <2>4, <3>2 DEF LifecycleInv, CallAtStep
  <2>7. CASE todo' = Undo("recv") /\ \A t \in Threads : Exists(t)' <=> Exists(t)
    <3>1. AsFlagged("tun")' /\ AsFlagged("relay")'
      BY <1>1, <2>3, <2>4, <2>5, <2>7, ThreadsOf DEF AsFlagged, CondOf, Threads
    <3> QED
      BY <2>4, <2>5, <2>7, <3>1, UndoIs DEF LifecycleInv, CallAtStep, Settled
  <2> QED
    BY <2>4, <2>6, <2>7
<1>8. CASE i = 5
  <2>1. Head(todo).op = "create" /\ Arg = "ka"
    BY ZenonT(40), <1>1, <1>3, <1>8, StepFields
  <2>2. Create
    BY <2>1, ActionOf
  <2>3. ~running["tun"] /\ Exists("recv") /\ ~Exists("ka")
    BY SMT, <1>8 DEF RelayStartAt, Starting
  <2>4. /\ TypeOK' /\ ~badfree' /\ ThreadsHaveState' /\ UNCHANGED <<held, running, direct>>
        /\ \/ todo' = Rest /\ \A t \in Threads : Exists(t)' <=> Exists(t) \/ t = "ka"
           \/ todo' = Undo("ka") /\ \A t \in Threads : Exists(t)' <=> Exists(t)
    BY <1>1, <2>1, <2>2, <2>3, CreateStep, ThreadsOf
  <2>5. Whole' /\ ~Exists("rt")'
    BY SMT, <1>1, <1>8, <2>3, <2>4, ThreadsOf DEF Whole
  <2>6. CASE todo' = Rest /\ \A t \in Threads : Exists(t)' <=> Exists(t) \/ t = "ka"
    <3>1. Starting(5)'
      BY SMT, <2>3, <2>4, <2>6, ThreadsOf DEF Starting
    <3>2. RelayStartAt(6)'
      BY SMT, <1>1, <1>8, <2>4, <2>5, <2>6, <3>1 DEF RelayStartAt
    <3> QED
      BY SMT, <2>4, <3>2 DEF LifecycleInv, CallAtStep
  <2>7. CASE todo' = Undo("ka") /\ \A t \in Threads : Exists(t)' <=> Exists(t)
    <3>1. todo' = From(Undo("ka"), 1)
      BY <2>7, UndoIs, FromEnds
    <3>2. AsFlagged("relay")'
      BY <1>1, <2>4, <2>5, ThreadsOf DEF AsFlagged, CondOf, Threads
    <3>3. UndoAt(1)'
      BY <1>1, <2>3, <2>4, <2>5, <2>7, <3>1, <3>2, ThreadsOf DEF UndoAt
    <3> QED
      BY SMT, <2>4, <3>3 DEF LifecycleInv, CallAtStep
  <2> QED
    BY <2>4, <2>6, <2>7
<1>9. CASE i = 6
  <2>1. Head(todo).op = "running" /\ Arg = "tun"
    BY ZenonT(40), <1>1, <1>3, <1>9, StepFields
  <2>2. SetRunning
    BY <2>1, ActionOf
  <2>3. /\ TypeOK' /\ ~badfree' /\ ThreadsHaveState' /\ UNCHANGED <<held, direct>>
        /\ \A t \in Threads : Exists(t)' <=> Exists(t)
    BY <2>1, <2>2, QuietStep
  <2>4. running'["tun"] /\ ~running'["relay"] /\ todo' = From(WgRelayStart, 7)
    BY SMT, <1>1, <1>9, <2>1, <2>2, ThreadsOf, RunningStep
  <2>5. Exists("recv") /\ Exists("ka")
    BY SMT, <1>9 DEF RelayStartAt, Starting
  <2>6. Whole' /\ AsFlagged("tun")' /\ ~Exists("rt")'
    BY SMT, <1>1, <1>9, <2>3, <2>4, <2>5, ThreadsOf DEF Whole, AsFlagged, CondOf, Threads
  <2>7. RelayStartAt(7)'
    BY SMT, <1>1, <2>3, <2>4, <2>6 DEF RelayStartAt
  <2> QED
    BY SMT, <2>3, <2>7 DEF LifecycleInv, CallAtStep
<1>10. CASE i = 7
  <2>1. Head(todo).op = "reset"
    BY ZenonT(40), <1>1, <1>3, <1>10, StepFields
  <2>2. Reset
    BY <2>1, ActionOf
  <2>3. /\ TypeOK' /\ ~badfree' /\ ThreadsHaveState' /\ UNCHANGED <<held, direct, running>>
        /\ \A t \in Threads : Exists(t)' <=> Exists(t)
    BY <2>1, <2>2, QuietStep
  <2>4. Whole' /\ (AsFlagged("tun")' <=> AsFlagged("tun")) /\ (Owned' <=> Owned)
    BY <1>1, <2>3, SameFlags, ThreadsOf
  <2>5. running["tun"] /\ AsFlagged("tun")
    BY SMT, <1>10 DEF RelayStartAt
  <2>6. RelayStartAt(8)'
    BY SMT, <1>1, <1>10, <2>2, <2>3, <2>4, <2>5, ThreadsOf DEF RelayStartAt, Reset
  <2> QED
    BY SMT, <2>3, <2>6 DEF LifecycleInv, CallAtStep
<1>11. CASE i = 8
  <2>1. Head(todo).op = "create" /\ Arg = "rt"
    BY <1>1, <1>3, <1>11, StepFields
  <2>2. Create
    BY <2>1, ActionOf
  <2>3. running["tun"] /\ AsFlagged("tun") /\ ~Exists("rt")
    BY SMT, <1>11 DEF RelayStartAt
  <2>4. /\ TypeOK' /\ ~badfree' /\ ThreadsHaveState' /\ UNCHANGED <<held, running, direct>>
        /\ \/ todo' = Rest /\ \A t \in Threads : Exists(t)' <=> Exists(t) \/ t = "rt"
           \/ todo' = Undo("rt") /\ \A t \in Threads : Exists(t)' <=> Exists(t)
    BY <1>1, <2>1, <2>2, <2>3, CreateStep, ThreadsOf
  <2>5. Whole' /\ AsFlagged("tun")' /\ running'["tun"]
    BY <1>1, <2>3, <2>4, ThreadsOf DEF Whole, AsFlagged, CondOf, Threads
  <2>6. CASE todo' = Rest /\ \A t \in Threads : Exists(t)' <=> Exists(t) \/ t = "rt"
    <3>1. RelayStartAt(9)'
      BY SMT, <1>1, <1>11, <2>4, <2>5, <2>6, ThreadsOf DEF RelayStartAt
    <3> QED
      BY SMT, <2>4, <3>1 DEF LifecycleInv, CallAtStep
  <2>7. CASE todo' = Undo("rt") /\ \A t \in Threads : Exists(t)' <=> Exists(t)
    <3>1. todo' = <<Step("stop", "tun")>> \o <<>> /\ <<>> \in AfterStop
      BY <2>7, UndoIs, AfterStops DEF AfterStop
    <3>2. AsFlagged("relay")'
      BY <1>1, <2>3, <2>4, <2>7, ThreadsOf DEF AsFlagged, CondOf, Threads
    <3>3. RelayDuringStop(<<>>)'
      BY <3>2 DEF RelayDuringStop
    <3>4. StopTun(<<>>)'
      BY <1>1, <2>4, <2>5, <3>1, <3>3 DEF StopTun
    <3> QED
      BY <2>4, <3>1, <3>4 DEF LifecycleInv, CallAtStep
  <2> QED
    BY <2>4, <2>6, <2>7
<1>12. CASE i = 9
  <2>1. Head(todo).op = "running" /\ Arg = "relay"
    BY <1>1, <1>3, <1>12, StepFields
  <2>2. SetRunning
    BY <2>1, ActionOf
  <2>3. /\ TypeOK' /\ ~badfree' /\ ThreadsHaveState' /\ UNCHANGED <<held, direct>>
        /\ \A t \in Threads : Exists(t)' <=> Exists(t)
    BY <2>1, <2>2, QuietStep
  <2>4. (running'["tun"] <=> running["tun"]) /\ running'["relay"] /\ todo' = <<>>
    BY SMT, <1>1, <1>2, <1>12, <2>1, <2>2, ThreadsOf, RunningStep
  <2>5. running["tun"] /\ AsFlagged("tun")
    BY SMT, <1>12 DEF RelayStartAt
  <2>6. Whole' /\ AsFlagged("tun")' /\ AsFlagged("relay")' /\ Owned'
    BY <1>1, <1>12, <2>3, <2>4, <2>5, ThreadsOf DEF Whole, AsFlagged, CondOf, Threads, Owned
  <2> QED
    BY <2>3, <2>4, <2>6 DEF LifecycleInv, CallAtStep, Settled
<1> QED
  <2>1. i = 1 \/ i = 2 \/ i = 3 \/ i = 4 \/ i = 5 \/ i = 6 \/ i = 7 \/ i = 8 \/ i = 9
    BY SMT
  <2> QED
    BY <2>1, <1>4, <1>5, <1>6, <1>7, <1>8, <1>9, <1>10, <1>11, <1>12

\* A join ends one thread.
LEMMA JoinStep ==
  ASSUME LifecycleInv, Join, Arg \in Threads
  PROVE  todo' = Rest /\ \A t \in Threads : Exists(t)' <=> Exists(t) /\ t # Arg
<1>1. pc' = [pc EXCEPT ![Arg] = "none"] /\ todo' = Rest
  BY DEF Join
<1>2. \A t \in Threads : pc'[t] = IF t = Arg THEN "none" ELSE pc[t]
  BY <1>1 DEF LifecycleInv, TypeOK
<1> QED
  BY <1>1, <1>2 DEF Exists

\* What wg_start does when there is no keepalive thread.
LEMMA UndoStep ==
  ASSUME LifecycleInv, NEW i \in 1 .. 3, UndoAt(i), AppStep
  PROVE  LifecycleInv'
<1>1. /\ todo # <<>> /\ Head(todo) = Undo("ka")[i] /\ Rest = From(Undo("ka"), i + 1)
      /\ Whole /\ Tunnel \subseteq held /\ AsFlagged("relay")
      /\ ~running["tun"] /\ Exists("recv") /\ ~Exists("ka")
  <2>1. /\ From(Undo("ka"), i) # <<>> /\ Head(From(Undo("ka"), i)) = Undo("ka")[i]
        /\ Tail(From(Undo("ka"), i)) = From(Undo("ka"), i + 1)
    BY UndoIs, FromStep
  <2> QED
    BY <2>1 DEF UndoAt, Rest
<1>2. From(Undo("ka"), 4) = <<>>
  <2> DEFINE p == Undo("ka")
  <2>1. p \in Seq(AnyStep) /\ Len(p) = 3
    BY UndoIs
  <2> HIDE DEF p
  <2>2. From(p, Len(p) + 1) = <<>>
    BY <2>1, FromEnds
  <2>3. Len(p) = 3
    BY <2>1
  <2>4. From(p, 4) = <<>>
    BY SMT, <2>2, <2>3
  <2> QED
    BY <2>4 DEF p
<1>3. CASE i = 1 \/ i = 2
  <2>1. Head(todo).op \in {"signal", "broadcast"}
    BY <1>1, <1>3, UndoIs, StepFields
  <2>2. SignalPred \/ Broadcast
    BY <2>1, ActionOf
  <2>3. /\ TypeOK' /\ ~badfree' /\ ThreadsHaveState' /\ UNCHANGED <<held, direct, running>>
        /\ \A t \in Threads : Exists(t)' <=> Exists(t)
    BY <2>1, <2>2, QuietStep
  <2>4. Whole' /\ AsFlagged("relay")'
    BY <1>1, <2>3, SameFlags, ThreadsOf
  <2>5. todo' = From(Undo("ka"), i + 1) /\ i + 1 \in 1 .. 3
    BY SMT, <1>1, <1>3, <2>2 DEF SignalPred, Broadcast
  <2>6. UndoAt(i + 1)'
    BY <1>1, <2>3, <2>4, <2>5, ThreadsOf DEF UndoAt
  <2> QED
    BY <2>3, <2>5, <2>6 DEF LifecycleInv, CallAtStep
<1>4. CASE i = 3
  <2>1. Head(todo).op = "join" /\ Arg = "recv"
    BY <1>1, <1>4, UndoIs, StepFields
  <2>2. Join
    BY <2>1, ActionOf
  <2>3. /\ TypeOK' /\ ~badfree' /\ ThreadsHaveState' /\ UNCHANGED <<held, direct, running>>
    BY <2>1, <2>2, QuietStep, ThreadsOf
  <2>4. todo' = <<>> /\ \A t \in Threads : Exists(t)' <=> Exists(t) /\ t # "recv"
    BY SMT, <1>1, <1>2, <1>4, <2>1, <2>2, JoinStep, ThreadsOf
  <2>5. Whole' /\ AsFlagged("tun")' /\ AsFlagged("relay")' /\ Owned'
    BY <1>1, <2>3, <2>4, ThreadsOf DEF Whole, AsFlagged, CondOf, Threads, Owned
  <2> QED
    BY <2>3, <2>4, <2>5 DEF LifecycleInv, CallAtStep, Settled
<1> QED
  <2>1. i = 1 \/ i = 2 \/ i = 3
    BY SMT
  <2> QED
    BY <2>1, <1>3, <1>4

\* What is left after wg_stop tells the calls apart.
LEMMA AfterStopsDiffer ==
  /\ <<Step("free", "tun")>> # <<>> /\ <<Step("stopped", "relay")>> # <<>>
  /\ <<Step("stopped", "relay"), Step("free", "relay")>> # <<>>
  /\ <<Step("stopped", "relay")>> # <<Step("free", "tun")>>
  /\ <<Step("stopped", "relay"), Step("free", "relay")>> # <<Step("free", "tun")>>
<1>1. Step("stopped", "relay") # Step("free", "tun")
  BY DEF Step
<1> QED
  BY <1>1

\* What follows when the tunnel has been stopped.
LEMMA TunStopped ==
  ASSUME NEW k \in AfterStop, todo' = k, Whole', Tunnel \subseteq held', AsFlagged("tun")',
         ~running'["tun"], RelayDuringStop(k)'
  PROVE  CallAtStep'
<1>1. /\ RelayDuringStop(<<>>)' <=> AsFlagged("relay")'
      /\ RelayDuringStop(<<Step("free", "tun")>>)' <=> AsFlagged("relay")' /\ held' \cap Relay = {}
      /\ RelayDuringStop(<<Step("stopped", "relay")>>)' <=> running'["relay"] /\ ~Exists("rt")'
      /\ RelayDuringStop(<<Step("stopped", "relay"), Step("free", "relay")>>)'
           <=> running'["relay"] /\ ~Exists("rt")'
  BY AfterStopsDiffer DEF RelayDuringStop
<1>2. CASE k = <<>>
  BY <1>1, <1>2 DEF CallAtStep, Settled, Owned
<1>3. CASE k = <<Step("free", "tun")>>
  <2>1. AsFlagged("relay")' /\ held' \cap Relay = {}
    BY <1>1, <1>3
  <2>2. ~running'["relay"]
    BY <2>1, Disjoint DEF Whole
  <2>3. FreeTun'
    BY <1>3, <2>1, <2>2 DEF FreeTun, Settled, Owned
  <2> QED
    BY <2>3 DEF CallAtStep
<1>4. CASE k = <<Step("stopped", "relay")>>
  <2>1. running'["relay"] /\ ~Exists("rt")'
    BY <1>1, <1>4
  <2>2. RelayStopped(<<>>)' /\ <<>> \in AfterRelayStop
    BY <1>4, <2>1, AfterStops DEF RelayStopped, Whole, AfterRelayStop
  <2> QED
    BY <2>2 DEF CallAtStep
<1>5. CASE k = <<Step("stopped", "relay"), Step("free", "relay")>>
  <2>1. running'["relay"] /\ ~Exists("rt")'
    BY <1>1, <1>5
  <2>2. RelayStopped(<<Step("free", "relay")>>)' /\ <<Step("free", "relay")>> \in AfterRelayStop
    BY <1>5, <2>1, AfterStops DEF RelayStopped, Whole, AfterRelayStop
  <2> QED
    BY <2>2 DEF CallAtStep
<1> QED
  BY <1>2, <1>3, <1>4, <1>5 DEF AfterStop

\* wg_stop: its check.
LEMMA StopTunStep ==
  ASSUME LifecycleInv, NEW k \in AfterStop, StopTun(k), AppStep
  PROVE  LifecycleInv'
<1>1. k \in Seq(AnyStep) /\ Step("stop", "tun") \in AnyStep
  BY AfterStops, StepsAreSteps DEF Ops, Args
<1>2. /\ todo # <<>> /\ Head(todo) = Step("stop", "tun") /\ Rest = k
      /\ Whole /\ Tunnel \subseteq held /\ AsFlagged("tun") /\ RelayDuringStop(k)
  BY <1>1, OneThen DEF StopTun, Rest
<1>3. Head(todo).op = "stop" /\ Arg = "tun"
  BY <1>2, StepFields
<1>4. StopCheck
  BY <1>3, ActionOf
<1>5. /\ TypeOK' /\ ~badfree' /\ ThreadsHaveState' /\ UNCHANGED <<held, direct, running>>
      /\ \A t \in Threads : Exists(t)' <=> Exists(t)
  BY <1>3, <1>4, QuietStep
<1>6. Whole' /\ AsFlagged("tun")' /\ RelayDuringStop(k)'
  BY <1>2, <1>5, SameFlags, ThreadsOf
<1>7. CASE running["tun"]
  <2>1. todo' = From(StopSteps("tun"), 1) \o k
    BY <1>2, <1>3, <1>4, <1>7, StopStepsIs, FromEnds DEF StopCheck
  <2>2. StopTunAt(1, k)'
    BY SMT, <1>2, <1>5, <1>6, <1>7, <2>1, ThreadsOf DEF StopTunAt
  <2> QED
    BY SMT, <1>5, <2>2 DEF LifecycleInv, CallAtStep
<1>8. CASE ~running["tun"]
  <2>1. todo' = k
    BY <1>2, <1>3, <1>4, <1>8 DEF StopCheck
  <2>2. CallAtStep'
    BY <1>2, <1>5, <1>6, <1>8, <2>1, TunStopped
  <2> QED
    BY <1>5, <2>2 DEF LifecycleInv
<1> QED
  BY <1>7, <1>8

\* wg_stop of a tunnel that runs.
LEMMA StopTunAtStep ==
  ASSUME LifecycleInv, NEW k \in AfterStop, NEW i \in 1 .. 5, StopTunAt(i, k), AppStep
  PROVE  LifecycleInv'
<1> DEFINE p == StopSteps("tun")
<1>1. k \in Seq(AnyStep) /\ p \in Seq(AnyStep) /\ Len(p) = 5
  BY AfterStops, StopStepsIs
<1>2. /\ p[1] = Step("signal", "tun") /\ p[2] = Step("broadcast", "tun")
      /\ p[3] = Step("join", "recv") /\ p[4] = Step("join", "ka") /\ p[5] = Step("stopped", "tun")
  BY StopStepsIs
<1>3. /\ todo = From(p, i) \o k
      /\ Whole /\ Tunnel \subseteq held /\ RelayDuringStop(k)
      /\ running["tun"] /\ (Exists("recv") <=> i <= 3) /\ (Exists("ka") <=> i <= 4)
  BY DEF StopTunAt
<1>4. ASSUME NEW j \in 1 .. 5, todo' = From(p, j) \o k, TypeOK', ~badfree', ThreadsHaveState',
             Whole', Tunnel \subseteq held', RelayDuringStop(k)', running'["tun"],
             Exists("recv")' <=> j <= 3, Exists("ka")' <=> j <= 4
      PROVE  LifecycleInv'
  <2>1. StopTunAt(j, k)'
    BY <1>4 DEF StopTunAt
  <2> QED
    BY <1>4, <2>1 DEF LifecycleInv, CallAtStep
<1> HIDE DEF p
<1>5. /\ todo # <<>> /\ Head(todo) = p[i] /\ Rest = From(p, i + 1) \o k
  <2>1. /\ From(p, i) \in Seq(AnyStep) /\ From(p, i) # <<>>
        /\ Head(From(p, i)) = p[i] /\ Tail(From(p, i)) = From(p, i + 1)
    BY <1>1, FromStep
  <2> DEFINE q == From(p, i)
  <2> HIDE DEF q
  <2>2. q \o k # <<>> /\ Head(q \o k) = Head(q) /\ Tail(q \o k) = Tail(q) \o k
    BY <1>1, <2>1, HeadTailThen DEF q
  <2> QED
    BY <1>3, <2>1, <2>2 DEF Rest, q
<1>6. From(p, 6) \o k = k
  <2>1. From(p, Len(p) + 1) = <<>>
    BY <1>1, FromEnds
  <2>2. Len(p) = 5
    BY <1>1
  <2>3. From(p, 6) = <<>>
    BY SMT, <2>1, <2>2
  <2> QED
    BY <1>1, <2>3, ConcatEmptySeq
<1>7. CASE i = 1 \/ i = 2
  <2>1. Head(todo).op \in {"signal", "broadcast"}
    BY <1>2, <1>5, <1>7, StepFields
  <2>2. SignalPred \/ Broadcast
    BY <2>1, ActionOf
  <2>3. /\ TypeOK' /\ ~badfree' /\ ThreadsHaveState' /\ UNCHANGED <<held, direct, running>>
        /\ \A t \in Threads : Exists(t)' <=> Exists(t)
    BY <2>1, <2>2, QuietStep
  <2>4. Whole' /\ RelayDuringStop(k)'
    BY <1>3, <2>3, SameFlags
  <2>5. todo' = From(p, i + 1) \o k /\ i + 1 \in 1 .. 5 /\ i + 1 <= 3
    BY SMT, <1>5, <1>7, <2>2 DEF SignalPred, Broadcast
  <2>6. (Exists("recv")' <=> i + 1 <= 3) /\ (Exists("ka")' <=> i + 1 <= 4)
    BY SMT, <1>3, <1>7, <2>3, ThreadsOf
  <2> QED
    BY <1>3, <1>4, <2>3, <2>4, <2>5, <2>6
<1>8. CASE i = 3 \/ i = 4
  <2>1. Head(todo).op = "join" /\ Arg = IF i = 3 THEN "recv" ELSE "ka"
    BY SMT, <1>2, <1>5, <1>8, StepFields
  <2>2. Join
    BY <2>1, ActionOf
  <2>3. Arg \in Threads
    BY <2>1, ThreadsOf
  <2>4. TypeOK' /\ ~badfree' /\ ThreadsHaveState' /\ UNCHANGED <<held, direct, running>>
    BY <2>1, <2>2, <2>3, QuietStep
  <2>5. /\ todo' = From(p, i + 1) \o k /\ i + 1 \in 1 .. 5
        /\ \A t \in Threads : Exists(t)' <=> Exists(t) /\ t # Arg
    BY SMT, <1>5, <1>8, <2>2, <2>3, JoinStep
  <2>6. /\ (Exists("recv")' <=> i + 1 <= 3) /\ (Exists("ka")' <=> i + 1 <= 4)
        /\ (Exists("rt")' <=> Exists("rt"))
    BY SMT, <1>3, <1>8, <2>1, <2>5, ThreadsOf
  <2>7. Whole'
    BY <1>3, <2>4 DEF Whole
  <2>8. RelayDuringStop(k)'
    BY <1>3, <2>4, <2>6, ThreadsOf DEF RelayDuringStop, AsFlagged, CondOf, Threads
  <2> QED
    BY <1>3, <1>4, <2>4, <2>5, <2>6, <2>7, <2>8
<1>9. CASE i = 5
  <2>1. Head(todo).op = "stopped" /\ Arg = "tun"
    BY <1>2, <1>5, <1>9, StepFields
  <2>2. SetRunning
    BY <2>1, ActionOf
  <2>3. /\ TypeOK' /\ ~badfree' /\ ThreadsHaveState' /\ UNCHANGED <<held, direct>>
        /\ \A t \in Threads : Exists(t)' <=> Exists(t)
    BY <2>1, <2>2, QuietStep
  <2>4. ~running'["tun"] /\ (running'["relay"] <=> running["relay"]) /\ todo' = k
    BY SMT, <1>5, <1>6, <1>9, <2>1, <2>2, ThreadsOf, RunningStep
  <2>5. Whole' /\ AsFlagged("tun")'
    BY SMT, <1>3, <1>9, <2>3, <2>4, ThreadsOf DEF Whole, AsFlagged, CondOf, Threads
  <2>6. RelayDuringStop(k)'
    BY <1>3, <2>3, <2>4, ThreadsOf DEF RelayDuringStop, AsFlagged, CondOf, Threads
  <2>7. CallAtStep'
    BY <1>3, <2>3, <2>4, <2>5, <2>6, TunStopped
  <2> QED
    BY <2>3, <2>7 DEF LifecycleInv
<1> QED
  <2>1. i = 1 \/ i = 2 \/ i = 3 \/ i = 4 \/ i = 5
    BY SMT
  <2> QED
    BY <2>1, <1>7, <1>8, <1>9

\* What the release leaves.
LEMMA FreeStep ==
  ASSUME LifecycleInv, FreeTun \/ FreeRelay, AppStep
  PROVE  LifecycleInv'
<1>1. Step("free", "tun") \in AnyStep /\ Step("free", "relay") \in AnyStep
  BY StepsAreSteps DEF Ops, Args
<1>2. /\ FreeTun => Head(todo) = Step("free", "tun") /\ Rest = <<>>
      /\ FreeRelay => Head(todo) = Step("free", "relay") /\ Rest = <<>>
  <2>1. \A x \in AnyStep : Head(<<x>>) = x /\ Tail(<<x>>) = <<>>
    BY SMT
  <2> QED
    BY <1>1, <2>1 DEF FreeTun, FreeRelay, Rest
<1>3. /\ FreeTun => Head(todo).op = "free" /\ Arg = "tun"
      /\ FreeRelay => Head(todo).op = "free" /\ Arg = "relay"
  BY <1>2, StepFields
<1>4. Free
  BY <1>3, ActionOf
<1>5. /\ UNCHANGED <<pc, pred, mutex, running, direct, dangling>> /\ todo' = <<>>
      /\ badfree' = (badfree \/ ~(Of(Arg) \subseteq held))
      /\ held' = held \ (Of(Arg) \cup (IF Arg = "tun" THEN {"socket"} ELSE {}))
  BY <1>2, <1>4 DEF Free
<1>6. TypeOK'
  <2>1. held' \subseteq Tunnel \cup Relay \cup {"socket"}
    BY <1>5 DEF LifecycleInv, TypeOK
  <2>2. client' \in Clients \cup {0}
    BY <1>4 DEF Free, LifecycleInv, TypeOK
  <2>3. valid' \in BOOLEAN /\ cb' \in BOOLEAN /\ has_client' \in BOOLEAN /\ badfree' \in BOOLEAN
    BY <1>4 DEF Free
  <2> QED
    BY <1>5, <2>1, <2>2, <2>3 DEF LifecycleInv, TypeOK
<1>7. \A t \in Threads : Exists(t)' <=> Exists(t)
  BY <1>5 DEF Exists
<1>8. AsFlagged("tun") /\ AsFlagged("relay") /\ Owned /\ Whole /\ Tunnel \subseteq held /\ ~running["relay"]
  BY DEF FreeTun, FreeRelay, Settled
<1>9. AsFlagged("tun")' /\ AsFlagged("relay")' /\ Owned'
  BY <1>5, <1>7, <1>8, ThreadsOf DEF AsFlagged, Owned
<1>10. CASE FreeTun
  <2>1. Of(Arg) = Tunnel /\ Arg = "tun"
    BY <1>3, <1>10 DEF Of
  <2>2. held' = {} /\ ~badfree'
    BY <1>5, <1>8, <1>10, <2>1 DEF FreeTun, LifecycleInv, TypeOK
  <2>3. ~running["tun"] /\ ~running["relay"]
    BY <1>10 DEF FreeTun
  <2>4. Whole'
    BY <1>5, <2>2, <2>3 DEF Whole
  <2>5. \A t \in Threads : ~Exists(t)'
    BY <1>7, <1>8, <2>3, ThreadsOf DEF Threads
  <2>6. ThreadsHaveState'
    BY <1>5, <2>5, ThreadsOf DEF ThreadsHaveState, LifecycleInv
  <2> QED
    BY <1>5, <1>6, <1>9, <2>2, <2>4, <2>6 DEF LifecycleInv, CallAtStep, Settled
<1>11. CASE FreeRelay
  <2>1. Of(Arg) = Relay /\ Arg = "relay"
    BY <1>3, <1>11 DEF Of
  <2>2. held' \cap Relay = {} /\ Tunnel \subseteq held' /\ held' \cap Tunnel = Tunnel /\ ~badfree'
    BY <1>5, <1>8, <1>11, <2>1, Disjoint DEF FreeRelay, LifecycleInv
  <2>3. Whole'
    BY <1>5, <1>8, <2>2 DEF Whole
  <2>4. ~Exists("rt")' /\ (~direct => ~Exists("recv")')
    BY <1>7, <1>8, ThreadsOf DEF Owned
  <2>5. ThreadsHaveState'
    BY <1>5, <1>7, <2>2, <2>4, ThreadsOf DEF ThreadsHaveState, LifecycleInv
  <2> QED
    BY <1>5, <1>6, <1>9, <2>2, <2>3, <2>5 DEF LifecycleInv, CallAtStep, Settled
<1> QED
  BY <1>10, <1>11

\* wg_relay_stop: its check.
LEMMA StopRelayStep ==
  ASSUME LifecycleInv, NEW k \in AfterRelayStop, StopRelay(k), AppStep
  PROVE  LifecycleInv'
<1>1. k \in Seq(AnyStep) /\ Step("stop", "relay") \in AnyStep
  BY AfterStops, StepsAreSteps DEF Ops, Args
<1>2. /\ todo # <<>> /\ Head(todo) = Step("stop", "relay") /\ Rest = k
      /\ Settled /\ Tunnel \cup Relay \subseteq held
  BY <1>1, OneThen DEF StopRelay, Rest
<1>3. Head(todo).op = "stop" /\ Arg = "relay"
  BY <1>2, StepFields
<1>4. StopCheck
  BY <1>3, ActionOf
<1>5. /\ TypeOK' /\ ~badfree' /\ ThreadsHaveState' /\ UNCHANGED <<held, direct, running>>
      /\ \A t \in Threads : Exists(t)' <=> Exists(t)
  BY <1>3, <1>4, QuietStep
<1>6. Settled' /\ Whole' /\ AsFlagged("tun")'
  BY <1>2, <1>5, SameFlags DEF Settled
<1>7. CASE running["relay"]
  <2>1. todo' = From(StopSteps("relay"), 1) \o k
    BY <1>2, <1>3, <1>4, <1>7, StopStepsIs, FromEnds DEF StopCheck
  <2>2. Exists("rt")
    BY <1>2, <1>7, ThreadsOf DEF Settled
  <2>3. StopRelayAt(1, k)'
    BY <1>2, <1>5, <1>6, <1>7, <2>1, <2>2, ThreadsOf DEF StopRelayAt
  <2> QED
    BY SMT, <1>5, <2>3 DEF LifecycleInv, CallAtStep
<1>8. CASE ~running["relay"]
  <2>1. todo' = k
    BY <1>2, <1>3, <1>4, <1>8 DEF StopCheck
  <2>2. CASE k = <<>>
    BY <1>5, <1>6, <2>1, <2>2 DEF LifecycleInv, CallAtStep
  <2>3. CASE k = <<Step("free", "relay")>>
    <3>1. FreeRelay'
      BY <1>2, <1>5, <1>6, <1>8, <2>1, <2>3 DEF FreeRelay
    <3> QED
      BY <1>5, <3>1 DEF LifecycleInv, CallAtStep
  <2> QED
    BY <2>2, <2>3 DEF AfterRelayStop
<1> QED
  BY <1>7, <1>8

\* After the join the relay's stop goes on with that of the tunnel.
LEMMA ThenStopTun ==
  ASSUME NEW k \in AfterRelayStop
  PROVE  \E m \in AfterStop :
           /\ From(StopSteps("relay"), 4) \o k = <<Step("stop", "tun")>> \o m
           /\ m \in {<<Step("stopped", "relay")>>, <<Step("stopped", "relay"), Step("free", "relay")>>}
<1> DEFINE p == StopSteps("relay")
           x == Step("stop", "tun")
           y == Step("stopped", "relay")
<1>1. /\ p \in Seq(AnyStep) /\ Len(p) = 5 /\ p[4] = x /\ p[5] = y
      /\ x \in AnyStep /\ y \in AnyStep /\ k \in Seq(AnyStep)
  BY StopStepsIs, AfterStops, StepsAreSteps DEF Ops, Args
<1> HIDE DEF p, x, y
<1>0. p \in Seq(AnyStep) /\ 4 \in 1 .. Len(p) /\ 5 \in 1 .. Len(p)
  BY SMT, <1>1
<1>2. /\ From(p, 4) \in Seq(AnyStep) /\ From(p, 4) # <<>> /\ Head(From(p, 4)) = x
      /\ Tail(From(p, 4)) = From(p, 4 + 1)
  <2>1. /\ From(p, 4) \in Seq(AnyStep) /\ From(p, 4) # <<>> /\ Head(From(p, 4)) = p[4]
        /\ Tail(From(p, 4)) = From(p, 4 + 1)
    BY <1>0, FromStep
  <2> QED
    BY <1>1, <2>1
<1>3. /\ From(p, 5) \in Seq(AnyStep) /\ From(p, 5) # <<>> /\ Head(From(p, 5)) = y
      /\ Tail(From(p, 5)) = From(p, 5 + 1)
  <2>1. /\ From(p, 5) \in Seq(AnyStep) /\ From(p, 5) # <<>> /\ Head(From(p, 5)) = p[5]
        /\ Tail(From(p, 5)) = From(p, 5 + 1)
    BY <1>0, FromStep
  <2> QED
    BY <1>1, <2>1
<1>4. From(p, 5 + 1) = <<>>
  <2>1. From(p, Len(p) + 1) = <<>>
    BY <1>1, FromEnds
  <2>2. Len(p) = 5
    BY <1>1
  <2> QED
    BY <2>1, <2>2
<1>5. 4 + 1 = 5
  BY SMT
<1>6. ASSUME NEW s \in Seq(AnyStep), s # <<>>
      PROVE  s = <<Head(s)>> \o Tail(s)
  <2> DEFINE h == <<Head(s)>>
             t == Tail(s)
             c == h \o t
  <2>1. /\ t \in Seq(AnyStep) /\ Len(t) = Len(s) - 1 /\ Len(s) \in Nat /\ Len(s) >= 1
        /\ \A i \in 1 .. Len(s) - 1 : t[i] = s[i + 1]
    BY SMT, <1>6, HeadTailProperties, LenProperties, EmptySeq
  <2>2. h \in Seq(AnyStep) /\ Len(h) = 1 /\ h[1] = s[1]
    BY SMT, <1>6, <2>1
  <2> HIDE DEF h, t
  <2>3. /\ c \in Seq(AnyStep) /\ Len(c) = Len(h) + Len(t)
        /\ \A i \in 1 .. Len(h) + Len(t) : c[i] = IF i <= Len(h) THEN h[i] ELSE t[i - Len(h)]
    <3>1. h \in Seq(AnyStep) /\ t \in Seq(AnyStep)
      BY <2>1, <2>2
    <3> QED
      BY <3>1, ConcatProperties
  <2> HIDE DEF c
  <2>4. Len(h) = 1 /\ Len(t) = Len(s) - 1 /\ Len(s) \in Nat
    BY <2>1, <2>2
  <2>5. Len(c) = Len(s) /\ \A i \in 1 .. Len(s) : c[i] = IF i <= 1 THEN h[i] ELSE t[i - 1]
    BY SMT, <2>3, <2>4
  <2>6. \A i \in 1 .. Len(s) : c[i] = s[i]
    <3> TAKE i \in 1 .. Len(s)
    <3>1. CASE i = 1
      BY SMT, <2>2, <2>5, <3>1
    <3>2. CASE i # 1
      <4>1. i - 1 \in 1 .. Len(s) - 1 /\ (i - 1) + 1 = i /\ ~(i <= 1)
        BY SMT, <2>4, <3>2
      <4>2. t[i - 1] = s[(i - 1) + 1]
        BY <2>1, <4>1
      <4> QED
        BY <2>5, <4>1, <4>2
    <3> QED
      BY <3>1, <3>2
  <2>7. s = c
    BY <2>3, <2>5, <2>6, SeqEqual
  <2> QED
    BY <2>7 DEF c, h, t
<1>7. From(p, 5) = <<y>>
  <2>1. From(p, 5) = <<y>> \o <<>>
    BY <1>3, <1>4, <1>6
  <2>2. <<y>> \in Seq(AnyStep)
    BY SMT, <1>1
  <2> QED
    BY <2>1, <2>2, ConcatEmptySeq
<1>8. From(p, 4) = <<x>> \o <<y>>
  BY <1>2, <1>5, <1>6, <1>7
<1>9. From(p, 4) \o k = <<x>> \o (<<y>> \o k)
  <2> DEFINE a == <<x>>
             b == <<y>>
  <2>1. a \in Seq(AnyStep) /\ b \in Seq(AnyStep) /\ k \in Seq(AnyStep)
    BY SMT, <1>1
  <2>2. From(p, 4) = a \o b
    BY <1>8
  <2> HIDE DEF a, b
  <2>3. (a \o b) \o k = a \o (b \o k)
    BY SMTT(30), <2>1, ConcatAssociative
  <2>4. From(p, 4) \o k = a \o (b \o k)
    BY <2>2, <2>3
  <2> QED
    BY <2>4 DEF a, b
<1>10. <<y>> \o k \in {<<y>>, <<y, Step("free", "relay")>>} /\ <<y>> \o k \in AfterStop
  BY AfterStops DEF y, AfterRelayStop, AfterStop
<1> QED
  BY <1>9, <1>10 DEF p, x, y

\* wg_relay_stop of a relay that runs, up to the join of its thread.
LEMMA StopRelayAtStep ==
  ASSUME LifecycleInv, NEW k \in AfterRelayStop, NEW i \in 1 .. 3, StopRelayAt(i, k), AppStep
  PROVE  LifecycleInv'
<1> DEFINE p == StopSteps("relay")
<1>1. k \in Seq(AnyStep) /\ p \in Seq(AnyStep) /\ Len(p) = 5
  BY AfterStops, StopStepsIs
<1>2. p[1] = Step("signal", "relay") /\ p[2] = Step("broadcast", "relay") /\ p[3] = Step("join", "rt")
  BY StopStepsIs
<1>3. /\ todo = From(p, i) \o k /\ Whole /\ Tunnel \subseteq held /\ Relay \subseteq held
      /\ AsFlagged("tun") /\ running["relay"] /\ Exists("rt")
  BY DEF StopRelayAt
<1>4. ASSUME NEW j \in 1 .. 3, todo' = From(p, j) \o k, TypeOK', ~badfree', ThreadsHaveState',
             Whole', Tunnel \cup Relay \subseteq held', AsFlagged("tun")', running'["relay"], Exists("rt")'
      PROVE  LifecycleInv'
  <2>1. StopRelayAt(j, k)'
    BY <1>4 DEF StopRelayAt
  <2> QED
    BY <1>4, <2>1 DEF LifecycleInv, CallAtStep
<1>5. ASSUME todo' = From(p, 4) \o k, TypeOK', ~badfree', ThreadsHaveState', Whole',
             Tunnel \subseteq held', AsFlagged("tun")', running'["relay"], ~Exists("rt")'
      PROVE  LifecycleInv'
  <2>1. PICK m \in AfterStop :
          /\ From(p, 4) \o k = <<Step("stop", "tun")>> \o m
          /\ m \in {<<Step("stopped", "relay")>>, <<Step("stopped", "relay"), Step("free", "relay")>>}
    BY ThenStopTun
  <2>2. RelayDuringStop(m)'
    BY <1>5, <2>1, AfterStopsDiffer DEF RelayDuringStop
  <2>3. StopTun(m)'
    BY <1>5, <2>1, <2>2 DEF StopTun
  <2> QED
    BY <1>5, <2>3 DEF LifecycleInv, CallAtStep
<1> HIDE DEF p
<1>6. todo # <<>> /\ Head(todo) = p[i] /\ Rest = From(p, i + 1) \o k
  <2>1. /\ From(p, i) \in Seq(AnyStep) /\ From(p, i) # <<>>
        /\ Head(From(p, i)) = p[i] /\ Tail(From(p, i)) = From(p, i + 1)
    <3>1. i \in 1 .. Len(p)
      BY SMT, <1>1
    <3> QED
      BY <1>1, <3>1, FromStep
  <2> DEFINE q == From(p, i)
  <2> HIDE DEF q
  <2>2. q \o k # <<>> /\ Head(q \o k) = Head(q) /\ Tail(q \o k) = Tail(q) \o k
    BY <1>1, <2>1, HeadTailThen DEF q
  <2> QED
    BY <1>3, <2>1, <2>2 DEF Rest, q
<1>7. CASE i = 1 \/ i = 2
  <2>1. Head(todo).op \in {"signal", "broadcast"}
    BY <1>2, <1>6, <1>7, StepFields
  <2>2. SignalPred \/ Broadcast
    BY <2>1, ActionOf
  <2>3. /\ TypeOK' /\ ~badfree' /\ ThreadsHaveState' /\ UNCHANGED <<held, direct, running>>
        /\ \A t \in Threads : Exists(t)' <=> Exists(t)
    BY <2>1, <2>2, QuietStep
  <2>4. Whole' /\ AsFlagged("tun")' /\ Exists("rt")'
    BY <1>3, <2>3, SameFlags, ThreadsOf
  <2>5. todo' = From(p, i + 1) \o k /\ i + 1 \in 1 .. 3
    BY SMT, <1>6, <1>7, <2>2 DEF SignalPred, Broadcast
  <2> QED
    BY <1>3, <1>4, <2>3, <2>4, <2>5
<1>8. CASE i = 3
  <2>1. Head(todo).op = "join" /\ Arg = "rt"
    BY <1>2, <1>6, <1>8, StepFields
  <2>2. Join
    BY <2>1, ActionOf
  <2>3. TypeOK' /\ ~badfree' /\ ThreadsHaveState' /\ UNCHANGED <<held, direct, running>>
    BY <2>1, <2>2, QuietStep, ThreadsOf
  <2>4. todo' = From(p, 4) \o k /\ \A t \in Threads : Exists(t)' <=> Exists(t) /\ t # "rt"
    BY SMT, <1>6, <1>8, <2>1, <2>2, JoinStep, ThreadsOf
  <2>5. Whole' /\ AsFlagged("tun")' /\ ~Exists("rt")'
    BY <1>3, <2>3, <2>4, ThreadsOf DEF Whole, AsFlagged, CondOf, Threads
  <2> QED
    BY <1>3, <1>5, <2>3, <2>4, <2>5
<1> QED
  <2>1. i = 1 \/ i = 2 \/ i = 3
    BY SMT
  <2> QED
    BY <2>1, <1>7, <1>8

\* The end of wg_relay_stop.
LEMMA RelayStoppedStep ==
  ASSUME LifecycleInv, NEW k \in AfterRelayStop, RelayStopped(k), AppStep
  PROVE  LifecycleInv'
<1>1. k \in Seq(AnyStep) /\ Step("stopped", "relay") \in AnyStep
  BY AfterStops, StepsAreSteps DEF Ops, Args
<1>2. /\ todo # <<>> /\ Head(todo) = Step("stopped", "relay") /\ Rest = k
      /\ Whole /\ Tunnel \cup Relay \subseteq held /\ AsFlagged("tun")
      /\ ~Exists("rt") /\ ~running["tun"]
  BY <1>1, OneThen DEF RelayStopped, Rest
<1>3. Head(todo).op = "stopped" /\ Arg = "relay"
  BY <1>2, StepFields
<1>4. SetRunning
  BY <1>3, ActionOf
<1>5. /\ TypeOK' /\ ~badfree' /\ ThreadsHaveState' /\ UNCHANGED <<held, direct>>
      /\ \A t \in Threads : Exists(t)' <=> Exists(t)
  BY <1>3, <1>4, QuietStep
<1>6. ~running'["tun"] /\ ~running'["relay"] /\ todo' = k
  BY <1>2, <1>3, <1>4, RunningStep, ThreadsOf
<1>7. Settled'
  BY <1>2, <1>5, <1>6, ThreadsOf DEF Settled, Whole, AsFlagged, CondOf, Threads, Owned
<1>8. CASE k = <<>>
  BY <1>5, <1>6, <1>7, <1>8 DEF LifecycleInv, CallAtStep
<1>9. CASE k = <<Step("free", "relay")>>
  <2>1. FreeRelay'
    BY <1>2, <1>5, <1>6, <1>7, <1>9 DEF FreeRelay
  <2> QED
    BY <1>5, <2>1 DEF LifecycleInv, CallAtStep
<1> QED
  BY <1>8, <1>9 DEF AfterRelayStop

\* A new call, between two calls.
LEMMA CallStep ==
  ASSUME LifecycleInv, todo = <<>>, Settled, Call
  PROVE  LifecycleInv'
<1>1. UNCHANGED <<held, pc, pred, mutex, running, valid, cb, client, has_client, dangling, badfree>>
  BY DEF Call
<1>2. direct' = (direct \/ todo' = WgStart)
  BY DEF Call
<1>3. TypeOK'
  BY <1>1, <1>2 DEF LifecycleInv, TypeOK
<1>4. \A t \in Threads : Exists(t)' <=> Exists(t)
  BY <1>1 DEF Exists
<1>5. ThreadsHaveState'
  BY <1>1, <1>2, <1>4, ThreadsOf DEF LifecycleInv, ThreadsHaveState
<1>6. Settled' /\ Whole' /\ AsFlagged("tun")' /\ AsFlagged("relay")' /\ Owned'
  BY <1>1, <1>2, <1>4, ThreadsOf DEF Settled, Whole, AsFlagged, Owned
<1>7. /\ "tun" \in held => Tunnel \subseteq held
      /\ "relay" \in held => Relay \subseteq held
      /\ "relay" \notin held => held \cap Relay = {} /\ ~running["relay"]
      /\ "tun" \notin held => held = {} /\ ~running["tun"] /\ ~running["relay"]
  BY Disjoint DEF Settled, Whole
<1>8. CASE "tun" \notin held /\ todo' = WgInit
  <2>1. todo' = From(WgInit, 1)
    BY <1>8, WgInitIs, FromEnds
  <2>2. \A c \in Conds : ~running'[c] /\ AsFlagged(c)'
    BY <1>1, <1>6, <1>7, <1>8 DEF Conds
  <2>3. held' = WgInit[1].unwind
    BY <1>1, <1>7, <1>8, WgInitIs
  <2>4. InitAt(1)'
    BY <2>1, <2>2, <2>3 DEF InitAt
  <2> QED
    BY SMT, <1>1, <1>3, <1>5, <2>4 DEF LifecycleInv, CallAtStep
<1>9. CASE "tun" \in held /\ todo' = WgStart
  <2>1. todo' = From(WgStart, 1) /\ direct'
    BY <1>2, <1>9, WgStartIs, FromEnds
  <2>2. Starting(1)'
    BY <1>6 DEF Starting
  <2>3. StartAt(1)'
    BY <1>1, <1>6, <1>7, <1>9, <2>1, <2>2 DEF StartAt
  <2> QED
    BY SMT, <1>1, <1>3, <1>5, <2>3 DEF LifecycleInv, CallAtStep
<1>10. ASSUME NEW k \in {<<>>, <<Step("free", "tun")>>}, todo' = <<Step("stop", "tun")>> \o k,
              "tun" \in held, k # <<>> => "relay" \notin held
       PROVE  LifecycleInv'
  <2>1. RelayDuringStop(k)'
    BY <1>1, <1>6, <1>7, <1>10, AfterStopsDiffer DEF RelayDuringStop
  <2>2. StopTun(k)'
    BY <1>1, <1>6, <1>7, <1>10, <2>1 DEF StopTun
  <2>3. k \in AfterStop
    BY DEF AfterStop
  <2> QED
    BY <1>1, <1>3, <1>5, <2>2, <2>3 DEF LifecycleInv, CallAtStep
<1>11. CASE "tun" \in held /\ "relay" \notin held /\ todo' = WgRelayCreate
  <2>1. todo' = From(WgRelayCreate, 1)
    BY <1>11, WgRelayCreateIs, FromEnds
  <2>2. held' \cap Relay = WgRelayCreate[1].unwind
    BY <1>1, <1>7, <1>11, WgRelayCreateIs
  <2>3. RelayCreateAt(1)'
    BY <1>1, <1>6, <1>7, <1>11, <2>1, <2>2 DEF RelayCreateAt
  <2> QED
    BY SMT, <1>1, <1>3, <1>5, <2>3 DEF LifecycleInv, CallAtStep
<1>12. CASE "tun" \in held /\ "relay" \in held /\ ~running["relay"] /\ todo' = WgRelayStart
  <2>1. todo' = From(WgRelayStart, 1)
    BY <1>12, WgRelayStartIs, FromEnds
  <2>2. ~Exists("rt")'
    BY <1>4, <1>12, ThreadsOf DEF Settled
  <2>3. RelayStartAt(1)'
    BY SMT, <1>1, <1>6, <1>7, <1>12, <2>1, <2>2 DEF RelayStartAt
  <2> QED
    BY SMT, <1>1, <1>3, <1>5, <2>3 DEF LifecycleInv, CallAtStep
<1>13. ASSUME NEW k \in AfterRelayStop, todo' = <<Step("stop", "relay")>> \o k,
              "tun" \in held, "relay" \in held
       PROVE  LifecycleInv'
  <2>1. StopRelay(k)'
    BY <1>1, <1>6, <1>7, <1>13 DEF StopRelay
  <2> QED
    BY <1>1, <1>3, <1>5, <2>1 DEF LifecycleInv, CallAtStep
<1>14. CASE "tun" \in held /\ todo' = <<Step("stop", "tun")>>
  BY <1>10, <1>14, AfterStops
<1>15. CASE "tun" \in held /\ "relay" \notin held /\ todo' = WgClose
  BY <1>10, <1>15, AfterStops
<1>16. CASE "tun" \in held /\ "relay" \in held /\ todo' \in {<<Step("stop", "relay")>>, WgRelayDestroy}
  BY <1>13, <1>16, AfterStops DEF AfterRelayStop
<1> QED
  BY <1>8, <1>9, <1>11, <1>12, <1>14, <1>15, <1>16 DEF Call

\* wg_connect and wg_add_peer, between two calls.
LEMMA ConnectStep ==
  ASSUME LifecycleInv, todo = <<>>, Settled, Connect \/ AddPeer
  PROVE  LifecycleInv'
<1>1. UNCHANGED <<todo, pc, pred, mutex, running, cb, client, has_client, direct, dangling, badfree>>
  BY DEF Connect, AddPeer
<1>2. /\ held' \in {held, held \cup {"socket"}} /\ valid' \in BOOLEAN /\ "tun" \in held
  BY DEF Connect, AddPeer, LifecycleInv, TypeOK
<1>3. TypeOK'
  BY <1>1, <1>2 DEF LifecycleInv, TypeOK
<1>4. \A t \in Threads : Exists(t)' <=> Exists(t)
  BY <1>1 DEF Exists
<1>5. ThreadsHaveState'
  BY <1>1, <1>2, <1>4, StateKept DEF LifecycleInv
<1>6. AsFlagged("tun")' /\ AsFlagged("relay")' /\ Owned'
  BY <1>1, <1>4 DEF Settled, AsFlagged, Owned
<1>7. Tunnel \subseteq held
  BY <1>2, Disjoint DEF Settled, Whole
<1>8. /\ held' \cap Tunnel = held \cap Tunnel /\ held' \cap Relay = held \cap Relay
      /\ held \subseteq held'
  BY <1>2, Disjoint
<1>9. Whole'
  BY <1>1, <1>7, <1>8 DEF Settled, Whole
<1> QED
  BY <1>1, <1>3, <1>5, <1>6, <1>9 DEF LifecycleInv, CallAtStep, Settled

\* The application is between two calls, or its call has a next step; pred is reset
\* only when the threads that look at it do not exist.
LEMMA WhereCallIs ==
  ASSUME LifecycleInv
  PROVE  \/ todo = <<>> /\ Settled
         \/ /\ todo # <<>>
            /\ Head(todo).op = "reset" =>
                 \/ Arg = "tun" /\ ~Exists("recv") /\ ~Exists("ka")
                 \/ Arg = "relay" /\ ~Exists("rt")
<1> DEFINE Goal == \/ todo = <<>> /\ Settled
                   \/ /\ todo # <<>>
                      /\ Head(todo).op = "reset" =>
                           \/ Arg = "tun" /\ ~Exists("recv") /\ ~Exists("ka")
                           \/ Arg = "relay" /\ ~Exists("rt")
<1>1. ASSUME NEW i \in 1 .. 7, InitAt(i)
      PROVE  Goal
  <2>1. todo # <<>> /\ Head(todo) = WgInit[i] /\ WgInit[i].op = "get"
    BY <1>1, WgInitIs, FromStep DEF InitAt
  <2> QED
    BY <2>1
<1>2. ASSUME NEW i \in 1 .. 5, RelayCreateAt(i)
      PROVE  Goal
  <2>1. todo # <<>> /\ Head(todo) = WgRelayCreate[i] /\ WgRelayCreate[i].op = "get"
    BY <1>2, WgRelayCreateIs, FromStep DEF RelayCreateAt
  <2> QED
    BY <2>1
<1>3. ASSUME NEW i \in 1 .. 5, StartAt(i)
      PROVE  Goal
  <2>1. todo # <<>> /\ Head(todo) = WgStart[i] /\ Starting(i)
    BY <1>3, WgStartIs, FromStep DEF StartAt
  <2>2. CASE i = 2
    <3>1. Head(todo) = Step("reset", "tun")
      BY <2>1, <2>2, WgStartIs
    <3>2. Arg = "tun"
      BY <3>1, StepFields
    <3> QED
      BY SMT, <2>1, <2>2, <3>2 DEF Starting
  <2>3. CASE i = 1 \/ i = 3 \/ i = 4 \/ i = 5
    <3>1. Head(todo).op \in {"check", "create", "running"}
      BY <2>1, <2>3, WgStartIs, StepFields
    <3> QED
      BY <2>1, <3>1
  <2>4. i = 1 \/ i = 2 \/ i = 3 \/ i = 4 \/ i = 5
    BY SMT
  <2> QED
    BY <2>2, <2>3, <2>4
<1>4. ASSUME NEW i \in 1 .. 9, RelayStartAt(i)
      PROVE  Goal
  <2>1. todo # <<>> /\ Head(todo) = WgRelayStart[i]
    BY <1>4, WgRelayStartIs, FromStep DEF RelayStartAt
  <2>2. CASE i = 3
    <3>1. Head(todo) = Step("reset", "tun")
      BY <2>1, <2>2, WgRelayStartIs
    <3>2. Arg = "tun"
      BY <3>1, StepFields
    <3>3. Starting(2)
      BY SMT, <1>4, <2>2 DEF RelayStartAt
    <3> QED
      BY SMT, <2>1, <3>2, <3>3 DEF Starting
  <2>3. CASE i = 7
    <3>1. Head(todo) = Step("reset", "relay")
      BY <2>1, <2>3, WgRelayStartIs
    <3>2. Arg = "relay"
      BY <3>1, StepFields
    <3>3. ~Exists("rt")
      BY SMT, <1>4, <2>3 DEF RelayStartAt
    <3> QED
      BY <2>1, <3>2, <3>3
  <2>4. CASE i = 1 \/ i = 2 \/ i = 4 \/ i = 5 \/ i = 6 \/ i = 8 \/ i = 9
    <3>1. Head(todo) \in {Step("callback", ""), Step("check", ""), Step("create", "recv"),
                           Step("create", "ka"), Step("create", "rt"), Step("running", "tun"),
                           Step("running", "relay")}
      BY <2>1, <2>4, WgRelayStartIs
    <3>2. Head(todo).op \in {"callback", "check", "create", "running"}
      BY <3>1, StepFields
    <3> QED
      BY <2>1, <3>2
  <2>5. i = 1 \/ i = 2 \/ i = 3 \/ i = 4 \/ i = 5 \/ i = 6 \/ i = 7 \/ i = 8 \/ i = 9
    BY SMT
  <2> QED
    BY <2>2, <2>3, <2>4, <2>5
<1>5. ASSUME NEW i \in 1 .. 3, UndoAt(i)
      PROVE  Goal
  <2>1. todo # <<>> /\ Head(todo) = Undo("ka")[i]
    BY <1>5, UndoIs, FromStep DEF UndoAt
  <2>2. i = 1 \/ i = 2 \/ i = 3
    BY SMT
  <2>3. Head(todo).op \in {"signal", "broadcast", "join"}
    BY <2>1, <2>2, UndoIs, StepFields
  <2> QED
    BY <2>1, <2>3
<1>6. ASSUME NEW k \in Seq(AnyStep), NEW op \in {"stop", "stopped"}, NEW arg \in Args,
             todo = <<Step(op, arg)>> \o k
      PROVE  Goal
  <2>1. Step(op, arg) \in AnyStep
    BY StepsAreSteps DEF Ops
  <2>2. todo # <<>> /\ Head(todo) = Step(op, arg)
    BY <1>6, <2>1, OneThen
  <2>3. Head(todo).op = op
    BY <2>2, StepFields
  <2> QED
    BY <2>2, <2>3
<1>7. ASSUME NEW k \in Seq(AnyStep), NEW c \in Conds, NEW i \in 1 .. 5,
             todo = From(StopSteps(c), i) \o k
      PROVE  Goal
  <2> DEFINE p == StopSteps(c)
  <2>1. p \in Seq(AnyStep) /\ i \in 1 .. Len(p)
    BY StopStepsIs DEF Conds
  <2>2. p[i].op \in {"signal", "broadcast", "join", "stop", "stopped"}
    <3>1. i = 1 \/ i = 2 \/ i = 3 \/ i = 4 \/ i = 5
      BY SMT
    <3> QED
      BY SMT, <3>1, StopStepsIs DEF Conds, Step
  <2>3. todo = From(p, i) \o k
    BY <1>7
  <2> HIDE DEF p
  <2>4. From(p, i) \in Seq(AnyStep) /\ From(p, i) # <<>> /\ Head(From(p, i)) = p[i]
    BY <2>1, FromStep
  <2> DEFINE q == From(p, i)
  <2> HIDE DEF q
  <2>5. q \o k # <<>> /\ Head(q \o k) = Head(q)
    BY <2>4, HeadTailThen DEF q
  <2>6. todo # <<>> /\ Head(todo) = p[i]
    BY <2>3, <2>4, <2>5 DEF q
  <2> QED
    BY <2>2, <2>6
<1>8. ASSUME FreeTun \/ FreeRelay
      PROVE  Goal
  <2>1. Step("free", "tun") \in AnyStep /\ Step("free", "relay") \in AnyStep
    BY StepsAreSteps DEF Ops, Args
  <2>2. \A x \in AnyStep : Head(<<x>>) = x /\ <<x>> # <<>>
    BY SMT
  <2>3. todo # <<>> /\ Head(todo) \in {Step("free", "tun"), Step("free", "relay")}
    BY <1>8, <2>1, <2>2 DEF FreeTun, FreeRelay
  <2>4. Head(todo).op = "free"
    BY <2>3, StepFields
  <2> QED
    BY <2>3, <2>4
<1>9. ASSUME NEW k \in AfterStop, StopTun(k) \/ \E i \in 1 .. 5 : StopTunAt(i, k)
      PROVE  Goal
  <2>1. k \in Seq(AnyStep) /\ "tun" \in Conds /\ "tun" \in Args
    BY AfterStops DEF Conds, Args
  <2>2. CASE StopTun(k)
    BY <1>6, <2>1, <2>2 DEF StopTun
  <2>3. ASSUME NEW i \in 1 .. 5, StopTunAt(i, k)
        PROVE  Goal
    BY <1>7, <2>1, <2>3 DEF StopTunAt
  <2> QED
    BY <1>9, <2>2, <2>3
<1>10. ASSUME NEW k \in AfterRelayStop,
              StopRelay(k) \/ RelayStopped(k) \/ \E i \in 1 .. 3 : StopRelayAt(i, k)
       PROVE  Goal
  <2>1. k \in Seq(AnyStep) /\ "relay" \in Conds /\ "relay" \in Args
    BY AfterStops DEF Conds, Args
  <2>2. CASE StopRelay(k) \/ RelayStopped(k)
    BY <1>6, <2>1, <2>2 DEF StopRelay, RelayStopped
  <2>3. ASSUME NEW i \in 1 .. 3, StopRelayAt(i, k)
        PROVE  Goal
    <3>1. i \in 1 .. 5
      BY SMT
    <3> QED
      BY <1>7, <2>1, <2>3, <3>1 DEF StopRelayAt
  <2> QED
    BY <1>10, <2>2, <2>3
<1> HIDE DEF Goal
<1>11. todo = <<>> /\ Settled => Goal
  BY DEF Goal
<1>12. Goal
  BY <1>1, <1>2, <1>3, <1>4, <1>5, <1>8, <1>9, <1>10, <1>11 DEF LifecycleInv, CallAtStep
<1> QED
  BY <1>12 DEF Goal

\* Every step of the application and of the threads preserves the invariant.
LEMMA LifecycleInvStep ==
  ASSUME LifecycleInv, [Next]_vars
  PROVE  LifecycleInv'
<1>1. CASE UNCHANGED vars
  <2>1. UNCHANGED <<held, todo, running, direct>> /\ \A t \in Threads : Exists(t)' <=> Exists(t)
    BY <1>1 DEF vars, Exists
  <2>2. CallAtStep'
    BY <2>1, SameCall
  <2>3. TypeOK'
    BY <1>1 DEF vars, LifecycleInv, TypeOK
  <2>4. ThreadsHaveState' /\ ~badfree'
    BY <1>1, <2>1, StateKept DEF vars, LifecycleInv
  <2> QED
    BY <2>2, <2>3, <2>4 DEF LifecycleInv
<1>2. CASE ThreadStep
  BY <1>2, ThreadsInvStep
<1>3. CASE Call \/ Connect \/ AddPeer
  <2>1. todo = <<>>
    BY <1>3 DEF Call, Connect, AddPeer
  <2>2. Settled
    BY <2>1, WhereCallIs
  <2> QED
    BY <1>3, <2>1, <2>2, CallStep, ConnectStep
<1>4. CASE AppStep
  <2>1. todo # <<>>
    BY <1>4, ActionOf
  <2> QED
    BY ZenonT(40), <1>4, <2>1, InitStep, RelayCreateStep, StartStep, RelayStartStep, UndoStep, StopTunStep,
       StopTunAtStep, StopRelayStep, StopRelayAtStep, RelayStoppedStep, FreeStep
    DEF LifecycleInv, CallAtStep
<1> QED
  BY <1>1, <1>2, <1>3, <1>4 DEF Next, ThreadStep

\* Nothing is allocated, running or under way at first.
LEMMA InitLifecycleInv ==
  Init => LifecycleInv
<1> SUFFICES ASSUME Init
             PROVE  LifecycleInv
  OBVIOUS
<1>1. TypeOK
  <2>1. {valid, cb, has_client, direct, dangling, badfree} \subseteq BOOLEAN
    BY DEF Init
  <2>2. pred \in [Conds -> BOOLEAN] /\ running \in [Conds -> BOOLEAN]
    BY DEF Init
  <2>3. /\ pc \in [Threads -> {"none", "top", "body", "sleep", "waiting", "woken", "flag",
                               "send", "exited"}]
        /\ pc["ka"] = "none"
    BY DEF Init, Threads
  <2>4. mutex = [c \in Conds |-> IF c = "tun" /\ pc["ka"] = "sleep" THEN "ka" ELSE "free"]
    BY <2>3 DEF Init
  <2> QED
    BY <2>1, <2>2, <2>3, <2>4 DEF Init, TypeOK
<1>2. \A t \in Threads : ~Exists(t)
  BY DEF Init, Exists
<1>3. ~running["tun"] /\ ~running["relay"]
  BY DEF Init, Conds
<1>4. Settled
  BY <1>2, <1>3, ThreadsOf DEF Init, Settled, Whole, Owned
<1>5. ThreadsHaveState
  BY <1>2, ThreadsOf DEF Init, ThreadsHaveState
<1> QED
  BY <1>1, <1>4, <1>5 DEF Init, LifecycleInv, CallAtStep

-----------------------------------------------------------------------------
(* The results. *)

\* At every step of every call of src/wireguard.c and src/wg_relay.c, whichever
\* allocation or thread creation fails, the resources, the threads and the flags are
\* those that LifecycleInv says for that step.
THEOREM LifecycleInvariant ==
  Spec => []LifecycleInv
<1>1. Init => LifecycleInv
  BY InitLifecycleInv
<1>2. LifecycleInv /\ [Next]_vars => LifecycleInv'
  BY LifecycleInvStep
<1> QED
  BY <1>1, <1>2, PTL DEF Spec

\* A thread that lives has the memory, locks and sockets it uses, and between calls
\* the threads that exist are those the running flags say (wg_start, wg_stop,
\* wg_relay_start and wg_relay_stop, and their paths of failure).
THEOREM ThreadsAreAccounted ==
  Spec => []ThreadsInv
<1>1. LifecycleInv => ThreadsInv
  <2> SUFFICES ASSUME LifecycleInv
               PROVE  ThreadsInv
    OBVIOUS
  <2>1. ThreadHasItsState
    BY DEF LifecycleInv, ThreadsHaveState, ThreadHasItsState, Exists
  <2>2. todo = <<>> => Settled
    BY WhereCallIs
  <2>3. ThreadsAsFlagged
    BY <2>2, ThreadsOf DEF ThreadsAsFlagged, Settled, AsFlagged, Exists, CondOf, Threads
  <2> QED
    BY <2>1, <2>3 DEF LifecycleInv, ThreadsInv
<1> QED
  BY <1>1, LifecycleInvariant, PTL

\* wg_init and wg_relay_create leave all or nothing, and nothing is released that is
\* not held.
THEOREM CreatedWholeOrNotAtAll ==
  Spec => []AllOrNothing
<1>1. LifecycleInv => AllOrNothing
  <2> SUFFICES ASSUME LifecycleInv
               PROVE  AllOrNothing
    OBVIOUS
  <2>1. todo = <<>> => Whole
    BY WhereCallIs DEF Settled
  <2>2. todo = <<>> /\ "socket" \in held => "tun" \in held
    BY <2>1, Disjoint DEF Whole
  <2> QED
    BY <2>1, <2>2 DEF LifecycleInv, AllOrNothing, Whole
<1> QED
  BY <1>1, LifecycleInvariant, PTL

\* The receive thread calls the relay's callback after wg_relay_destroy only if the
\* application called wg_start itself (recv_cb is not reset by wg_relay_stop).
THEOREM CallbackNeedsOwnStart ==
  Spec => []CallbackHasRelay
<1>1. LifecycleInv => CallbackHasRelay
  BY DEF LifecycleInv, ThreadsHaveState, CallbackHasRelay
<1> QED
  BY <1>1, LifecycleInvariant, PTL

\* wg_start and wg_relay_start reset pred only when no thread looks at it: a request
\* to stop is never withdrawn from a thread that has not seen it.
THEOREM StopIsNeverWithdrawn ==
  Spec => StopNotWithdrawn
<1>1. ASSUME LifecycleInv, [Next]_vars, NEW c \in Conds, pred[c], ~pred'[c], NEW t \in Threads,
             CondOf(t) = c
      PROVE  pc[t] = "none"
  <2>1. CASE Reset
    <3>1. todo # <<>> /\ Head(todo).op = "reset" /\ pred' = [pred EXCEPT ![Arg] = FALSE]
      BY <2>1 DEF Reset, Doing
    <3>2. Arg = c
      BY <1>1, <3>1 DEF LifecycleInv, TypeOK
    <3>3. \/ Arg = "tun" /\ ~Exists("recv") /\ ~Exists("ka")
          \/ Arg = "relay" /\ ~Exists("rt")
      BY <1>1, <3>1, WhereCallIs
    <3> QED
      BY <1>1, <3>2, <3>3 DEF Exists, CondOf, Threads
  <2>2. CASE ThreadStep
    BY <1>1, <2>2, ThreadsKeep DEF LifecycleInv
  <2>3. CASE SignalPred
    BY <1>1, <2>3 DEF SignalPred, LifecycleInv, TypeOK
  <2>4. CASE UNCHANGED pred
    BY <1>1, <2>4
  <2>5. Reset \/ ThreadStep \/ SignalPred \/ UNCHANGED pred
    BY <1>1 DEF Next, ThreadStep, Call, Connect, AddPeer, AppStep, Acquire, Free, StartCheck,
       SetCallback, Create, Broadcast, Join, StopCheck, SetRunning, vars
  <2> QED
    BY <2>1, <2>2, <2>3, <2>4, <2>5
<1>2. LifecycleInv /\ [Next]_vars =>
        [\A c \in Conds : pred[c] /\ ~pred'[c] =>
           \A t \in Threads : CondOf(t) = c => pc[t] = "none"]_vars
  BY <1>1
<1> QED
  BY <1>2, LifecycleInvariant, PTL DEF Spec, StopNotWithdrawn
=============================================================================
