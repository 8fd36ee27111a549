------------------------- MODULE ReplayWindow_proof -------------------------
(***************************************************************************)
(* For every word width, number of words and counter range: an accepted    *)
(* counter keeps its bit until its word is reused, so a counter accepted   *)
(* twice always belongs to a reused word.                                  *)
(***************************************************************************)
EXTENDS ReplayWindow, TLAPS

USE ZenonT(30)

\* A counter is its word times the word width plus its bit.
LEMMA WordAndBit ==
  ASSUME NEW c \in Nat
  PROVE  /\ Word(c) \in Nat
         /\ Bit(c) \in BitIndex
         /\ c = BITS_PER_WORD * Word(c) + Bit(c)
BY SMT, WordsAssumption DEF Word, Bit, BitIndex

\* A larger counter is never in an earlier word.
LEMMA WordMonotone ==
  ASSUME NEW c \in Nat, NEW d \in Nat, c <= d
  PROVE  Word(c) <= Word(d)
<1> SUFFICES ASSUME Word(d) < Word(c)
             PROVE  FALSE
  BY SMT, WordAndBit
<1>1. Word(c) >= Word(d) + 1
  BY SMT, WordAndBit
<1>2. BITS_PER_WORD * Word(c) >= BITS_PER_WORD * (Word(d) + 1)
  BY SMT, <1>1, WordAndBit, WordsAssumption
<1>3. BITS_PER_WORD * (Word(d) + 1) = BITS_PER_WORD * Word(d) + BITS_PER_WORD
  BY SMT, WordAndBit, WordsAssumption
<1> QED
  BY SMT, <1>2, <1>3, WordAndBit, WordsAssumption DEF BitIndex

\* The bitmap index of a word is an index.
LEMMA IndexType ==
  ASSUME NEW w \in Nat
  PROVE  Index(w) \in WordIndex
BY SMT, WordsAssumption DEF Index, WordIndex

\* Fewer than WG_COUNTER_WORDS consecutive words use distinct indices.
LEMMA IndexDistinct ==
  ASSUME NEW v \in Nat, NEW w \in Nat, v < w, w < v + WG_COUNTER_WORDS
  PROVE  Index(v) # Index(w)
<1> DEFINE N == WG_COUNTER_WORDS
<1> DEFINE p == v \div N
<1> DEFINE q == w \div N
<1>1. p \in Nat /\ q \in Nat /\ v % N \in 0..(N-1) /\ w % N \in 0..(N-1)
  BY SMT, WordsAssumption
<1>2. v = N * p + (v % N) /\ w = N * q + (w % N)
  BY SMT, WordsAssumption
<1> HIDE DEF p, q
<1> SUFFICES ASSUME v % N = w % N
             PROVE  FALSE
  BY DEF Index
<1>3. N * q - N * p > 0 /\ N * q - N * p < N
  BY SMT, <1>1, <1>2, WordsAssumption
<1>4. CASE q <= p
  <2>1. N * q <= N * p
    BY SMT, <1>1, <1>4, WordsAssumption
  <2> QED
    BY SMT, <2>1, <1>1, <1>3, WordsAssumption
<1>5. CASE q >= p + 1
  <2>1. N * q >= N * (p + 1)
    BY SMT, <1>1, <1>5, WordsAssumption
  <2>2. N * (p + 1) = N * p + N
    BY SMT, <1>1, WordsAssumption
  <2> QED
    BY SMT, <2>1, <2>2, <1>1, <1>3, WordsAssumption
<1> QED
  BY SMT, <1>1, <1>4, <1>5

\* A counter is determined by its word and its bit.
LEMMA WordBitUnique ==
  ASSUME NEW c \in Nat, NEW w \in Nat, NEW b \in BitIndex,
         c = BITS_PER_WORD * w + b
  PROVE  Word(c) = w /\ Bit(c) = b
<1>1. CASE Word(c) < w
  <2>1. BITS_PER_WORD * w >= BITS_PER_WORD * (Word(c) + 1)
    BY SMT, <1>1, WordAndBit, WordsAssumption
  <2>2. BITS_PER_WORD * (Word(c) + 1) = BITS_PER_WORD * Word(c) + BITS_PER_WORD
    BY SMT, WordAndBit, WordsAssumption
  <2> QED
    BY SMT, <2>1, <2>2, WordAndBit, WordsAssumption DEF BitIndex
<1>2. CASE Word(c) > w
  <2>1. BITS_PER_WORD * Word(c) >= BITS_PER_WORD * (w + 1)
    BY SMT, <1>2, WordAndBit, WordsAssumption
  <2>2. BITS_PER_WORD * (w + 1) = BITS_PER_WORD * w + BITS_PER_WORD
    BY SMT, WordsAssumption
  <2> QED
    BY SMT, <2>1, <2>2, WordAndBit, WordsAssumption DEF BitIndex
<1>3. CASE Word(c) = w
  BY SMT, <1>3, WordAndBit, WordsAssumption DEF BitIndex
<1> QED
  BY SMT, <1>1, <1>2, <1>3, WordAndBit

\* The counter one window later has the same bit, WG_COUNTER_WORDS words on,
\* and the same bitmap index.
LEMMA WindowShift ==
  ASSUME NEW c \in Nat
  PROVE  /\ c + WG_COUNTER_WINDOW_SIZE \in Nat
         /\ Word(c + WG_COUNTER_WINDOW_SIZE) = Word(c) + WG_COUNTER_WORDS
         /\ Bit(c + WG_COUNTER_WINDOW_SIZE) = Bit(c)
<1>1. c + WG_COUNTER_WINDOW_SIZE
        = BITS_PER_WORD * (Word(c) + WG_COUNTER_WORDS) + Bit(c)
  <2>1. \A b, m, n \in Nat : b * (m + n) = b * m + n * b
    BY SMT
  <2>2. BITS_PER_WORD * (Word(c) + WG_COUNTER_WORDS)
          = BITS_PER_WORD * Word(c) + WG_COUNTER_WINDOW_SIZE
    BY <2>1, WordAndBit, WordsAssumption DEF WG_COUNTER_WINDOW_SIZE
  <2>3. WG_COUNTER_WINDOW_SIZE \in Nat /\ BITS_PER_WORD * Word(c) \in Nat
    BY SMT, WordAndBit, WordsAssumption DEF WG_COUNTER_WINDOW_SIZE
  <2> QED
    BY SMT, <2>2, <2>3, WordAndBit DEF BitIndex
<1>2. c + WG_COUNTER_WINDOW_SIZE \in Nat
  BY SMT, WordsAssumption DEF WG_COUNTER_WINDOW_SIZE
<1>3. Word(c) + WG_COUNTER_WORDS \in Nat /\ Bit(c) \in BitIndex
  BY SMT, WordAndBit, WordsAssumption
<1> QED
  BY <1>1, <1>2, <1>3, WordBitUnique

\* A word and the word WG_COUNTER_WORDS later share their place in the bitmap.
LEMMA IndexShift ==
  ASSUME NEW w \in Nat
  PROVE  Index(w + WG_COUNTER_WORDS) = Index(w)
<1> DEFINE N == WG_COUNTER_WORDS
<1> DEFINE p == w \div N
<1> DEFINE q == (w + N) \div N
<1>1. p \in Nat /\ q \in Nat /\ w % N \in 0..(N-1) /\ (w + N) % N \in 0..(N-1)
  BY SMT, WordsAssumption
<1>2. w = N * p + (w % N) /\ w + N = N * q + ((w + N) % N)
  BY SMT, WordsAssumption
<1> HIDE DEF p, q
<1>3. N * (p + 1) = N * p + N
  BY SMT, <1>1, WordsAssumption
<1>4. CASE q < p + 1
  <2>1. N * (q + 1) <= N * (p + 1) /\ N * (q + 1) = N * q + N
    BY SMT, <1>1, <1>4, WordsAssumption
  <2> QED
    BY SMT, <2>1, <1>1, <1>2, <1>3, WordsAssumption
<1>5. CASE q > p + 1
  <2>1. N * q >= N * (p + 2) /\ N * (p + 2) = N * p + N + N
    BY SMT, <1>1, <1>5, WordsAssumption
  <2> QED
    BY SMT, <2>1, <1>1, <1>2, <1>3, WordsAssumption
<1>6. CASE q = p + 1
  BY SMT, <1>1, <1>2, <1>3, <1>6, WordsAssumption DEF Index
<1> QED
  BY SMT, <1>1, <1>4, <1>5, <1>6

-----------------------------------------------------------------------------
(* What the two state changes of wg_counter_validate do to the bitmap. *)

\* Two counters fewer than WG_COUNTER_WORDS words apart that share a bitmap
\* index and a bit are equal.
LEMMA SameBit ==
  ASSUME NEW c \in Nat, NEW d \in Nat,
         Word(c) < Word(d) + WG_COUNTER_WORDS,
         Word(d) < Word(c) + WG_COUNTER_WORDS,
         Index(Word(c)) = Index(Word(d)), Bit(c) = Bit(d)
  PROVE  c = d
<1>1. Word(c) \in Nat /\ Word(d) \in Nat
  BY WordAndBit
<1>2. ~(Word(c) < Word(d)) /\ ~(Word(d) < Word(c))
  BY <1>1, IndexDistinct
<1>3. Word(c) = Word(d)
  BY SMT, <1>1, <1>2
<1> QED
  BY <1>3, WordAndBit

\* The window size and the reject limit are naturals.
LEMMA LimitType == WG_REJECT_AFTER_MESSAGES \in Nat /\ WG_COUNTER_WINDOW_SIZE \in Nat
<1>1. WG_COUNTER_WINDOW_SIZE \in Nat
  BY SMT, WordsAssumption DEF WG_COUNTER_WINDOW_SIZE
<1> QED
  BY SMT, <1>1, CounterAssumption DEF WG_REJECT_AFTER_MESSAGES

\* Advance keeps the type, moves the mark to the larger of the two counters,
\* keeps the bits of the words still live and zeroes the words it enters.
LEMMA AdvanceBits ==
  ASSUME NEW rc \in WgReplayCounter,
         NEW c \in Nat, c < WG_REJECT_AFTER_MESSAGES
  PROVE  LET m == Advance(rc, c) IN
         /\ m \in WgReplayCounter
         /\ m.counter >= rc.counter /\ m.counter >= c
         /\ m.counter = rc.counter \/ m.counter = c
         /\ \A d \in Nat :
              Word(d) <= Word(rc.counter) /\ ~Wrapped(m, d)
                => (IsSet(m, d) <=> IsSet(rc, d))
         /\ \A d \in Nat :
              Word(rc.counter) < Word(d) /\ Word(d) <= Word(m.counter)
                => ~IsSet(m, d)
<1>1. CASE c <= rc.counter
  <2>1. Advance(rc, c) = rc
    BY SMT, <1>1, LimitType DEF Advance, WgReplayCounter
  <2>2. rc.counter \in Nat /\ Word(rc.counter) \in Nat
    BY SMT, LimitType, WordAndBit DEF WgReplayCounter
  <2>3. \A d \in Nat : Word(d) \in Nat
    BY WordAndBit
  <2> QED
    BY SMT, <1>1, <2>1, <2>2, <2>3
<1>2. CASE c > rc.counter
  <2> DEFINE old == Word(rc.counter)
  <2> DEFINE new == Word(c)
  <2> DEFINE m == Advance(rc, c)
  <2>1. rc.counter \in Nat /\ rc.backtrack \in [WordIndex -> SUBSET BitIndex]
    BY SMT, LimitType DEF WgReplayCounter
  <2>2. m = [counter   |-> c,
             backtrack |-> [i \in WordIndex |->
                              IF i \in ClearedWords(old, new)
                              THEN {} ELSE rc.backtrack[i]]]
    BY <1>2 DEF Advance
  <2>3. m \in WgReplayCounter /\ m.counter = c
    BY SMT, <2>1, <2>2, LimitType DEF WgReplayCounter
  <2>4. old \in Nat /\ new \in Nat /\ old <= new
    BY SMT, <1>2, <2>1, WordAndBit, WordMonotone
  <2>5. \A d \in Nat : /\ Word(d) \in Nat
                        /\ Index(Word(d)) \in WordIndex
                        /\ Bit(d) \in BitIndex
    BY WordAndBit, IndexType
  <2>6. \A d \in Nat :
          IsSet(m, d) <=> /\ Index(Word(d)) \notin ClearedWords(old, new)
                          /\ IsSet(rc, d)
    BY SMT, <2>2, <2>5 DEF IsSet
  <2> HIDE DEF old, new, m
  <2>7. ASSUME NEW d \in Nat, Word(d) <= old, ~Wrapped(m, d)
        PROVE  Index(Word(d)) \notin ClearedWords(old, new)
    <3>1. new < Word(d) + WG_COUNTER_WORDS
      BY SMT, <2>3, <2>4, <2>5, <2>7, WordsAssumption DEF Wrapped, new
    <3>2. new - old < WG_COUNTER_WORDS
      BY SMT, <2>4, <2>5, <2>7, <3>1, WordsAssumption
    <3>3. ASSUME NEW w \in (old + 1) .. new
          PROVE  Index(w) # Index(Word(d))
      <4>1. w \in Nat /\ Word(d) < w /\ w < Word(d) + WG_COUNTER_WORDS
        BY SMT, <2>4, <2>5, <2>7, <3>1, WordsAssumption
      <4> QED
        BY <4>1, <2>5, IndexDistinct
    <3> QED
      BY SMT, <2>4, <3>2, <3>3, WordsAssumption DEF ClearedWords
  <2>8. ASSUME NEW d \in Nat, old < Word(d), Word(d) <= new
        PROVE  Index(Word(d)) \in ClearedWords(old, new)
    BY SMT, <2>4, <2>5, <2>8 DEF ClearedWords
  <2>9. c \in Nat /\ m.counter >= rc.counter /\ m.counter >= c
    BY SMT, <1>2, <2>1, <2>3
  <2>10. \A d \in Nat : Word(d) <= old /\ ~Wrapped(m, d)
                        => (IsSet(m, d) <=> IsSet(rc, d))
    BY <2>6, <2>7
  <2>11. \A d \in Nat : old < Word(d) /\ Word(d) <= Word(m.counter)
                        => ~IsSet(m, d)
    BY <2>3, <2>6, <2>8 DEF new
  <2> QED
    BY <2>3, <2>9, <2>10, <2>11 DEF old, m
<1> QED
  BY SMT, <1>1, <1>2, LimitType DEF WgReplayCounter

\* SetBit keeps the type and the mark, and sets exactly one bit.
LEMMA SetBitBits ==
  ASSUME NEW rc \in WgReplayCounter, NEW c \in Nat
  PROVE  LET s == SetBit(rc, c) IN
         /\ s \in WgReplayCounter
         /\ s.counter = rc.counter
         /\ \A d \in Nat :
              IsSet(s, d) <=> \/ IsSet(rc, d)
                             \/ /\ Index(Word(d)) = Index(Word(c))
                                /\ Bit(d) = Bit(c)
<1>1. \A d \in Nat : Index(Word(d)) \in WordIndex /\ Bit(d) \in BitIndex
  BY WordAndBit, IndexType
<1> QED
  BY <1>1 DEF SetBit, IsSet, WgReplayCounter

-----------------------------------------------------------------------------
(* The inductive invariant. *)

\* A wiped window satisfies the invariant.
LEMMA InitInd == Init => IndInv
<1> SUFFICES ASSUME Init
             PROVE  IndInv
  OBVIOUS
<1>1. WG_REJECT_AFTER_MESSAGES \in Nat \ {0}
  BY SMT, LimitType, CounterAssumption DEF WG_REJECT_AFTER_MESSAGES
<1>2. TypeOK
  BY SMT, <1>1 DEF Init, TypeOK, WipedReplay, WgReplayCounter
<1>3. \A c \in Counter : ~IsSet(replay, c)
  BY SMT, WordAndBit, IndexType DEF Init, WipedReplay, IsSet, Counter
<1> QED
  BY <1>2, <1>3 DEF Init, IndInv, AcceptedStaysSet, SetBitsExplained,
                    ReplaysOnlyInWrappedWord, FreshRefusedOnlyByAlias

\* The mark moves forward, so a wrapped counter stays wrapped.
LEMMA WrappedStays ==
  ASSUME NEW rc \in WgReplayCounter, NEW m \in WgReplayCounter,
         m.counter >= rc.counter, NEW d \in Nat, Wrapped(rc, d)
  PROVE  Wrapped(m, d)
<1>1. rc.counter \in Nat /\ m.counter \in Nat
  BY SMT, LimitType DEF WgReplayCounter
<1>2. Word(rc.counter) <= Word(m.counter)
  BY <1>1, WordMonotone
<1>3. Word(rc.counter) \in Nat /\ Word(m.counter) \in Nat /\ Word(d) \in Nat
  BY <1>1, WordAndBit
<1> QED
  BY SMT, <1>2, <1>3, WordsAssumption DEF Wrapped

\* A wrapped counter that passes the window test shares the word of the mark:
\* the counter one window later is in the mark's word, and is live.
LEMMA AliasIsLive ==
  ASSUME NEW rc \in WgReplayCounter, NEW c \in Nat,
         Wrapped(rc, c), ~TooOld(rc, c)
  PROVE  /\ Word(c + WG_COUNTER_WINDOW_SIZE) = Word(rc.counter)
         /\ ~Wrapped(rc, c + WG_COUNTER_WINDOW_SIZE)
         /\ IsSet(rc, c + WG_COUNTER_WINDOW_SIZE) <=> IsSet(rc, c)
<1> DEFINE x == c + WG_COUNTER_WINDOW_SIZE
<1>1. rc.counter \in Nat /\ Word(rc.counter) \in Nat /\ Word(c) \in Nat
  BY SMT, LimitType, WordAndBit DEF WgReplayCounter
<1>2. x \in Nat /\ Word(x) = Word(c) + WG_COUNTER_WORDS /\ Bit(x) = Bit(c)
  BY WindowShift
<1>3. rc.counter <= x
  BY SMT, <1>1, LimitType DEF TooOld
<1> HIDE DEF x
<1>4. Word(rc.counter) <= Word(x)
  BY <1>1, <1>2, <1>3, WordMonotone
<1>5. Word(x) = Word(rc.counter)
  BY SMT, <1>1, <1>2, <1>4, WordsAssumption DEF Wrapped
<1>6. ~Wrapped(rc, x)
  BY SMT, <1>1, <1>5, WordsAssumption DEF Wrapped
<1>7. IsSet(rc, x) <=> IsSet(rc, c)
  BY <1>1, <1>2, IndexShift DEF IsSet
<1> QED
  BY <1>5, <1>6, <1>7 DEF x

\* One call of wg_counter_validate preserves the invariant.
LEMMA ValidateInd ==
  ASSUME IndInv, NEW c \in Counter, Validate(c)
  PROVE  IndInv'
<1> DEFINE m == Advance(replay, c)
<1> DEFINE s == SetBit(m, c)
<1>1. /\ replay \in WgReplayCounter
      /\ replay.counter \in Nat
      /\ c \in Nat
      /\ accepted \subseteq 0 .. replay.counter
      /\ replayed \subseteq accepted
      /\ late \subseteq accepted
      /\ refused \subseteq Counter
  BY SMT, LimitType DEF IndInv, TypeOK, WgReplayCounter, Counter
<1>2. CASE c >= WG_REJECT_AFTER_MESSAGES \/ TooOld(replay, c)
  <2>1. wg_counter_validate(replay, c) = [ok |-> FALSE, rc |-> replay]
    BY <1>2 DEF wg_counter_validate
  <2>2. ~(InWindow(replay, c) /\ c < WG_REJECT_AFTER_MESSAGES)
    BY SMT, <1>1, <1>2, LimitType DEF TooOld, InWindow
  <2>3. UNCHANGED vars
    BY SMT, <2>1, <2>2 DEF Validate, vars
  <2> QED
    BY <2>3 DEF vars, IndInv, TypeOK, AcceptedStaysSet, SetBitsExplained,
                ReplaysOnlyInWrappedWord, FreshRefusedOnlyByAlias
<1>3. CASE ~(c >= WG_REJECT_AFTER_MESSAGES \/ TooOld(replay, c))
  <2>1. c < WG_REJECT_AFTER_MESSAGES /\ ~TooOld(replay, c)
    BY SMT, <1>1, <1>3, LimitType
  <2>2. /\ m \in WgReplayCounter
        /\ m.counter \in Nat
        /\ m.counter >= replay.counter /\ m.counter >= c
        /\ m.counter = replay.counter \/ m.counter = c
    BY <1>1, <2>1, AdvanceBits, LimitType DEF WgReplayCounter
  <2>3. \A d \in Nat : Word(d) <= Word(replay.counter) /\ ~Wrapped(m, d)
                        => (IsSet(m, d) <=> IsSet(replay, d))
    BY <1>1, <2>1, AdvanceBits
  <2>4. \A d \in Nat : Word(replay.counter) < Word(d) /\ Word(d) <= Word(m.counter)
                        => ~IsSet(m, d)
    BY <1>1, <2>1, AdvanceBits
  <2>5. /\ s \in WgReplayCounter
        /\ s.counter = m.counter
        /\ \A d \in Nat :
             IsSet(s, d) <=> \/ IsSet(m, d)
                            \/ /\ Index(Word(d)) = Index(Word(c))
                               /\ Bit(d) = Bit(c)
    BY <1>1, <2>2, SetBitBits
  <2>6. wg_counter_validate(replay, c) =
          IF IsSet(m, c) THEN [ok |-> FALSE, rc |-> m] ELSE [ok |-> TRUE, rc |-> s]
    BY <1>3 DEF wg_counter_validate
  <2> HIDE DEF m, s
  <2>7. \A d \in Nat : Word(d) \in Nat /\ Bit(d) \in BitIndex
    BY WordAndBit
  <2>8. \A d \in 0 .. replay.counter :
          Word(d) <= Word(replay.counter) /\ Word(replay.counter) <= Word(m.counter)
    BY SMT, <1>1, <2>2, WordMonotone
  \* The moved window, before the bit of c is set, keeps both bit invariants.
  <2>9. \A d \in accepted : ~Wrapped(m, d) => IsSet(m, d)
    BY SMT, <1>1, <2>2, <2>3, <2>8, WrappedStays DEF IndInv, AcceptedStaysSet
  <2>10. \A d \in Counter :
           (Word(d) <= Word(m.counter) /\ ~Wrapped(m, d) /\ IsSet(m, d))
             => \/ d \in accepted
                \/ \E e \in late : d = e + WG_COUNTER_WINDOW_SIZE
    <3> SUFFICES ASSUME NEW d \in Counter, Word(d) <= Word(m.counter),
                        ~Wrapped(m, d), IsSet(m, d)
                 PROVE  \/ d \in accepted
                        \/ \E e \in late : d = e + WG_COUNTER_WINDOW_SIZE
      OBVIOUS
    <3>1. d \in Nat
      BY SMT DEF Counter
    <3>2. Word(d) <= Word(replay.counter)
      BY SMT, <1>1, <2>4, <2>7, <3>1
    <3>3. IsSet(replay, d) /\ ~Wrapped(replay, d)
      BY <1>1, <2>2, <2>3, <3>1, <3>2, WrappedStays
    <3> QED
      BY <3>2, <3>3 DEF IndInv, SetBitsExplained
  <2>11. \A d \in replayed : Wrapped(m, d)
    BY SMT, <1>1, <2>2, WrappedStays DEF IndInv, ReplaysOnlyInWrappedWord
  \* A wrapped counter did not move the mark.
  <2>12. Wrapped(m, c) => m.counter = replay.counter /\ Wrapped(replay, c)
    BY SMT, <1>1, <2>2, <2>7, WordsAssumption DEF Wrapped
  <2>13. ~TooOld(m, c)
    BY SMT, <1>1, <2>1, <2>2, LimitType DEF TooOld
  <2>14. /\ c + WG_COUNTER_WINDOW_SIZE \in Counter
         /\ c + WG_COUNTER_WINDOW_SIZE \in Nat
    BY SMT, <1>1, <2>1, LimitType, CounterAssumption DEF Counter, WG_REJECT_AFTER_MESSAGES
  <2>15. Word(c) <= Word(m.counter)
    BY <1>1, <2>2, WordMonotone
  <2>16. CASE IsSet(m, c)
    <3>1. /\ replay' = m
          /\ UNCHANGED <<accepted, replayed, late>>
          /\ refused' \in {refused, refused \cup {c}}
          /\ refused' # refused => c \notin accepted /\ InWindow(replay, c)
      BY SMT, <2>6, <2>16 DEF Validate
    <3>2. TypeOK'
      BY SMT, <1>1, <2>2, <3>1 DEF TypeOK
    <3>3. ASSUME c \notin accepted, InWindow(replay, c)
          PROVE  \E d \in late : c = d + WG_COUNTER_WINDOW_SIZE
      <4>1. CASE ~Wrapped(m, c)
        BY <2>10, <2>15, <2>16, <3>3, <4>1
      <4>2. CASE Wrapped(m, c)
        <5> DEFINE x == c + WG_COUNTER_WINDOW_SIZE
        <5>1. Word(x) = Word(m.counter) /\ ~Wrapped(m, x) /\ IsSet(m, x)
          BY <1>1, <2>2, <2>13, <2>16, <4>2, AliasIsLive
        <5>2. x \in accepted \/ \E d \in late : x = d + WG_COUNTER_WINDOW_SIZE
          BY SMT, <2>2, <2>7, <2>10, <2>14, <5>1
        <5>3. x \notin accepted
          BY SMT, <1>1, <3>3, <2>14 DEF InWindow
        <5>4. \A d \in late : x = d + WG_COUNTER_WINDOW_SIZE => d = c
          BY SMT, <1>1, LimitType
        <5> QED
          BY <1>1, <3>3, <5>2, <5>3, <5>4
      <4> QED
        BY <4>1, <4>2
    <3>4. FreshRefusedOnlyByAlias'
      BY <3>1, <3>3 DEF IndInv, FreshRefusedOnlyByAlias
    <3> QED
      BY <2>9, <2>10, <2>11, <3>1, <3>2, <3>4
      DEF IndInv, AcceptedStaysSet, SetBitsExplained, ReplaysOnlyInWrappedWord
  <2>17. CASE ~IsSet(m, c)
    <3>1. /\ replay' = s
          /\ accepted' = accepted \cup {c}
          /\ replayed' = IF c \in accepted THEN replayed \cup {c} ELSE replayed
          /\ late' = IF Wrapped(replay, c) THEN late \cup {c} ELSE late
          /\ refused' = refused
      BY SMT, <2>6, <2>17 DEF Validate
    <3>2. TypeOK'
      BY SMT, <1>1, <2>2, <2>5, <3>1 DEF TypeOK
    <3>3. \A d \in Nat : Wrapped(s, d) <=> Wrapped(m, d)
      BY <2>5 DEF Wrapped
    <3>4. AcceptedStaysSet'
      BY SMT, <1>1, <2>5, <2>9, <3>1, <3>3 DEF AcceptedStaysSet
    <3>5. ReplaysOnlyInWrappedWord'
      <4>1. c \in accepted => Wrapped(m, c)
        BY <2>9, <2>17
      <4> QED
        BY SMT, <1>1, <2>11, <3>1, <3>3, <4>1 DEF ReplaysOnlyInWrappedWord
    <3>6. FreshRefusedOnlyByAlias'
      BY <3>1 DEF IndInv, FreshRefusedOnlyByAlias
    <3>7. ASSUME NEW d \in Counter, Word(d) <= Word(m.counter), ~Wrapped(m, d),
                 Index(Word(d)) = Index(Word(c)), Bit(d) = Bit(c)
          PROVE  d = c \/ (Wrapped(m, c) /\ d = c + WG_COUNTER_WINDOW_SIZE)
      <4>1. d \in Nat /\ Word(m.counter) \in Nat
        BY SMT, <2>2, <2>7 DEF Counter
      <4>2. CASE ~Wrapped(m, c)
        <5>1. /\ Word(c) < Word(d) + WG_COUNTER_WORDS
              /\ Word(d) < Word(c) + WG_COUNTER_WORDS
          BY SMT, <1>1, <2>7, <2>15, <3>7, <4>1, <4>2, WordsAssumption DEF Wrapped
        <5> QED
          BY <1>1, <3>7, <4>1, <5>1, SameBit
      <4>3. CASE Wrapped(m, c)
        <5> DEFINE x == c + WG_COUNTER_WINDOW_SIZE
        <5>1. Word(x) = Word(m.counter)
          BY <1>1, <2>2, <2>13, <4>3, AliasIsLive
        <5>2. /\ Word(x) = Word(c) + WG_COUNTER_WORDS /\ Bit(x) = Bit(c)
              /\ Index(Word(x)) = Index(Word(c))
          BY <1>1, <2>7, WindowShift, IndexShift
        <5>3. /\ Word(x) < Word(d) + WG_COUNTER_WORDS
              /\ Word(d) < Word(x) + WG_COUNTER_WORDS
          BY SMT, <2>7, <3>7, <4>1, <5>1, WordsAssumption DEF Wrapped
        <5>4. x = d
          BY <2>14, <3>7, <4>1, <5>2, <5>3, SameBit
        <5> QED
          BY <4>3, <5>4
      <4> QED
        BY <4>2, <4>3
    <3>8. SetBitsExplained'
      <4> SUFFICES ASSUME NEW d \in Counter, Word(d) <= Word(m.counter),
                          ~Wrapped(m, d), IsSet(s, d)
                   PROVE  \/ d \in accepted'
                          \/ \E e \in late' : d = e + WG_COUNTER_WINDOW_SIZE
        BY SMT, <2>5, <3>1, <3>3 DEF SetBitsExplained, Counter
      <4>1. CASE IsSet(m, d)
        BY <2>10, <3>1, <4>1
      <4>2. CASE Index(Word(d)) = Index(Word(c)) /\ Bit(d) = Bit(c)
        <5>1. d = c \/ (Wrapped(m, c) /\ d = c + WG_COUNTER_WINDOW_SIZE)
          BY <3>7, <4>2
        <5> QED
          BY <2>12, <3>1, <5>1
      <4> QED
        BY SMT, <2>5, <4>1, <4>2 DEF Counter
    <3> QED
      BY <3>2, <3>4, <3>5, <3>6, <3>8 DEF IndInv
  <2> QED
    BY <2>16, <2>17
<1> QED
  BY <1>2, <1>3

\* The invariant holds in every reachable state of every window.
THEOREM InvariantHolds == Spec => []IndInv
<1>1. IndInv /\ [Next]_vars => IndInv'
  <2> SUFFICES ASSUME IndInv, [Next]_vars
               PROVE  IndInv'
    OBVIOUS
  <2>1. CASE Next
    BY <2>1, ValidateInd DEF Next
  <2>2. CASE UNCHANGED vars
    BY <2>2 DEF vars, IndInv, TypeOK, AcceptedStaysSet, SetBitsExplained,
                ReplaysOnlyInWrappedWord, FreshRefusedOnlyByAlias
  <2> QED
    BY <2>1, <2>2
<1> QED
  BY <1>1, InitInd, PTL DEF Spec

\* wg_counter_validate never leaves the structure's types: the mark stays below
\* WG_REJECT_AFTER_MESSAGES and the bits inside their word.
THEOREM TypeCorrect == Spec => []TypeOK
BY InvariantHolds, PTL DEF IndInv

\* A counter accepted twice by wg_counter_validate lies in a word that the
\* bitmap has reused: inside the last WG_COUNTER_WORDS words there is no replay.
THEOREM ReplayBound == Spec => []ReplaysOnlyInWrappedWord
BY InvariantHolds, PTL DEF IndInv

\* A new counter of the window is refused by wg_counter_validate only when the
\* counter one window earlier was accepted from a reused word.
THEOREM RefusalBound == Spec => []FreshRefusedOnlyByAlias
BY InvariantHolds, PTL DEF IndInv
=============================================================================
