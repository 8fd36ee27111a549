---------------------------- MODULE ReplayWindow ----------------------------
(***************************************************************************)
(* The anti-replay window of one session: WgReplayCounter and              *)
(* wg_counter_validate (src/wg_counter.c).  A word of the bitmap is the    *)
(* set of the bit positions that are 1.                                    *)
(***************************************************************************)
EXTENDS Naturals, FiniteSets

CONSTANTS BITS_PER_WORD,     \* 64 in the code
          WG_COUNTER_WORDS,  \* 128 in the code
          UINT64_MAX         \* largest counter a transport header can carry

WG_COUNTER_WINDOW_SIZE == WG_COUNTER_WORDS * BITS_PER_WORD

ASSUME WordsAssumption ==
  /\ BITS_PER_WORD \in Nat \ {0}
  /\ WG_COUNTER_WORDS \in Nat \ {0}

ASSUME CounterAssumption ==
  /\ UINT64_MAX \in Nat
  /\ UINT64_MAX > WG_COUNTER_WINDOW_SIZE + 1

WG_REJECT_AFTER_MESSAGES == UINT64_MAX - WG_COUNTER_WINDOW_SIZE - 1

Counter   == 0 .. UINT64_MAX
WordIndex == 0 .. (WG_COUNTER_WORDS - 1)
BitIndex  == 0 .. (BITS_PER_WORD - 1)

WgReplayCounter ==
  [counter : 0 .. (WG_REJECT_AFTER_MESSAGES - 1),
   backtrack : [WordIndex -> SUBSET BitIndex]]

\* The session starts with the structure wiped.
WipedReplay == [counter |-> 0, backtrack |-> [i \in WordIndex |-> {}]]

Word(c)  == c \div BITS_PER_WORD
Index(w) == w % WG_COUNTER_WORDS
Bit(c)   == c % BITS_PER_WORD

TooOld(rc, c) ==
  /\ rc.counter >= WG_COUNTER_WINDOW_SIZE
  /\ c < rc.counter - WG_COUNTER_WINDOW_SIZE

\* Mutation of ClearedWords: the loop starts at i = 0.
ClearedFromOld(old, new) ==
  IF new - old >= WG_COUNTER_WORDS THEN WordIndex
  ELSE {Index(w) : w \in old .. new}

\* Mutation of ClearedWords: the loop runs while i < diff.
ClearedBelowNew(old, new) ==
  IF new - old >= WG_COUNTER_WORDS THEN WordIndex
  ELSE {Index(w) : w \in (old + 1) .. (new - 1)}

\* The words a step of the high-water mark from word old to word new zeroes.
ClearedWords(old, new) ==
  IF new - old >= WG_COUNTER_WORDS THEN WordIndex
  ELSE {Index(w) : w \in (old + 1) .. new}

Advance(rc, c) ==
  IF c > rc.counter
  THEN [counter   |-> c,
        backtrack |-> [i \in WordIndex |->
                         IF i \in ClearedWords(Word(rc.counter), Word(c))
                         THEN {} ELSE rc.backtrack[i]]]
  ELSE rc

IsSet(rc, c) == Bit(c) \in rc.backtrack[Index(Word(c))]

\* Mutation of SetBit: the mask is 1 << counter, not 1 << (counter % 64).
SetWholeCounter(rc, c) ==
  [rc EXCEPT !.backtrack[Index(Word(c))] = @ \cup {c}]

SetBit(rc, c) == [rc EXCEPT !.backtrack[Index(Word(c))] = @ \cup {Bit(c)}]

\* wg_counter_validate: the verdict, and the structure it leaves.  A counter
\* that moves the mark and is then refused has moved it all the same.
wg_counter_validate(rc, c) ==
  IF c >= WG_REJECT_AFTER_MESSAGES \/ TooOld(rc, c)
  THEN [ok |-> FALSE, rc |-> rc]
  ELSE LET moved == Advance(rc, c)
       IN  IF IsSet(moved, c)
           THEN [ok |-> FALSE, rc |-> moved]
           ELSE [ok |-> TRUE,  rc |-> SetBit(moved, c)]

-----------------------------------------------------------------------------
VARIABLES replay,    \* WgSession.replay
          accepted,  \* history: counters accepted at least once
          replayed,  \* history: counters accepted a second time
          late,      \* history: counters accepted from the wrapped word
          refused    \* history: new counters of the window that were refused

vars == <<replay, accepted, replayed, late, refused>>

\* A counter is wrapped when its word of the bitmap has been taken over by the
\* word of the high-water mark (or by a later one).
Wrapped(rc, c) == Word(c) + WG_COUNTER_WORDS <= Word(rc.counter)

InWindow(rc, c) == c + WG_COUNTER_WINDOW_SIZE > rc.counter

Init ==
  /\ replay = WipedReplay
  /\ accepted = {}
  /\ replayed = {}
  /\ late = {}
  /\ refused = {}

\* An authenticated transport packet with counter c is checked.
Validate(c) ==
  LET r == wg_counter_validate(replay, c) IN
  /\ replay' = r.rc
  /\ accepted' = IF r.ok THEN accepted \cup {c} ELSE accepted
  /\ replayed' = IF r.ok /\ c \in accepted THEN replayed \cup {c} ELSE replayed
  /\ late' = IF r.ok /\ Wrapped(replay, c) THEN late \cup {c} ELSE late
  /\ refused' = IF /\ ~r.ok
                   /\ c \notin accepted
                   /\ InWindow(replay, c)
                   /\ c < WG_REJECT_AFTER_MESSAGES
                THEN refused \cup {c} ELSE refused

Next == \E c \in Counter : Validate(c)

Spec == Init /\ [][Next]_vars

-----------------------------------------------------------------------------
\* Type invariant: the mark stays below the reject limit and every word of the
\* bitmap keeps its width, whatever counters are checked.
TypeOK ==
  /\ replay \in WgReplayCounter
  /\ accepted \subseteq 0 .. replay.counter
  /\ replayed \subseteq accepted
  /\ late \subseteq accepted
  /\ refused \subseteq Counter

\* The bit of an accepted counter stays set until its word is reused: moving
\* the mark zeroes the words it enters and no word still inside the window.
AcceptedStaysSet ==
  \A c \in accepted : ~Wrapped(replay, c) => IsSet(replay, c)

\* Every bit set in a live word of the bitmap is there for a reason: its counter
\* was accepted, or the counter one window earlier was accepted late.
SetBitsExplained ==
  \A c \in Counter :
    (Word(c) <= Word(replay.counter) /\ ~Wrapped(replay, c) /\ IsSet(replay, c))
      => \/ c \in accepted
         \/ \E d \in late : c = d + WG_COUNTER_WINDOW_SIZE

\* A counter that wg_counter_validate accepted, and that lies in one of the
\* WG_COUNTER_WORDS most recent words, is never accepted again: every counter
\* accepted twice belongs to a word the bitmap had already reused.
ReplaysOnlyInWrappedWord ==
  \A c \in replayed : Wrapped(replay, c)

\* wg_counter_validate refuses a counter it never accepted, inside the window
\* and below the limit, only when the counter one window earlier was accepted
\* after their common word had been reused.
FreshRefusedOnlyByAlias ==
  \A c \in refused : \E d \in late : c = d + WG_COUNTER_WINDOW_SIZE

\* The inductive invariant of wg_counter_validate: the live words of the bitmap are
\* the accepted counters and the aliases of late ones, and the two bounds hold.
IndInv ==
  /\ TypeOK
  /\ AcceptedStaysSet
  /\ SetBitsExplained
  /\ ReplaysOnlyInWrappedWord
  /\ FreshRefusedOnlyByAlias
=============================================================================
