---------------------------- MODULE RelayChannel ----------------------------
(***************************************************************************)
(* What the relay's ring promises the tunnel: a first-in-first-out channel *)
(* that publishes packets a burst at a time, leaves out empty packets, and *)
(* may break once, when the writer overtakes the reader; after that it     *)
(* promises nothing.  RelayRing implements it.                             *)
(***************************************************************************)
EXTENDS Naturals, Sequences

VARIABLES count,   \* packets put so far; they are numbered from 0
          batch,   \* packets put and not yet published: [n, empty]
          queue,   \* packets published and not yet taken
          out,     \* numbers of the packets taken, in order
          broken

chan == <<count, batch, queue, out, broken>>

Init == count = 0 /\ batch = <<>> /\ queue = <<>> /\ out = <<>> /\ broken = FALSE

Put(empty) ==
  /\ ~broken
  /\ batch' = Append(batch, [n |-> count, empty |-> empty])
  /\ count' = count + 1
  /\ UNCHANGED <<queue, out, broken>>

Publish ==
  /\ ~broken
  /\ queue' = queue \o batch /\ batch' = <<>>
  /\ UNCHANGED <<count, out, broken>>

Take ==
  /\ ~broken /\ queue # <<>>
  /\ out' = IF Head(queue).empty THEN out ELSE Append(out, Head(queue).n)
  /\ queue' = Tail(queue)
  /\ UNCHANGED <<count, batch, broken>>

Break == ~broken /\ broken' = TRUE /\ count' = 0 /\ batch' = <<>> /\ queue' = <<>> /\ out' = <<>>

Next == (\E empty \in BOOLEAN : Put(empty)) \/ Publish \/ Take \/ Break

Spec == Init /\ [][Next]_chan
=============================================================================
