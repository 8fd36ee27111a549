\* A ring of 4 slots with 2 in reserve; 10 packets lap it and pass the wrap of the
\* sequence numbers at 8.  The model stops when MaxPackets packets were input, or
\* when the producer waits in a burst longer than the ring allows, so deadlock is
\* not an error.
CONSTANTS
  RING_SLOTS = 4
  RESERVE = 2
  SEQ_MOD = 8
  MaxPackets = 10
  MaxBurst = 3
  MaxEmpty = 2
SPECIFICATION FairSpec
INVARIANTS
  RingInv
PROPERTIES
  ImplementsChannel
  LapNeedsBacklog
  CommittedIsTaken
  InputReturns
CHECK_DEADLOCK FALSE
