\* The model stops when MaxPackets packets were input, or when the producer waits
\* in a burst longer than the ring allows, so deadlock is not an error.
CONSTANTS
  RING_SLOTS = 4
  RESERVE = 2
  SEQ_MOD = 16
  MaxPackets = 7
  MaxEmpty = 0
  MaxBurst = 3
SPECIFICATION Spec
INVARIANT
  NoSilentLoss
CHECK_DEADLOCK FALSE
