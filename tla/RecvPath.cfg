\* Three slots, two holders, batches of one packet, the relay started twice.
\* A call of NULL ends the process, so deadlock is not an error.
CONSTANTS
  Slots = {s1, s2, s3}
  Holders = {h1, h2}
  NoSlot = NoSlot
  kMaxPerIteration = 1
  MaxStarts = 2
SPECIFICATION FairSpec
INVARIANTS
  RecvInv
  NoLostWake
  StopLeavesAtMostOne
PROPERTIES
  NullCallOutsideRun
  QueuedIsTaken
  StopReturns
CHECK_DEADLOCK FALSE
