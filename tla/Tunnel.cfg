\* One thread calls and sends; two attempts per call, in the scenarios of Retries.
\* The peer sends no data: what counts is how the calls end.
\* The application may stop calling, so deadlock is not an error.
SPECIFICATION FairSpec
CONSTANTS
  WG_MAX_TIMER_HANDSHAKES = 2
  WG_REJECT_AFTER_MESSAGES = 1
  MaxIndex = 5
  Scenarios <- Retries
INVARIANTS
  CounterOfItsKey
  OkMeansHandshake
PROPERTIES
  RekeyEnds
CHECK_DEADLOCK FALSE
