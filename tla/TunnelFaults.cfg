\* The scenarios of Faults.  Initiations come in while indices are below MaxIndex.
\* The application may stop calling, so deadlock is not an error.
SPECIFICATION Spec
CONSTANTS
  WG_MAX_TIMER_HANDSHAKES = 1
  WG_REJECT_AFTER_MESSAGES = 1
  MaxIndex = 5
  Scenarios <- Faults
INVARIANTS
  TunnelInv
  NonceUnique
  PacketOnce
CHECK_DEADLOCK FALSE
