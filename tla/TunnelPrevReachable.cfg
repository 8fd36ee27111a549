\* After a rekey no index selects prev_session.
SPECIFICATION Spec
CONSTANTS
  WG_MAX_TIMER_HANDSHAKES = 1
  WG_REJECT_AFTER_MESSAGES = 1
  MaxIndex = 6
  Scenarios <- Plain
INVARIANT PrevReachable
CHECK_DEADLOCK FALSE
