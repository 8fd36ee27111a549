\* One port with a TCP and a UDP relay; four descriptors, two of them left for
\* connections, and two connections, so that numbers are reused.
\* A callback through a deleted object ends the model, so deadlock is not an error.
CONSTANTS
  Ports = {p1}
  Fds = {f1, f2, f3, f4}
  Conns = {c1, c2}
  None = None
SPECIFICATION FairSpec
INVARIANTS
  SocketsInv
  NoSocketLeak
  PcbInv
PROPERTIES
  EndIsNoticed
CHECK_DEADLOCK FALSE
