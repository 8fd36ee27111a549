\* One tunnel and one relay, created and destroyed any number of times; two
\* local clients.
CONSTANT Clients = {1, 2}
SPECIFICATION FairSpec
INVARIANTS
  LifecycleInv
  AllOrNothing
  CallbackHasRelay
PROPERTIES
  StopNotWithdrawn
  CallsReturn
CHECK_DEADLOCK FALSE
