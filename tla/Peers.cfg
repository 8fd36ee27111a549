\* Two peers, handshakes in both directions.
CONSTANTS
  WG_MAX_PEERS = 2
  MaxIndex = 4
  MaxSend = 1
SPECIFICATION FairSpec
INVARIANTS
  PeersInv
  NonceUnique
  NoZeroKey
PROPERTIES
  OutputReturns
CHECK_DEADLOCK FALSE
