\* Every algorithm on the cases of MCCrypto, and handshakes of this program
\* (node 1) with a peer (2) and a stranger (3).
CONSTANTS
  PolyCases <- MCPolyCases
  StreamCases <- MCStreamCases
  AeadCases <- MCAeadCases
  CompressCases <- MCCompressCases
  BLAKE2S_BLOCK_SIZE = 4
  TWord = 16
  MaxMessage = 40
  KeyLengths = {0, 1, 4}
  WG_KEY_LEN = 5
  KeyBytes = {0, 165, 255}
  Peer = 2
  Stranger = 3
  Psks <- MCPsks
  Budgets <- MCBudgets
SPECIFICATION Spec
INVARIANTS
  TagIsDefined
  OpensWhatWasSealed
  HashIsDefined
  KeyTextIsKey
  KeysAgree
  KeysFresh
  Mac2Accepted
\* Every call returns and every budget ends.
CHECK_DEADLOCK FALSE
