\* 3 words of 2 bits; the reject limit is 14, more than two windows.
CONSTANTS
  BITS_PER_WORD = 2
  WG_COUNTER_WORDS = 3
  UINT64_MAX = 21
SPECIFICATION Spec
INVARIANTS
  IndInv
  ReplaysOnlyInWrappedWord
  FreshRefusedOnlyByAlias
