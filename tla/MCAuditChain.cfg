SPECIFICATION FairSpec
CONSTANTS
  Writers = {w1, w2, w3}
  Strict = TRUE
  Faults = {"full", "partial"}
  NoOne = NoOne
INVARIANT ChainVerifies
INVARIANT WrittenIsFound
PROPERTY EveryWriteEnds
CHECK_DEADLOCK FALSE
