SPECIFICATION Spec
CONSTANTS
  Recorders = {w1, w2, w3}
  Readers = {k1, k2, k3}
  Receipts <- SomeReceipts
  Limit = 2
  NoReceipt = NoReceipt
  NoReader = NoReader
SYMMETRY Symmetric
INVARIANT HistoryVerifies
INVARIANT ChecksAreHonest
PROPERTY ReceiptsOnlyAdvance
CHECK_DEADLOCK FALSE
