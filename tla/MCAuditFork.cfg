SPECIFICATION Spec
CONSTANTS
  Writers = {w1, w2, w3}
  Strict = TRUE
  Faults = {"full"}
  NoOne = NoOne
SYMMETRY Symmetric
INVARIANT NoFork
CHECK_DEADLOCK FALSE
