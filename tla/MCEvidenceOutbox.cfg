SPECIFICATION Spec
CONSTANTS
  Calls = {c1, c2}
  Commands = {k1}
  Limit = 2
  Crashes = TRUE
  NoOne = NoOne
SYMMETRY Symmetric
INVARIANT DeliveredAreEmitted
INVARIANT LogHasNoGaps
INVARIANT FlushIsComplete
CHECK_DEADLOCK FALSE
