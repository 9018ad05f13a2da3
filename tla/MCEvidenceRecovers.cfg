SPECIFICATION FairSpec
CONSTANTS
  Calls = {c1, c2}
  Keys = {k1}
  Prints = {p1}
  Approvals = {}
  Gated = FALSE
  Mode = "observe"
  NoKey = NoKey
  NoApproval = NoApproval
  NoRequest = NoRequest
PROPERTY EffectsAreRecovered
PROPERTY EveryCallEnds
CHECK_DEADLOCK FALSE
