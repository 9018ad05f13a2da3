SPECIFICATION Spec
CONSTANTS
  Calls = {c1, c2}
  Keys = {k1}
  Prints = {p1}
  Approvals = {a1, a2}
  Gated = TRUE
  Mode = "required"
  NoKey = NoKey
  NoApproval = NoApproval
  NoRequest = NoRequest
SYMMETRY Symmetric
INVARIANT EffectIsRecorded
INVARIANT AnswersAreHonest
INVARIANT ResponseIsEvidenced
PROPERTY OnceOnlySpec
CHECK_DEADLOCK FALSE
