SPECIFICATION Spec
CONSTANTS
  Ids = {i1}
  Calls = {c1, c2, c3}
  Sessions = {d1, d2}
  People = {alice, bob}
  Bindings = {b1}
  Channels = {"ui"}
  StrictAudit = TRUE
  RequireSoD = TRUE
  Ttl = 1
  MaxTime = 1
  NoId = NoId
  NoOne = NoOne
  NoApproval = NoApproval
  NoRequest = NoRequest
  NoDecision = NoDecision
  NoTime = NoTime
SYMMETRY Symmetric
INVARIANT SingleUse
INVARIANT Authorized
INVARIANT TrailTruthful
INVARIANT SeparationOfDuties
PROPERTY LifecycleSpec
CHECK_DEADLOCK FALSE
