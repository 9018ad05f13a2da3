SPECIFICATION Spec
CONSTANTS
  Ids = {i1}
  Calls = {c1}
  Sessions = {d1}
  People = {alice, bob}
  Bindings = {b1}
  Channels = {"ui", "cli"}
  StrictAudit = TRUE
  RequireSoD = TRUE
  Ttl = 1
  MaxTime = 1
  NoId = NoId
  NoOne = NoOne
  NoApproval = NoApproval
  NoRequest = NoRequest
  NoDecision = NoDecision
  NoTime = NoTime
SYMMETRY Symmetric
INVARIANT SeparationOfDuties
CHECK_DEADLOCK FALSE
