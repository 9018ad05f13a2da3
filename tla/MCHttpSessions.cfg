SPECIFICATION MCSpec
CONSTANTS
  Callers = {c1, c2, c3}
  Scopes = {s1, s2}
  Keys = {k1, k2}
  UpstreamIds = {u1}
  Capacity = 1
  Evidence = {s1}
  AuditFails = TRUE
  NoKey = NoKey
  NoScope = NoScope
  NoId = NoId
  Unborn = Unborn
SYMMETRY Symmetric
INVARIANT CacheFollowsRegistry
INVARIANT UpstreamSessionsArePrivate
INVARIANT NoOrphans
INVARIANT Plain404Invalidates
CHECK_DEADLOCK FALSE
