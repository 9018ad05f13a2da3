SPECIFICATION Spec
CONSTANTS
  n1 = n1
  n2 = n2
  a = a
  b = b
  Ids <- SomeIds
  NoId = NoId
  ClientIds = {1, 2}
  MaxForwarded = 3
  MaxMessages = 6
  MaxLines = 2
  Fields <- TwoFields
  MaxPages = 2
  Names = {n1, n2}
  Cursors = {a, b}
  Start = Start
  Malformed = Malformed
  Servers <- SomeServers
  Snapshots <- SomeSnapshots
INVARIANT AnswersAreFresh
INVARIANT FailureEndsTheChild
INVARIANT DiscoveredIsComplete
INVARIANT DiffIsExact
PROPERTY RequestsAreAnswered
PROPERTY DiscoveryEnds
CHECK_DEADLOCK FALSE
