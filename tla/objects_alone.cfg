SPECIFICATION Spec
CONSTANTS
  Resource = {r1, r2}
  Name = {a, b}
  Content = {c1, c2}
  Malformed = {}
  JobId = {j1, j2, j3}
  NoBlock = NoBlock
  NoObject = NoObject
  NoReply = NoReply
  Bare = Bare
  NoId = NoId
  Gone = Gone
  Someone = Someone
  RetryAttempts = 0
  Environments <- Alone
  Kinds <- OfOneKind
INVARIANTS
  TypeOK
  JobsRemembered
  OneManager
PROPERTIES
  ObjectsAreOwned
  CleanRunConverges
  CleanRunSucceeds
  LiveObjectRemembered
SYMMETRY Symmetry
