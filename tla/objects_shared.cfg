SPECIFICATION Spec
CONSTANTS
  Resource = {r1, r2}
  Name = {a}
  Content = {c1, bad}
  Malformed = {bad}
  JobId = {j1, j2, j3}
  NoBlock = NoBlock
  NoObject = NoObject
  NoReply = NoReply
  Bare = Bare
  NoId = NoId
  Gone = Gone
  Someone = Someone
  RetryAttempts = 1
  Environments <- Shared
  Kinds <- OfOneKind
INVARIANTS
  OneManager
PROPERTIES
  CleanRunConverges
  CleanRunSucceeds
SYMMETRY Symmetry
