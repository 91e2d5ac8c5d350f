SPECIFICATION FairSpec
CONSTANTS
  Resource = {pub, priv}
  PublicKeys = {pub}
  Path = {a}
  Material = {m1}
  NoBlock = NoBlock
  NoObject = NoObject
  NoReply = NoReply
  NoMaterial = NoMaterial
  ErrorBody = ErrorBody
  NoKey = NoKey
  NoPath = NoPath
  Someone = Someone
  RetryAttempts = 1
  Environments <- Shared
INVARIANTS
  DeleteFlagEarned
PROPERTIES
  AdoptedKeySurvives
  RunsEnd
