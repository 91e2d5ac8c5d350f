SPECIFICATION Spec
CONSTANTS
  Resource = {pub}
  PublicKeys = {pub}
  Path = {a}
  Material = {m1, m2}
  NoBlock = NoBlock
  NoObject = NoObject
  NoReply = NoReply
  NoMaterial = NoMaterial
  ErrorBody = ErrorBody
  NoKey = NoKey
  NoPath = NoPath
  Someone = Someone
  RetryAttempts = 0
  Environments <- Calm
PROPERTIES
  DeleteFlagDefaultsToTrue
