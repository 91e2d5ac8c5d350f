SPECIFICATION Spec
CONSTANTS
  Resource = {priv}
  PublicKeys = {}
  Path = {a}
  Material = {m1}
  NoBlock = NoBlock
  NoObject = NoObject
  NoReply = NoReply
  NoMaterial = NoMaterial
  ErrorBody = ErrorBody
  NoKey = NoKey
  NoPath = NoPath
  Someone = Someone
  RetryAttempts = 0
  Environments <- RejectedOnly
PROPERTIES
  LiveKeyRemembered
