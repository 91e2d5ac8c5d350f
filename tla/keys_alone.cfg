SPECIFICATION Spec
CONSTANTS
  Resource = {pub, priv}
  PublicKeys = {pub}
  Path = {a, b}
  Material = {m1, m2}
  NoBlock = NoBlock
  NoObject = NoObject
  NoReply = NoReply
  NoMaterial = NoMaterial
  ErrorBody = ErrorBody
  NoKey = NoKey
  NoPath = NoPath
  Someone = Someone
  RetryAttempts = 0
  Environments <- Alone
INVARIANTS
  TypeOK
  NoTwoOwners
  ClaimedByMaker
  ClaimedKeyStored
PROPERTIES
  KeysAreOwned
  PlansOnCurrentKeys
SYMMETRY Symmetry
