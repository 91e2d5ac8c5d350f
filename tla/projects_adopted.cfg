SPECIFICATION Spec
CONSTANTS
  Resource = {r1}
  Name = {a}
  Content = {c1, c2}
  Malformed = {}
  JobId = {j1}
  NoBlock = NoBlock
  NoObject = NoObject
  NoReply = NoReply
  Bare = Bare
  NoId = NoId
  Gone = Gone
  Someone = Someone
  RetryAttempts = 0
  Environments <- Calm
  Kinds <- OnlyProjects
PROPERTIES
  CreatesBareProject
