SPECIFICATION Spec
CONSTANTS
  Nothing = Nothing
  ProjectBlocks <- MCProjectBlocks
  JobBlocks <- MCJobBlocks
  ProjectEdits <- DriftedProjects
  JobEdits <- DriftedJobs
INVARIANTS
  TypeOK
PROPERTIES
  OwnJobsReadable
  TidyBlocksSettle
  DriftIsSeen
  UnreadPartsApplied
