SPECIFICATION Spec
CONSTANTS
  Nothing = Nothing
  ProjectBlocks <- DocumentedBlocks
  JobBlocks <- ScheduledBlocks
  ProjectEdits <- NoEdits
  JobEdits <- NoEdits
PROPERTIES
  ProjectBlocksSettle
