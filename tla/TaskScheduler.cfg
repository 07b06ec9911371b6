SPECIFICATION FairSpec
CONSTANTS
  NumQueries = 2
  InitialWindowAge = 2
  MaxTime = 3
  MaxSubscriptions = 2
  Tasks <- NumberedTasks
  None = None
INVARIANTS
  TypeOK
  NoWindowSkipped
  OneLiveTaskPerQuery
  LastQueryIsPushed
PROPERTIES
  SequentialSpec
  LastQueryKeepsUp
ACTION_CONSTRAINT FirstFreeTask
