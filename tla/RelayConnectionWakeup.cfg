SPECIFICATION FairSpec
CONSTANTS
  Subs <- NumberedSubs
  None = None
  MaxInbox = 1
ACTION_CONSTRAINT FirstUnusedSub
PROPERTY
  FilterIsRun
