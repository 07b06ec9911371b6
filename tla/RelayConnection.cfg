SPECIFICATION FairSpec
CONSTANTS
  Subs <- NumberedSubs
  None = None
  MaxInbox = 1
ACTION_CONSTRAINT FirstUnusedSub
INVARIANTS
  TypeOK
  NoSendOnClosedChannel
  ActiveIsAsked
  OneConnectionAtATime
PROPERTIES
  CancelledChannelsAreClosed
  UpdateRequestsEverything
  ServedSubscriptionsReceive
