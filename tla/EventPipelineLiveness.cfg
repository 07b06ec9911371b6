SPECIFICATION FairSpec
CONSTANTS
  e1 = e1
  e2 = e2
  None = None
  Events <- MCEvents
  Messages = {m1, m2}
  Forwarded <- MCForwarded
  Stuck <- MCForwarded
  MaxCrashes = 0
PROPERTIES
  EverySavedEventIsProcessed
  ProcessedEventsAreCleanedUp
