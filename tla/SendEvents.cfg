SPECIFICATION FairSpec
CONSTANTS
  Callers = {c1, c2}
  Events = {e1}
  None = None
  MaxUnanswered = 2
INVARIANTS
  TypeOK
  RequestsAreCallers
  OneOffer
  SuccessMeansAccepted
  PendingIsSent
  WrittenAtMostTwice
PROPERTIES
  CallsReturn
