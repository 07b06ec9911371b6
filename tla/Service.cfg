SPECIFICATION FairSpec
CONSTANTS
  received = received
  saved = saved
  other = other
  t1 = t1
  t2 = t2
  Nobody = Nobody
  Runners = {received, saved, other}
  Received = received
  Saved = saved
  Tasks = {t1, t2}
  NumEvents = 2
  MaxFaults = 3
INVARIANTS
  TypeOK
  SchemaBeforeRunners
  NoSendOnClosedChannel
  HandedOverBeforeEOSE
PROPERTIES
  StopsAfterFirstError
  StartsUnlessTorn
