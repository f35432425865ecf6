SPECIFICATION FairSpec
CONSTANTS
  d1 = d1  d2 = d2
  Messages <- Timeline
  Deliveries = {d1, d2}
  MaxCheckErrors = 1
INVARIANTS TypeOK EventIsOnRecord TimedEventIsOnRecord DuplicatesAreBounded
PROPERTIES EventGetsThrough
CHECK_DEADLOCK FALSE
