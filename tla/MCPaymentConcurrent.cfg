SPECIFICATION FairSpec
CONSTANTS
  Calls = {k1, k2, k3, k4}
  NoCall = NoCall
  Total = 2
  Amounts = {1, 2}
  MaxInFlight = 3
INVARIANTS TypeOK TimelineIsSound CompletionIsPaid NoticesAreCommitted
PROPERTIES CallsFinish SettledStaysSettled ImplementsCalls
CHECK_DEADLOCK FALSE
