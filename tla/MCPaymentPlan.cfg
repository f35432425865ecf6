SPECIFICATION FairSpec
CONSTANTS
  Calls = {k1, k2}
  NoCall = NoCall
  Total = 3
  Amounts = {1, 2}
  NumInstallments = 5
  MaxMissed = 3
  MaxTries = 3
CHECK_DEADLOCK FALSE
INVARIANTS TypeOK DefaultIsEarned CompletedIsTracked CreditsArePaid
PROPERTIES FollowsLifecycle WorkflowEnds
