SPECIFICATION FairScoringSpec
CONSTANTS
  c1 = c1  a1 = a1
  Consumers = {c1}
  Attempts = {a1}
  ConsumerOf <- OneConsumer
  Undeliverable = {}
  MaxAttempts = 2
  MaxTries = 3
  MaxSpaces = 2
  Texts <- Samples
INVARIANTS ScoringTypeOK StoredContentIsClean ScoredIsBacked
PROPERTIES RevocationReachesPending WorkflowCloses ServiceScoreSettles InteractionsAreScored OnlyFailuresStrand
