CONSTANTS
    c1 = c1  c2 = c2  k1 = k1  k2 = k2  p1 = p1
    Accounts = {"acc"}
    Owners = {c1, c2}
    AccountStatus = {"current", "delinquent"}
    Updates = {"u1", "u2"}
    UpdateOf <- OneAccount
    NewStatus <- Requested
    Consumers = {c1, c2}
    ExternalId <- SameExternalId
    Calls = {k1, k2}
    ConsumerIn <- NamedConsumer
    AccountIn <- NamedAccount
    Processes = {p1}
    ProcessOf <- OneProcess
SPECIFICATION FairSpec
INVARIANTS TypeOK AttemptsAreOwned AnswersAreTrue OneDialForAll TransitionsAddUp
PROPERTIES CallsReturn
CHECK_DEADLOCK FALSE
