SPECIFICATION FairSpec
CONSTANTS
    w1 = w1
    w2 = w2
    NoWaiter = NoWaiter
    Waiters <- TwoWaiters
    HasTriggers = TRUE
    WorkMayPanic = TRUE
    Capacity = 3
    BatchSize = 2
INVARIANTS
    TypeOK
    OwedHasMessage
PROPERTIES
    AnswersAreFresh
    RequestsAreHonoured
    AcceptedIsAnswered
