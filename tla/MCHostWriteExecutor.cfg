SPECIFICATION FairSpec
CONSTANTS
    i1 = i1
    i2 = i2
    p1 = p1
    p2 = p2
    None = None
    Ids <- MCIds
    Payloads <- MCPayloads
    MaximumQueuedMutations = 1
    MaxTickets = 3
    MaxStops = 1
INVARIANTS
    QueueIsBounded
    AtMostOnce
    InvalidatedAtMostOnce
PROPERTIES
    AnswersAreTrue
    SubmissionsAreAnswered
    ShutdownTerminates
