SPECIFICATION Spec
CONSTANTS
    m1 = m1
    m2 = m2
    Ids <- MCIds
    MaxAttempts = 3
    MaxEpoch = 2
INVARIANTS
    RunsOnceWhereSubmitted
PROPERTIES
    VerdictsAreTrue
