SPECIFICATION FairBoundarySpec
CONSTANTS
    c1 = c1
    c2 = c2
    Clients <- MCClients
    MaximumQueued = 2
CHECK_DEADLOCK FALSE
INVARIANTS
    ReplacementIsExclusive
PROPERTIES
    AdmittedMutationsRun
    NothingAfterClose
    EntryIsDecided
    RestoreEnds
