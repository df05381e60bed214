SPECIFICATION Spec
CONSTANTS
    dbA = dbA
    dbB = dbB
    Databases <- MCDatabases
    EmptyDatabase = EmptyDatabase
    Partial = Partial
    None = None
    MaxEpoch = 3
    MaxFaults = 3
    Stubborn = {"live", "stage", "journal"}
INVARIANT EpochNamesTheDatabase
INVARIANT NoImageLost
PROPERTY CommittedNeverRolledBack
PROPERTY ReplacesAtomically
