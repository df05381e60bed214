SPECIFICATION Spec
CONSTANTS
    dbA = dbA
    dbB = dbB
    Databases <- MCDatabases
    EmptyDatabase = EmptyDatabase
    Partial = Partial
    None = None
    MaxEpoch = 3
    MaxFaults = 0
    Stubborn = {}
INVARIANT InterruptedRestoreRecovers
