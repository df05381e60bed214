SPECIFICATION FairSpec
CONSTANTS
    device = device
    legacy = legacy
    s1 = s1
    s2 = s2
    s3 = s3
    i1 = i1
    Owners = {device, legacy}
    Sessions = {s1, s2, s3}
    Ids = {i1}
    OwnerOf <- MCOwnerOf
    MaximumOwner <- MCMaximumOwner
    MaximumGlobal <- MCMaximumGlobal
    MaxOverlaps = 1
INVARIANTS
    AccountsAreLeases
    SharesRespected
    RoomForAdmitted
PROPERTIES
    LostSessionDrains
CHECK_DEADLOCK FALSE
