SPECIFICATION FairSpec
CONSTANTS
    Objects = {a}
    Checksums = {v1, v2, bad}
    FilterFails = {bad}
    Absent = Absent
    EventTypes <- AllTypes
    SharedBefore = TRUE
    SideReaders = TRUE
    MaxChanges = 3
    MaxNotif = 3
CHECK_DEADLOCK FALSE
INVARIANT TypeOK
INVARIANT CacheFollowsStore
INVARIANT LostOnlyInWindows
INVARIANT AtMostOneStranded
PROPERTY EventuallyTold
