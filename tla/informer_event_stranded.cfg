SPECIFICATION Spec
CONSTANTS
    Objects = {a}
    Checksums = {v1, v2}
    FilterFails = {}
    Absent = Absent
    EventTypes <- AllTypes
    SharedBefore = FALSE
    SideReaders = FALSE
    MaxChanges = 2
    MaxNotif = 2
CHECK_DEADLOCK FALSE
INVARIANT NoneStranded
