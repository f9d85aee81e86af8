SPECIFICATION Spec
CONSTANTS
    n1 = n1
    Namespaces = {n1}
    sel = sel
    fix = fix
    BindingSeq <- MCBindingSeq
    Selecting <- MCSelecting
    Includes <- MCIncludes
    MaxMonitors = 3
    MaxChanges = 1
    MaxCalls = 3
INVARIANTS
    EveryNamespaceServed
CHECK_DEADLOCK FALSE
