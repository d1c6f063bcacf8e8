CONSTANTS
    Env = {e1, e2}
    First = e1
    Page <- Store
    NPDENTRIES = 2
    VA <- Addresses
    PFTEMP = 1
    UTEXT = 2
    DATA = 3
    USTACK = 13
    UXSTACK = 15
    Layouts <- AllocLayouts
    Handlers = {"alloc"}
    MaxRefused = 1
    MaxFrames = 2
    Word = {"a"}
    Touched = {3}
    Holes = {4, 5}
    MaxForks = 2
SPECIFICATION Spec
INVARIANT NestedFaultsReturn
CHECK_DEADLOCK FALSE
