CONSTANTS
    Env = {e1, e2}
    First = e1
    Page <- Store
    NPDENTRIES = 2
    VA <- Addresses
    PFTEMP = 1
    UTEXT = 2
    DATA = 3
    USTACK = 13
    UXSTACK = 15
    Layouts <- ProgramLayouts
    Handlers = {"pgfault", "alloc"}
    MaxRefused = 1
    MaxFrames = 2
    Word = {"a"}
    Touched = {3, 4}
    Holes = {0}
    MaxForks = 2
SPECIFICATION FairSpec
VIEW Shape
INVARIANTS
    MemoryIsPrivate
    LosesOnlyLastPages
PROPERTIES
    ForkReturns
CHECK_DEADLOCK FALSE
