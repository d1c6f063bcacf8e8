CONSTANTS
    NPAGES = 15
    N = 3
    TopPdpe = 1
    UTOP <- Top
    VA <- Low
    Env = {e1, e2}
    RefMod = 8
    BootVA <- None
    BiosPage <- Vectors
    Habits = {}
    NULL = NULL
SPECIFICATION Spec
VIEW Shape
INVARIANTS
    PagesExact
PROPERTIES
    NoSilentChange
    Isolation
CHECK_DEADLOCK FALSE
