CONSTANTS
    NCPU = 2
    NENV = 3
    NBOOT = 2
    MaxGen = 2
    Calls = {"exofork", "set_status", "destroy", "fault", "ipc"}
    Disciplined = TRUE
    KillsZombies = FALSE
    NULL = NULL
SPECIFICATION Spec
VIEW Essence
INVARIANTS
    MachineConsistent
    EnvsConsistent
    FreeListExact
    UserPageTables
PROPERTY
    KilledByCreator
