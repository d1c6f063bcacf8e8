CONSTANTS
    NCPU = 2
    NENV = 3
    NBOOT = 2
    MaxGen = 1
    Calls = {"exofork", "set_status", "ipc", "device"}
    Disciplined = TRUE
    KillsZombies = FALSE
    NULL = NULL
SPECIFICATION FairSpec
PROPERTY NoStarvation
