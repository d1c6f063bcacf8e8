CONSTANTS
    SECTSIZE = 4
    PGSIZE = 16
    WORD = 2
    MaxAddr = 79
    Images <- SomeImages
    Arguments <- Lists
    FreePages = {0, 1, 2, 3, 4, 5, 6, 7}
    OneImage <- TheImage
    UNITS = 2
    MPENTRY = 3
    IOPHYSMEM = 5
    EXTPHYSMEM = 8
    KernelEnd = 18
    KStacks = 9
    INFOS = 16
    ENVPAGES = 1
    MaxPages = 64
    Spare = 4
    BootMapped = 50
    TABLE = 16
    UENVS = 64
    UPAGES = 80
    MMIOBASE = 96
    MMIOLIM = 112
    KERNBASE = 128
    KSTKSIZE = 2
    KSTKGAP = 1
    NCPU = 3
    Machines <- SomeMachines
    OneMachine <- TheMachine
    Needed = 37
SPECIFICATION Spec
INVARIANTS
    ImageLoaded
    ArgumentsArrive
    FreePagesUnused
    OwnStack
PROPERTIES
    BootCompletes
CHECK_DEADLOCK FALSE
