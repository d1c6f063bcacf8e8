CONSTANTS
    Env = {e1, e2}
    First = e1
    MAXOPEN = 2
    MAXFD = 2
    IdMod = 16
    Names = {"a", "b"}
    NFILES = 2
    Modes <- SomeModes
    Reads = {3}
    Writes = {1, 2}
    Sizes = {1}
    Offsets = {0}
    PGSIZE = 2
    WRITEMAX = 1
    MaxSize = 1
    MaxCalls = 4
    MaxKills = 1
    MaxRefused = 1
SPECIFICATION FairSpec
INVARIANTS
    EntryKept
    DescriptorMeansFile
    PrivateOffset
    ServerSurvives
PROPERTIES
    Answered
CHECK_DEADLOCK FALSE
