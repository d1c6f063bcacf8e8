CONSTANTS
    NBLOCKS = 8
    NDIRECT = 2
    NINDIRECT = 2
    BLKFILES = 3
    a = a
    newmotd = newmotd
    Paths <- SomePaths
    Motd = newmotd
    Sizes = {1, 3}
    Writes <- SomeWrites
    Reads = {1}
    MaxMounts = 2
SPECIFICATION Spec
VIEW Shape
INVARIANTS
    BlocksOwnedOnce
    DiskOwnedOnce
    FlushedSurvives
PROPERTY
    StartsAgain
CHECK_DEADLOCK FALSE
