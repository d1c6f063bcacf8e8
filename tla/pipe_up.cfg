SPECIFICATION Spec
CONSTANTS
    Env = {e1, e2}
    First = e1
    Writer = e1
    Reader = e2
    NCPU = 1
    PIPEBUFSIZ = 2
    ReadLen = 2
    WriteLen = 3
    MaxWrites = 1
    MaxFds = 2
    MaxTicks = 1
PROPERTIES
    NoFalseClosed
    IsStream
    Unblocks
CHECK_DEADLOCK FALSE
