CONSTANTS
    MEM = 8
    WORD = 2
    IntBits = 4
    LongBits = 8
    Formats <- SomeFormats
    Numbers <- SomeNumbers
    Sizes = {0, 1, 4, 20}
    CommandLines <- Lines
SPECIFICATION Spec
INVARIANTS
    MoveCopies
    NumberReadsBack
    ArgsConserved
CHECK_DEADLOCK FALSE
