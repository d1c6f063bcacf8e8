CONSTANTS
    CONSBUFSIZE = 3
    BUFLEN = 4
    CRT_COLS = 2
    CRT_ROWS = 2
    Modifiers = {157}
    Taps = {32, 28, 14, 58}
    SerialChars = {"DEL"}
    Outputs = {"HT"}
    KbdQueue = 4
    MaxStrokes = 5
    MaxLines = 1
SPECIFICATION FairSpec
VIEW Shape
INVARIANTS
    InputIsStream
    EchoShowsLine
PROPERTIES
    LineReturned
CHECK_DEADLOCK FALSE
