SPECIFICATION MCSpec
CONSTANTS
    Procs = {1, 2}
    Streams = {1, 2, 11, 12}
    Files = {1, 2, 11, 12}
    Bytes = {0, 1, 2, 3, 4, 5, 6, 7, 8, 9}
    Junk = Junk
    NoSize = NoSize
    Newlines = {2, 3, 7}
    BufSize = 2
    PipeSize = 4
    HeldOpen = {11, 12}
    MaxFile = 5
    MaxFile2 = 3
    MaxBlock = 3
    MaxStride = 4
    Inputs <- DefInputs
    Positions = {0, 1, 4}
    Sizes = {0, 3}
    Texts <- DefTexts
    MaxKept = 4
    MaxTag = 6
    MaxPiped = 2
INVARIANTS
    BufferCoherent
    ProgramsRight
PROPERTIES
    KeepsPromise
    ProgramsEnd
\* The programs end, and may be killed.
CHECK_DEADLOCK FALSE
