SPECIFICATION MCSpec
CONSTANTS
    Procs = {p1, p2}
    InitProc = p1
    NStd = 1
    MaxFd = 1
    MaxStorage = 2
    Null = Null
    PipeSize = 3
    MaxLength = 2
    MaxBytes = 5
    InputSize = 3
    FifoSize = 3
    Chars = {"a", "cr", "nl", "bs", "eof"}
    Settings <- TtySettings
    MaxChars = 3
    MaxRead = 2
    Lengths = {1, 6}
    Targets = {1, 9}
    Offsets = {4}
    MaxFailures = 1
    Readers = {"r1", "r2"}
    Slots = {0, 1}
    MaxReads = 3
INVARIANTS
    DescriptorsSound
    BytesInOrder
    LinesInOrder
    OutputConserved
    FileDataExact
    ReadCorrect
PROPERTIES
    ReadReturns
CHECK_DEADLOCK FALSE
