SPECIFICATION DevicesSpec
CONSTANTS
    Absent = Absent
    Directory = Directory
    Apps = {1, 2}
    Keys = {1}
    QueueSize = 3
    MaxLines = 4
    MaxCols = 2
    Sizes <- TwoSizes
    MaxSequences = 5
    ResizesAlternate = FALSE
INVARIANTS
    SoundVolume
    InStep
    OnScreen
PROPERTIES
    ImplementsStore
    HistoryKept
\* An application in step with its queue may have nothing to do, and the
\* sequences of the Terminal are bounded.
CHECK_DEADLOCK FALSE
