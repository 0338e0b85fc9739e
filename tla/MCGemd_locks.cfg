SPECIFICATION Spec
CONSTANTS
    NumSlots = 2
    MaxGeneration = 3
    MaxDepth = 2
    MaxHid = 0
    MaxCommands = 0
    Ops = {"INIT", "EXIT", "BEG", "END", "DRAG"}
    Faults = {"gone", "stuck", "io", "init", "lock"}
PROPERTIES
    DrawsAlone
    ClosedForCause
    ImplementsUpdateLock
