SPECIFICATION FairSpec
CONSTANTS
    NumSlots = 2
    MaxGeneration = 2
    MaxDepth = 1
    MaxHid = 0
    MaxCommands = 0
    Ops = {"INIT", "BEG", "CALL", "PANEL"}
    Faults = {"gone", "lock", "signal"}
PROPERTIES
    CallsServed
    LockGivenUp
    Stops
