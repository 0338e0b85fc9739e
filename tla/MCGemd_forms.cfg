SPECIFICATION FairSpec
CONSTANTS
    NumSlots = 2
    MaxGeneration = 2
    MaxDepth = 1
    MaxHid = 0
    MaxCommands = 1
    Ops = {"INIT", "EXIT", "MENU", "CALL", "START", "FINISH", "EVNT", "FORM"}
    Faults = {"signal"}
INVARIANTS
    OwnersAlive
PROPERTIES
    CallsServed
