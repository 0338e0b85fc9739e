SPECIFICATION Spec
CONSTANTS
    NumSlots = 2
    MaxGeneration = 3
    MaxDepth = 1
    MaxHid = 0
    MaxCommands = 0
    Ops = {"INIT", "START", "PANEL", "EVNT"}
    Faults = {"gone"}
INVARIANTS
    ReplyToRequester
