SPECIFICATION Spec
CONSTANTS
    NumSlots = 2
    MaxGeneration = 3
    MaxDepth = 1
    MaxHid = 1
    MaxCommands = 0
    Ops = {"INIT", "BEG", "PANEL"}
    Faults = {"gone", "lock"}
INVARIANTS
    TypeOK
    RequesterStays
    HookCoversPanel
    ReplyToRequester
    OnePanel
