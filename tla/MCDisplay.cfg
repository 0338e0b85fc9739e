SPECIFICATION DisplaySpec
CONSTANTS
    Apps = {1, 2}
    Windows = {w1, w2}
    Tags = {t1, t2}
    Width = 2
    NumSlots = 2
    MaxSeq = 3
    Empty = Empty
    Clients = {1, 2}
    Desktop = 1
    MaxOwned = 1
    MaxWindows = 2
    Rects <- Overlapping
    Screen <- SmallScreen
    FormRect <- SmallForm
    FormApps = {2}
    Overlaid = {1}
    MaxSteps = 3
    Careless = {"click", "leave"}
    Nobody = Nobody
CONSTRAINT SeqBound
SYMMETRY Symmetry
INVARIANTS
    NothingStale
    VisibleExact
    OverlayMasked
    DamageCovered
PROPERTIES
    ImplementsMailbox
\* The changes of the stack are bounded (MaxSteps).
CHECK_DEADLOCK FALSE
