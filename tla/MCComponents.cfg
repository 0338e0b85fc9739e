SPECIFICATION ComponentsSpec
CONSTANTS
    f1 = f1
    f2 = f2
    Files = {f1, f2}
    Names = {"n1", "n2"}
    Near = {"n1"}
    Absent = Absent
    LastSuffix = 1
    MaxHidden = 1
    p1 = p1
    p2 = p2
    p3 = p3
    Processes = {p1, p2, p3}
    c1 = c1
    c2 = c2
    Commands = {c1, c2}
    LastId = 3
    NumLaunches = 2
    MaxApps = 2
    Overtaking = FALSE
    Nothing = Nothing
    Width = 3
    PointerWidth = 2
    HotSpots = {0, 1}
    Work = {1}
    Layered = {3}
    MaxDepth = 2
    Exposed = {}
SYMMETRY Symmetry
INVARIANTS
    NothingLost
    TrashIsListed
    OwnCommand
    ShownIsDrawn
