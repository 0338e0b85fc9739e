SPECIFICATION Spec
CONSTANTS
    a1 = a1
    a2 = a2
    a3 = a3
    Apps = {a1, a2, a3}
    Nobody = Nobody
    NumWindows = 3
    MaxOwn = 2
CONSTRAINT OneExtra
SYMMETRY Symmetry
INVARIANTS
    OwnersLive
    BarIsLive
    SuspendedCallIntact
PROPERTIES
    ExitSelectsSurvivor
    ExitBarFollowsTop
