SPECIFICATION Spec
CONSTANTS
    p1 = p1
    p2 = p2
    Conns <- TwoPages
    MaxInFlight = 2
    InstalledRemotes = 1
    InstalledButtons = 1
    InstalledMaps = 1
    MaxEdits = 3
    MaxLosses = 1
SYMMETRY PageSymmetry
INVARIANTS
    TypeOK
    MapsAgree
    BindingsAgree
    RemotesAgree
    PagesGetUp
CHECK_DEADLOCK FALSE
