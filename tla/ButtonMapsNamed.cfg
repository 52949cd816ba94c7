SPECIFICATION Spec
CONSTANTS
    p1 = p1
    p2 = p2
    Conns <- TwoPages
    MaxInFlight = 2
    InstalledRemotes = 1
    InstalledButtons = 1
    InstalledMaps = 1
    MaxEdits = 2
    MaxLosses = 1
PROPERTIES
    TempsAreNamed
CHECK_DEADLOCK FALSE
