SPECIFICATION Spec
CONSTANTS
    p1 = p1
    p2 = p2
    b1 = b1
    b2 = b2
    Conns <- TwoPages
    MaxInFlight = 2
    Activities = {"a1", "a2"}
    KeyCodes = {"Enter"}
    Buttons = {b1, b2}
    InstalledMaps <- SharedKey
    MaxEdits = 2
SYMMETRY PageSymmetry
INVARIANT DeletesTheMapSeen
