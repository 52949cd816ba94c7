SPECIFICATION Spec
CONSTANTS
    p1 = p1
    p2 = p2
    b1 = b1
    Conns <- TwoPages
    MaxInFlight = 2
    Names = {"tv", "radio"}
    Buttons = {b1}
    InstalledMaps <- OneMap
    MaxEdits = 3
SYMMETRY PageSymmetry
INVARIANTS
    LoadedMapsAgree
