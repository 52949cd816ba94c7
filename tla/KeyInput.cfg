SPECIFICATION Spec
CONSTANTS
    p1 = p1
    p2 = p2
    Conns <- OnePage
    MaxInFlight = 1
    Keys <- TwoKeys
    Activities = {"a1", "a2"}
    Buttons = {"A", "B", "C", "Left", "New", "Play"}
    Code <- Catalogue
    InstalledMaps <- MixedMaps
    KeyPlaces = 2
    ModPlaces = 1
    MaxMishaps = 2
INVARIANTS
    TypeOK
    ReportIsPressed
    
