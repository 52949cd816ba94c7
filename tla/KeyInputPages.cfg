SPECIFICATION Spec
CONSTANTS
    p1 = p1
    p2 = p2
    Conns <- TwoPages
    MaxInFlight = 2
    Keys <- OneKey
    Activities = {"a1"}
    Buttons = {"A"}
    Code <- Catalogue
    InstalledMaps <- SharedMaps
    KeyPlaces = 1
    ModPlaces = 1
    MaxMishaps = 1
INVARIANTS
    DeviceIsPressed
PROPERTIES
    ReleasesArrive
