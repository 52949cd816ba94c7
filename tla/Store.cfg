SPECIFICATION Spec
CONSTANTS
    k1 = k1
    KeyCodes = {k1}
    DefaultKeys <- OneDefault
    InstalledButtons = 1
    MaxId <- Sizes
    MaxIds = 6
INVARIANTS
    TypeOK
    KeyMapUnique
    GoneForGood
    BindsNameTheirRemote
PROPERTIES
    DeletesCascade
