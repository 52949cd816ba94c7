SPECIFICATION LoadSpec
CONSTANTS
    KeyCodes = {"Enter"}
    DefaultKeys <- NoDefaults
    InstalledButtons = 0
    MaxId <- Sizes
    MaxIds = 5
INVARIANTS
    ShownIsDurable
    LoadedResolves
PROPERTIES
    IdsNotRecycled
