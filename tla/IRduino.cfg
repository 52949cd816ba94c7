SPECIFICATION Spec
CONSTANTS
    Codes <- TwoCodes
    None = None
    MaxUnread = 5
INVARIANTS
    LearntIsWhole
    LearntIsNew
    SentIsAsked
