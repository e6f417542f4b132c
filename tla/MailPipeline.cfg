SPECIFICATION FairSpec
CONSTANTS
    Mails = {1, 2}
    Limit = 2
    Prefetch = 2
    RescueOnly = TRUE
    UserFolders <- MCUserFolders
    Kinds <- MCKinds
    MaxMoves = 2
    MaxFaults = 1
    MaxCrashes = 1
INVARIANTS
    RecordedIsThere
PROPERTIES
    NoUnaskedResend
    UserDecides
    EverythingSettles
