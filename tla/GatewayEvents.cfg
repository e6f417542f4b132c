SPECIFICATION FairSpec
CONSTANTS
    Events <- ThreeEvents
    Writers = {w1}
    MaxPending = 1
    MaxFailed = 1
    MaxAttempts = 2
    MaxCrashes = 1
    Nobody = Nobody
    Breakable = {2}
INVARIANTS
    DeliveryIsKept
PROPERTIES
    EventuallySettled
