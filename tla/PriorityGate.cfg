SPECIFICATION BothSpec
CONSTANTS
    Requests = {"chat", "tool", "mail", "index", "burst"}
    Offers <- MixedOffers
    MaxPending = 2
    Starvation = 2
    MaxConcurrency = 2
    BackgroundConcurrency = 1
    BurstConcurrency = 2
    BurstIdle = 1
    UpstreamTimeout = 1
    MaxAge = 2
    Faulty = TRUE
PROPERTIES
    GrantsInOrder
    EveryoneAnswered
    PatientAreServed
