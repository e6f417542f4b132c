SPECIFICATION AllSpec
CONSTANTS
    Versions = {1, 2}
    MaxLetters = 2
    MaxReplies = 2
    MaxMishaps = 2
    Layers <- SomeLayers
    Pages <- SomePages
    MaxPages = 2
    LongestPaper = 2
    Years = {1, 2}
    Proposed = 2
    Applies = {"first", "second"}
    MaxStarts = 2
    MaxHitches = 2
    OrderMails <- SomeOrderMails
    MaxRuns = 3
    MaxFaults = 1
    MaxCardEdits = 1
    Isins = {"a"}
    Alarmed = "a"
    Listings = {"xetra", "nyse"}
    Abroad = {"nyse"}
    Snapshots = {{"a"}}
    MaxRefreshes = 2
    MaxTroubles = 2
    Corrected <- FiveMails
    Guesses = {"routine"}
    MaxDecisions = 2
    MaxCorrections = 3
    Flights = {1}
    Earlier = {}
    Prompts = {"entry", "ja"}
    Writes = {"create", "move"}
    MaxTurns = 2
    MaxBound = 2
    MaxToolCalls = 3
    MaxSlips = 1
INVARIANTS
    InvoicesAreTrue
    BoardIsTrue
    DepotIsTrue
    LearningIsMeasured
    AssentIsKept
PROPERTIES
    ApprovalsAreKept
    MailsAreJudgedFairly
CHECK_DEADLOCK FALSE
