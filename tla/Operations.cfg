SPECIFICATION FairAllSpec
CONSTANTS
    Jobs = {mail}
    Mail = mail
    DefaultOn = {mail}
    Observers = {s}
    Admins = {a}
    Inodes = {i1, i2, i3}
    None = None
    Torn = Torn
    MaxEvents = 3
    MailWorkers = {1, 2}
    Setups = {1, 2}
    MaxOwnerEdits = 1
    MaxTroubles = 1
    Images = {1, 2}
    MaxWrites = 2
    MaxFaults = 2
    MaxOrders = 3
    Projects = {"a", "b"}
    KnownProjects = {"a"}
    MaxRuns = 2
    Domains <- SomeDomains
    Resources <- SomeResources
    KindOf <- SomeKindOf
    KindOfResource <- SomeKinds
    MaxCommands = 2
    CloudKinds = {"files", "calendar"}
    CloudPaths = {1, 2, 3}
    ObjectUids = {11, 12, 13}
    BatchSize = 1
    MaxItems = 2
    MaxCloudEdits = 2
    MaxBreaks = 1
INVARIANTS
    DrainsAreTested
    SetupIsWhole
PROPERTIES
    AlertsAreCurrent
    MailGoesOn
    DeploysWhole
    RegisterComesBack
    SyncIsFaithful
CHECK_DEADLOCK FALSE
