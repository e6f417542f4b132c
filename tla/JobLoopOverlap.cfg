CONSTANTS
    mail = mail
    sync = sync
    m1 = m1
    m2 = m2
    m3 = m3
    s1 = s1
    s2 = s2
    Job = {mail, sync}
    Owner = {m1, m2, m3, s1, s2}
    Token = {t1, t2, t3}
    NoOwner = NoOwner
    NoToken = NoToken
    Result = {"completed", "interrupted"}
    Lease = 9
    Arbitration = 1
    Topic <- MCTopic
    TopicOf <- MCTopicOf
    Base <- MCBase
    Window <- MCWindow
    MaxAge = 1
    AgeCap = 1
    StarvationAfter = 1
    StarvationPoints = 20
    UrgencyPoints = 2
    OverduePoints = 1
    OverdueCap = 1
    BoostTimes = {}
    BoostPoints = 0
    MaxMisses = 3
    Grace = 12
    Timely = TRUE
    Switchable = {}
    FirstOwner <- MCFirstOwner
    Reincarnation <- MCFresh
    KeepHistory = FALSE
    MaxCrashes = 0
    Crashable = {mail}
    MaxStops = 0
    MaxFaults = 3
SPECIFICATION OverlapSpec
INVARIANTS
    NoOverlap
