CONSTANTS
    mail = mail
    sync = sync
    m1 = m1
    m2 = m2
    m3 = m3
    s1 = s1
    s2 = s2
    Job = {mail, sync}
    Owner = {m1, m2, m3, s1, s2}
    Token = {t1, t2, t3, t4}
    NoOwner = NoOwner
    NoToken = NoToken
    Result = {"completed", "interrupted"}
    Lease = 2
    Arbitration = 1
    Topic <- MCTopic
    TopicOf <- MCTopicOf
    Base <- MCBase
    Window <- MCWindow
    MaxAge = 1
    AgeCap = 1
    StarvationAfter = 1
    StarvationPoints = 20
    UrgencyPoints = 2
    OverduePoints = 1
    OverdueCap = 1
    BoostTimes = {}
    BoostPoints = 0
    MaxMisses = 2
    Grace = 1
    Timely = TRUE
    Switchable = {mail}
    FirstOwner <- MCFirstOwner
    Reincarnation <- MCFresh
    KeepHistory = TRUE
    MaxCrashes = 1
    Crashable = {mail}
    MaxStops = 0
    MaxFaults = 2
SPECIFICATION BothSpec
INVARIANTS
    StraysAreStopped
PROPERTIES
    EveryoneIsServed
    EverythingEnds
