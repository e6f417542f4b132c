CONSTANTS
    mail = mail
    sync = sync
    Job = {mail, sync}
    Owner = {o1}
    Token = {t1, t2, t3}
    NoOwner = NoOwner
    NoToken = NoToken
    Result = {"completed", "interrupted"}
    Lease = 2
    Arbitration = 1
    Topic <- MCTopic
    TopicOf <- MCTopicOf
    Base <- MCBase
    Window <- MCWindow
    MaxAge = 4
    AgeCap = 3
    StarvationAfter = 3
    StarvationPoints = 10
    UrgencyPoints = 2
    OverduePoints = 4
    OverdueCap = 2
    BoostTimes <- MCBoosts
    BoostPoints = 4
SPECIFICATION Spec
INVARIANTS
    SlotIsOwned
PROPERTIES
    HistoryIsKept
    ImplementsSlot
