SPECIFICATION Spec
CONSTANTS
    Inbox <- TwoMails
    Later = {}
    Folders = {1, 2}
    Canaries = {1}
    PageSize = 1
    MaxPages = 2
    Keep = 2
    Rejected <- Signatures
    MaxChanges = 1
    MaxOrders = 2
    MaxTroubles = 1
CHECK_DEADLOCK FALSE
INVARIANT ResumeLosesNothing
