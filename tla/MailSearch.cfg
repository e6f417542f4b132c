SPECIFICATION FairAllSpec
CONSTANTS
    Inbox <- TwoMails
    Later = {}
    Folders = {1, 2}
    Canaries = {1}
    PageSize = 1
    MaxPages = 2
    Keep = 2
    Rejected <- Signatures
    MaxChanges = 1
    MaxOrders = 2
    MaxTroubles = 1
    MailFolders = {1, 2}
    Digests = {1, 2}
    MaxPlaces = 3
    Wanted = 1
    Alike = 2
    Highest = 4
    MaxMoves = 4
    Mails = {1, 2}
    Matching = {1}
    Written = {1, 2}
    Batch = 2
    MaxImports = 2
    MaxQuestions = 1
    Shown = {1, 2}
    SameSubject = {1, 2}
    InfectedMail = 1
    MailIds = {1, 2}
    Commands = {1, 2}
    MaxToolMishaps = 2
    MaxPlanned = 2
    MaxDrafts = 1
    Addresses = {1, 2}
    ContactNames = {"n", "m"}
    TaskTimes = {1, 11}
    MaxCommands = 2
    MaxPhoneEdits = 1
    MaxLostAnswers = 1
INVARIANT IndexIsWhole
INVARIANT SearchIsTrue
PROPERTY IndexIsCaughtUp
PROPERTY MailboxIsShown
PROPERTY ToolsDoAsTold
CHECK_DEADLOCK FALSE
