SPECIFICATION Spec
CONSTANTS
    Jobs = {mail}
    Mail = mail
    DefaultOn = {mail}
    Observers = {s}
    Admins = {a}
    Inodes = {i1, i2, i3}
    None = None
    Torn = Torn
    MaxEvents = 3
INVARIANT OffStaysOff
CHECK_DEADLOCK FALSE
