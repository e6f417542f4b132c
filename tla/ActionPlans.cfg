SPECIFICATION Spec
CONSTANTS
    upload = upload
    folder = folder
    move = move
    event = event
    change = change
    item1 = item1
    item2 = item2
    register = register
    path = path
    other = other
    x = x
    y = y
    Contents = {x, y}
    Nothing = Nothing
    Kind <- MCKind
    Target <- MCTarget
    Source <- MCSource
    Body <- MCBody
    Plans = {upload, folder, move, event, change, item1, item2, register}
    Clients = {c1, c2}
    Objects = {path, other}
    NeedsApproval = {event, change, item1}
    Routes = {"workspace", "archive", "tool", "command", "approve", "execute", "register"}
    MaxEdits = 1
    MaxFaults = 1
    MaxCrashes = 1
CONSTRAINT
    OneSubject
SYMMETRY
    Symmetry
INVARIANTS
    EffectsAreApproved
    StatusIsTrue
PROPERTIES
    ServerIsRespected
