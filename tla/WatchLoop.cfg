SPECIFICATION Spec
CONSTANTS
    c1 = c1
    c2 = c2
    NoRow = NoRow
    Contracts <- MCContracts
    Boards <- MCBoards
    Clients = {k1}
    Requests = {r1}
    Days = 2
    StartsIn = "fast"
    MaxPulls = 1
    MaxSaves = 0
    MaxRestarts = 1
CHECK_DEADLOCK FALSE
INVARIANTS
    TypeOK
    ClientsFollow
    FinalIsOwn
PROPERTIES
    StaleNeverReplaces
