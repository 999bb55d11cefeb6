SPECIFICATION Spec
CONSTANTS
    c1 = c1
    c2 = c2
    NoRow = NoRow
    Contracts <- MCContracts
    Boards <- MCBoards
    Clients = {k1}
    Requests = {}
    Days = 2
    StartsIn = "open"
    MaxPulls = 1
    MaxSaves = 0
    MaxRestarts = 0
CHECK_DEADLOCK FALSE
PROPERTIES
    FinalRepeats
