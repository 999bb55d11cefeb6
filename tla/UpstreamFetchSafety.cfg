SPECIFICATION Spec
CONSTANTS
    k1 = k1
    k2 = k2
    k3 = k3
    f1 = f1
    f2 = f2
    f3 = f3
    f4 = f4
    none = none
    loop = loop
    route = route
    walker = walker
    other = other
    Keys <- MCTwoKeys
    Flights <- MCThreeFlights
    NoFlight = none
    Callers <- MCThreeCallers
    Loops <- MCLoops
    Asks <- MCSharedAsks
    Priorities = {1, 4}
    Caps = {1, 2}
    Retries = 1
    MaxEntries = 1
SYMMETRY MCSymmetry
INVARIANTS
    TypeOK
    OneFlightPerKey
    Inherits
    AttemptsAccounted
