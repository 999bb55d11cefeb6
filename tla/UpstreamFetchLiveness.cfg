SPECIFICATION FairSpec
CONSTANTS
    k1 = k1
    k2 = k2
    k3 = k3
    f1 = f1
    f2 = f2
    f3 = f3
    f4 = f4
    none = none
    loop = loop
    route = route
    walker = walker
    other = other
    Keys <- MCThreeKeys
    Flights <- MCThreeFlights
    NoFlight = none
    Callers <- MCFourCallers
    Loops <- MCLoops
    Asks <- MCBusyAsks
    Priorities = {1, 4}
    Caps = {1}
    Retries = 0
    MaxEntries = 1
PROPERTIES
    UrgentAnswered
