SPECIFICATION FairSpec
CONSTANTS
    j1 = j1
    j2 = j2
    j3 = j3
    j4 = j4
    Jobs <- MCJobs
    Priorities <- MCPriorities
    Caps <- MCCaps
INVARIANTS
    TypeOK
    Accounting
    Sorted
    NoStall
PROPERTIES
    CapHeld
    NoOvertake
    KeepsFull
    UrgentServed
