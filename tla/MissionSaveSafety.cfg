SPECIFICATION Spec
CONSTANTS
    t1 = t1
    t2 = t2
    p1 = p1
    d1 = d1
    d2 = d2
    none = none
    Tabs <- MCTabs
    Creator = t1
    Plans <- MCPlans
    Decisions <- MCDecisions
    NoDoc = none
    NoTime = none
    NoReply = none
    MaxTime = 1
    MaxNow = 1
    MaxEvents = 1
    MaxWork = 2
    MaxPending = 2
    Limit <- MCLimit
SYMMETRY MCSymmetry
INVARIANTS
    TypeOK
    ConfirmedKept
    OneSaveAtATime
PROPERTIES
    KeepsLedger
    SavedAtMonotone

CHECK_DEADLOCK FALSE
