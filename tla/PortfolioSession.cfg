SPECIFICATION Spec
CONSTANTS
    f1 = f1
    f2 = f2
    c1 = c1
    c2 = c2
    Families = {f1, f2}
    Candidates = {c1, c2}
    FamilyOf <- MCFamilyOf
    InitialRial = 10
    ReserveRial = 2
    Missions <- MCMissions
    Pcts = {50}
    Quotes <- MCQuotes
    Exits <- MCExits
    None = None
    End = 1
    MaxQty = 2
    MaxEvents = 4
INVARIANTS
    TypeOK
    LedgerReplays
    RecordedExits
    RealizedBalances
    BudgetsKept
    RiskKept
    LedgerShape
PROPERTIES
    KeepsBook
CHECK_DEADLOCK FALSE
