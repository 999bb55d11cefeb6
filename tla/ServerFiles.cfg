SPECIFICATION Spec
CONSTANTS
    Missing = Missing
    Torn = Torn
    Posts = {r1, r2}
    r1 = r1
    r2 = r2
    JournalCap = 2
    MaxRows = 4
    Puts = {r1, r2}
    SettingsValues = {1, 2}
    Defaults = 1
    MaxPuts = 3
    Builds = {r1, r2}
    Ranges <- MCRanges
    MaxSlow = 1
    FileCap = 3
    Flushers = {1, 2}
    MaxLogRows = 3
    Savers = {r1, r2}
    c1 = c1
    c2 = c2
    Contracts = {c1, c2}
    Absent = Absent
    Boards <- MCBoards
    KeyEvery = 2
    MaxFrames = 4
    Rounds = {r1, r2}
    Views = {v1}
    PictureStep = 2
    MaxNow = 5
    Mixes <- MCMixes
    MaxEnds = 1
CHECK_DEADLOCK FALSE
INVARIANTS
    JournalKept
    SettingsKept
    LogKept
    DossierStays
    RecordReplays
    PictureKept
PROPERTIES
    CoverageKept
