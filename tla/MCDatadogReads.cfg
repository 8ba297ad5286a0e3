SPECIFICATION FairReadSpec

CONSTANTS
    None = None
    MaxRetries = 1
    Headers <- OneHeader
    PageSizes = {1, 2, 3}
    RowCaps = {0, 1, 3, 4, 5}
    EventCounts = {0, 2, 5}
    VectorSize = 2
    PageFillings = {TRUE, FALSE}
    Groups = {1, 2, 3}
    AlertsPageSize = 2
    MaxChanges = 2
    IntMax = 127
    Multiplier <- SmallUnits
    NanosPerSecond = 10
    Rejected = Rejected
    Scans <- AllScans
    Inputs <- SomeInputs
    MaxClock = 1

INVARIANTS
    BudgetRespected
    OnlyOpenShown
    UndisturbedShown
    WindowIsCurrent
PROPERTIES
    ImplementsRowStream
    AnswersAreStreamed
    CallReturns
