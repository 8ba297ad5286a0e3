SPECIFICATION FairSpec
CONSTANTS
    None = None
    Requests = {r1, r2}
    Workers = {w1, w2}
    Bodies <- AllBodies
    Tables <- BothTables
    ApiKeyConfigured = TRUE
    MaxRows = 2
    MaxBacklog = 2
    KeepAliveMax = 2
INVARIANTS
    AckedIsStored
    RefusedLeavesNothing
    AllOrNothing
    RefusalHasCause
    JoinedMeansQuiet
PROPERTIES
    ImplementsIntake
    CloseCompletes
