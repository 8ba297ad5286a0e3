SPECIFICATION Spec

CONSTANTS
    None = None
    Scale = 2
    FacetColumns = {"service_name", "severity_text"}
    Strings <- AllWords
    Events <- Account
    Conditions <- Clauses
    Queries <- SomeQueries
    Windows <- Ends
    RowCaps = {0, 2}
    MaxConditions = 2

INVARIANT PushdownIsExact
