SPECIFICATION FairSpec
CONSTANTS
    None = None
    Sessions = {s1}
    Uris = {u1}
    Ids = {i1}
    Options = {o1, o2}
    ValidOptions = {o1, o2}
    MetricsTables = {m1}
PROPERTY
    ClosingStopsListeners
