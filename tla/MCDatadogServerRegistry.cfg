SPECIFICATION FairSpec
CONSTANTS
    None = None
    Sessions = {s1, s2, s3}
    Uris = {u1}
    Ids = {i1, i2, i3}
    Options = {o1, o2, o3}
    ValidOptions = {o1, o2}
    MetricsTables = {m1}
INVARIANTS
    RegisteredIsListening
    NoOrphanListener
    OneListenerPerUri
PROPERTIES
    ServeReturnsConfigured
    CallsReturn
