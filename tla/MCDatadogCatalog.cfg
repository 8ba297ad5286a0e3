SPECIFICATION Spec

CONSTANTS
    Databases = {d1, d2}
    SecretNames = {s1, s2}
    Secrets <- SmallSecrets
    Listings <- SmallListings
    Names = {"main", "Main", "MAIN"}
    Fold <- FoldMain
    Connections = {c1, c2}
    Addresses = {a1, a2}
    None = None

INVARIANT TransactionsAreLive
PROPERTIES ScansUseSelectedSecret ScansReadTheirIndex
