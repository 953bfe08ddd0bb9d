CONSTANTS
    u1 = u1
    u2 = u2
    sound = sound
    malformed = malformed
    page = page
    first = first
    rest = rest
    Order <- MCOrder
    Contents <- MCContents
    Lines <- MCLines
    Served <- MCServed
    Malformed = {malformed}
    Ttl = 1
    StaleTtl = 1
    Retries = 1
    Persistent = TRUE
    None = None
SPECIFICATION FairSpec
INVARIANTS TypeOK FailureIsIsolated LoadedAsRead
PROPERTIES FreshUnlessFailed CallsReturn SettledIsShown
