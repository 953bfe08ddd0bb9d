CONSTANTS
    u1 = u1
    u2 = u2
    sound = sound
    malformed = malformed
    page = page
    first = first
    rest = rest
    Order <- MCOneUrl
    Contents <- MCContents
    Lines <- MCLines
    Served <- MCOneServed
    Malformed = {malformed}
    Ttl = 1
    StaleTtl = 2
    Retries = 1
    Persistent = TRUE
    None = None
SPECIFICATION Spec
INVARIANT SurvivesRestart
