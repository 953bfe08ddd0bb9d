SPECIFICATION Spec
CONSTANTS
    service = service
    url = url
    key = key
    good = good
    bad = bad
    Services <- MCServices
    Urls <- MCUrls
    MetaKeys <- MCMetaKeys
    Values <- MCValues
    Absent = Absent
    Unwritable <- MCUnwritable
    Missing = Missing
    Torn = Torn
    Platforms <- MCPlatforms
    Faults <- AllFaults
CHECK_DEADLOCK FALSE
INVARIANTS TypeOK SuccessIsDurable
PROPERTY KeepsPromise
