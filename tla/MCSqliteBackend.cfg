SPECIFICATION Spec
CONSTANTS
    c1 = c1
    c2 = c2
    login = login
    schema = schema
    v1 = v1
    one = one
    Conns <- MCConns
    Keys <- MCKeys
    Values <- MCValues
    Absent = Absent
    SchemaKey = schema
    SchemaValue = one
    Faults <- AllFaults
SYMMETRY Symmetry
INVARIANTS TypeOK OpenIsCurrent IdleIsCommitted
PROPERTY Atomic
