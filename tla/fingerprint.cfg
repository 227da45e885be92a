SPECIFICATION Spec
CONSTANTS
    Bytes = {0, 1, 2}
    Names <- PlainNames
    Versions <- PlainVersions
    Maps <- PlainMaps
INVARIANTS
    DistinctIdentityDistinctValue
    SameIdentitySameValue
CHECK_DEADLOCK FALSE
