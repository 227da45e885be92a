SPECIFICATION Spec
CONSTANTS
    Backend = "turso"
    Ids = {i1, i2}
    Clients = {c1}
    Last = 2
    Now = 1
    Offsets <- FileOffsets
    Zones <- TwoZones
    Texts <- Severities
    DateLike <- Dates
    Dated <- MCDated
    Limits = {1, 3}
    None = None
SYMMETRY Interchangeable
INVARIANTS
    PrintedIsShown
    NothingSkipped
    OKHasBody
