SPECIFICATION Spec
CONSTANTS
    Clients = {c1, c2}
    Ids = {i1, i2}
    Fingerprints = {f1}
    Instants = {0, 1}
    Nil = Nil
    Limits = {1}
    MaxEdits = 1
INVARIANT
    NothingShared
PROPERTY
    IsRepository
SYMMETRY Interchangeable
