SPECIFICATION Spec
CONSTANTS
    Ids = {i1, i2}
    Evals = {e1, e2}
    Requests = {}
    Routes = {}
    Claims <- FirstOnly
    Payloads <- Texts
    Jsonb <- MCJsonb
    Firelines <- OneFireline
    ServedFirelines <- NoFirelines
    Limits = {1, 3}
    AsOfFlags = {1}
    MaxNow = 2
    Backend = "turso"
    FracBase = 2
    FracDigits = 1
    Micro = 1
    MaxDuration = 2
    WhenType <- MCWhenType
    Cel <- MCCel
    None = None
    NoObs = NoObs
    NoTolerance = NoTolerance
    BadTolerance = BadTolerance
    NoFireline = NoFireline
    BadId = BadId
INVARIANTS
    ReplayStable
    NewestSecondFirst
    FindingHistory
SYMMETRY Interchangeable
