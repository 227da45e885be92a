SPECIFICATION Spec
CONSTANTS
    Ids = {i1}
    Evals = {}
    Requests = {q1}
    Routes = {"list", "crossings", "get"}
    Claims <- FirstOnly
    Payloads <- Texts
    Jsonb <- MCJsonb
    Firelines <- OneFireline
    ServedFirelines <- OneFireline
    Limits = {1}
    AsOfFlags = {}
    MaxNow = 0
    Backend = "turso"
    FracBase = 10
    FracDigits = 1
    Micro = 1
    MaxDuration = 2
    WhenType <- MCWhenType
    Cel <- MCCel
    None = None
    NoObs = NoObs
    NoTolerance = NoTolerance
    BadTolerance = BadTolerance
    NoFireline = NoFireline
    BadId = BadId
INVARIANTS
    CleanStop
