SPECIFICATION Spec
CONSTANTS
    Ids = {i1, i2}
    Evals = {e1}
    Requests = {}
    Routes = {"list", "crossings", "get"}
    Claims <- FirstOnly
    Payloads <- Texts
    Jsonb <- MCJsonb
    Firelines <- OneFireline
    ServedFirelines <- NoFirelines
    Limits = {2}
    AsOfFlags = {}
    MaxNow = 2
    Backend = "turso"
    FracBase = 10
    FracDigits = 1
    Micro = 1
    MaxDuration = 2
    WhenType <- MCWhenType
    Cel <- MCCel
    None = None
    NoObs = NoObs
    NoTolerance = NoTolerance
    BadTolerance = BadTolerance
    NoFireline = NoFireline
    BadId = BadId
INVARIANTS
    NewestFirst
