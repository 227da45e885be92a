SPECIFICATION Spec
CONSTANTS
    Ids = {i1}
    Evals = {}
    Requests = {}
    Routes = {"list", "crossings", "get"}
    Claims <- FirstOnly
    Payloads <- Texts
    Jsonb <- MCJsonb
    Firelines <- NoFirelines
    ServedFirelines <- NoFirelines
    Limits = {1}
    AsOfFlags = {}
    MaxNow = 1
    Backend = "postgres"
    FracBase = 10
    FracDigits = 1
    Micro = 2
    MaxDuration = 2
    WhenType <- MCWhenType
    Cel <- MCCel
    None = None
    NoObs = NoObs
    NoTolerance = NoTolerance
    BadTolerance = BadTolerance
    NoFireline = NoFireline
    BadId = BadId
INVARIANTS
    RoundTrip
