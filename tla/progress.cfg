SPECIFICATION FairSpec
CONSTANTS
    Ids = {i1}
    Evals = {e1}
    Requests = {q1}
    Routes = {"list", "crossings", "get"}
    Claims <- FirstOnly
    Payloads <- Texts
    Jsonb <- MCJsonb
    Firelines <- StartFirelines
    ServedFirelines <- StartFirelines
    Limits = {0, 1}
    AsOfFlags = {}
    MaxNow = 0
    Backend = "postgres"
    FracBase = 10
    FracDigits = 1
    Micro = 2
    MaxDuration = 2
    WhenType <- MCWhenType
    Cel <- MCCel
    None = None
    NoObs = NoObs
    NoTolerance = NoTolerance
    BadTolerance = BadTolerance
    NoFireline = NoFireline
    BadId = BadId
INVARIANTS
    HandleOwned
PROPERTIES
    RunsEnd
    RequestsEnd
    CancelEndsServe
    ImplementsLog
