SPECIFICATION SteadySpec
CONSTANTS
    Ids = {i1, i2}
    Evals = {}
    Requests = {q1, q2}
    Routes = {"crossings", "get"}
    Claims <- TwoReports
    Payloads <- Texts
    Jsonb <- MCJsonb
    Firelines <- WatchedOnly
    ServedFirelines <- WatchedOnly
    Limits = {1, 3}
    AsOfFlags = {}
    MaxNow = 2
    Backend = "postgres"
    FracBase = 10
    FracDigits = 1
    Micro = 2
    MaxDuration = 1
    WhenType <- MCWhenType
    Cel <- MCCel
    None = None
    NoObs = NoObs
    NoTolerance = NoTolerance
    BadTolerance = BadTolerance
    NoFireline = NoFireline
    BadId = BadId
INVARIANTS
    PageShowsAcknowledged
    NewestFirst
    GetAnswersAcknowledged
    FreshRowsCross
    CrossingsPersist
SYMMETRY Interchangeable
