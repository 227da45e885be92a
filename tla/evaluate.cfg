SPECIFICATION Spec
CONSTANTS
    Ids = {i1, i2}
    Evals = {e1}
    Requests = {}
    Routes = {}
    Claims <- Files
    Payloads <- Texts
    Jsonb <- MCJsonb
    Firelines <- ComparedFirelines
    ServedFirelines <- NoFirelines
    Limits = {1, 3}
    AsOfFlags = {3}
    MaxNow = 2
    Backend = "postgres"
    FracBase = 10
    FracDigits = 1
    Micro = 2
    MaxDuration = 2
    WhenType <- MCWhenType
    Cel <- MCCel
    None = None
    NoObs = NoObs
    NoTolerance = NoTolerance
    BadTolerance = BadTolerance
    NoFireline = NoFireline
    BadId = BadId
INVARIANTS
    TypeOK
    BuiltObservations
    RowsComeFromRuns
    AcknowledgedIsStored
    ReadBackFindsRow
    ReportExact
    NoSilentRuleError
    EvaluationShowsAcknowledged
    FindingHistory
PROPERTIES
    RowsImmutable
    ImplementsLog
SYMMETRY Interchangeable
