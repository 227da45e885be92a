SPECIFICATION FairSpec
CONSTANTS
    Procs = {p1, p2, p3}
    Envs <- SomeEnvs
    Unset = Unset
    MaxTries = 1
    None = None
CHECK_DEADLOCK FALSE
INVARIANTS
    AllOrNothing
    ConflictsOnlyInRaces
    MigratedIsUsable
PROPERTY
    CommandsEnd
