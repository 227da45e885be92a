SPECIFICATION Spec
CONSTANTS
    Procs = {p1, p2}
    Envs <- MemoryEnv
    Unset = Unset
    MaxTries = 1
    None = None
CHECK_DEADLOCK FALSE
INVARIANT
    MigratedIsUsable
