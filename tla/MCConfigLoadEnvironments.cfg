\* Every goroutine of the loader, with environments that agree and that do not.
SPECIFICATION FairSpec
CONSTANTS
    v1 = v1
    v2 = v2
    v3 = v3
    Value = {v1, v2, v3}
    Config = Config
    Nil = Nil
    MayTimeOut = TRUE
    Environs <- All
INVARIANTS TypeOK LoadedIsComplete OnlyTheEnvironment EndsForAReason
PROPERTIES LoadedIsSettled LoadingEnds
CHECK_DEADLOCK FALSE
