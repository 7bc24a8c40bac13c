SPECIFICATION Spec
CONSTANTS
    Req = {r1, r2}
    None = None
    ReopenQ = ReopenQ
    NopOut = TRUE
    Erl = 0
    ReopenMax = 1
    RetryMax = 1
    HostRetryMax = 2
    PoolMax = 3
    MaxCnt = 2
    Setups <- Teardown
SYMMETRY Symmetry
INVARIANTS
    PoolAccounted
    TimerDiscipline
CHECK_DEADLOCK FALSE
