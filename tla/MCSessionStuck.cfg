SPECIFICATION Spec
CONSTANTS
    Req = {r1, r2}
    None = None
    ReopenQ = ReopenQ
    NopOut = TRUE
    Erl = 0
    ReopenMax = 1
    RetryMax = 0
    HostRetryMax = 2
    PoolMax = 3
    MaxCnt = 3
    Setups <- NoDestroy
INVARIANT AnsweredOnce
CHECK_DEADLOCK FALSE
