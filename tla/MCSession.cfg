SPECIFICATION Spec
CONSTANTS
    Req = {r1, r2, r3}
    None = None
    ReopenQ = ReopenQ
    NopOut = TRUE
    Erl = 0
    ReopenMax = 1
    RetryMax = 1
    HostRetryMax = 2
    PoolMax = 3
    MaxCnt = 3
    Setups <- SoftAndOffload
SYMMETRY Symmetry
INVARIANTS
    AnsweredOnce
    QtaskHeld
    Supervised
    NoStaleEvent
    KernelAgrees
PROPERTIES
    AnswersAreTrue
    CleansUp
CHECK_DEADLOCK FALSE
