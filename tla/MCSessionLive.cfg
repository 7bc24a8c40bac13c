SPECIFICATION FairSpec
CONSTANTS
    Req = {r1, r2}
    None = None
    ReopenQ = ReopenQ
    NopOut = FALSE
    Erl = 0
    ReopenMax = 0
    RetryMax = 1
    HostRetryMax = 2
    PoolMax = 4
    MaxCnt = 2
    Setups <- Fair
PROPERTIES
    RequestsAnswered
    InitialLoginDeadline
CHECK_DEADLOCK FALSE
