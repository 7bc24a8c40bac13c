SPECIFICATION FairSpec
CONSTANTS
    Algs <- MCAlgs
    DigestLen <- MCDigestLen
    MaxRecvEnd = 3
    Cfgs <- MCCfgs
    SecKeySets <- MCSecKeySets
    OpKeySets <- MCOpKeySets
    CanFail = {"send", "rand", "hash"}
    MaxLogins = 2
INVARIANTS SecurityStageCompletes OfferedRight AgreedLimitsHold
PROPERTY SecurityEnds
CHECK_DEADLOCK FALSE
