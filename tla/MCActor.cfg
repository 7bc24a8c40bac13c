SPECIFICATION FairSpec
CONSTANTS
    Actors = {a1, a2, a3}
    MaxDelay = 2
    MaxOps = 5
INVARIANTS
    ListsMatchStates
    PendSorted
    AlarmCoversHead
PROPERTIES
    PendingGetsRun
