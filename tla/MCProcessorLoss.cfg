SPECIFICATION Spec
CONSTANTS
    Partitions <- TwoPartitions
    End <- TwoAndOne
    Keys <- TwoKeys
    KeyOf <- KeysByPartition
    Verdicts <- HarderVerdicts
    NotJsonb <- Nothing
    NoCleanRow <- Nothing
    BatchSize = 2
    PageSize = 1
    MaxAttempts = 2
    Window = 1
    DlqMayTimeOut = FALSE
    DlqMayRaise = FALSE
    MaxFaults = 0
INVARIANTS
    NothingLost
