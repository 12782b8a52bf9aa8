SPECIFICATION FairSpec
CONSTANTS
    Partitions <- TwoPartitions
    End <- TwoAndOne
    Keys <- TwoKeys
    KeyOf <- KeysByPartition
    Verdicts <- AllValid
    NotJsonb <- Nothing
    NoCleanRow <- FirstOnB
    BatchSize = 2
    PageSize = 1
    MaxAttempts = 2
    Window = 1
    DlqMayTimeOut = FALSE
    DlqMayRaise = FALSE
    MaxFaults = 0
PROPERTIES
    PoisonIsolated
