SPECIFICATION Spec
CONSTANTS
    Partitions <- TwoPartitions
    End <- TwoAndTwo
    Keys <- TwoKeys
    KeyOf <- KeysByPartition
    Verdicts <- HarderVerdicts
    NotJsonb <- SecondOnB
    NoCleanRow <- FirstOnB
    BatchSize = 2
    PageSize = 1
    MaxAttempts = 2
    Window = 1
    DlqMayTimeOut = TRUE
    DlqMayRaise = TRUE
    MaxFaults = 1
INVARIANTS
    CommittedSettled
    CleanHasRaw
