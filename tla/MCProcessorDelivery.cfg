SPECIFICATION FairSpec
CONSTANTS
    Partitions <- TwoPartitions
    End <- TwoAndOne
    Keys <- TwoKeys
    KeyOf <- KeysByPartition
    Verdicts <- MixedVerdicts
    NotJsonb <- Nothing
    NoCleanRow <- Nothing
    BatchSize = 2
    PageSize = 1
    MaxAttempts = 2
    Window = 1
    DlqMayTimeOut = FALSE
    DlqMayRaise = FALSE
    MaxFaults = 2
INVARIANTS
    TypeOK
    CommittedSettled
    CommittedRouted
    CleanHasRaw
PROPERTIES
    AtLeastOnceDelivery
    EventuallyDrained
