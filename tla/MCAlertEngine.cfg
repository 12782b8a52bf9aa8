SPECIFICATION Spec
CONSTANTS
    e1 = e1
    e2 = e2
    Engines <- TwoEngines
    Anomalies <- FourAnomalies
    CellOf <- Cells
    TsOf <- Times
    SeverityOf <- Severities
    Lookback = 2
    Cooldown = 2
    Limit = 2
    RealSink = TRUE
    MaxTime = 2
    MaxFaults = 1
SYMMETRY Interchangeable
INVARIANTS
    TypeOK
    OneTicketPerAlert
    LinksMatch
    CooldownBetweenPasses
    SevereTicketed
CHECK_DEADLOCK FALSE
