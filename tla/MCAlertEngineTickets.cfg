SPECIFICATION Spec
CONSTANTS
    e1 = e1
    e2 = e2
    Engines <- OneEngine
    Anomalies <- FourAnomalies
    CellOf <- Cells
    TsOf <- Times
    SeverityOf <- Severities
    Lookback = 2
    Cooldown = 2
    Limit = 2
    RealSink = FALSE
    MaxTime = 2
    MaxFaults = 1
INVARIANTS
    SevereAlwaysTicketed
CHECK_DEADLOCK FALSE
