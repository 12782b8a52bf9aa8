SPECIFICATION AllSpec
CONSTANTS
    Reports <- ThreeReports
    Labelled <- OneLabelled
    MinRows = 1
    BatchSize = 2
    MaxFaults = 1
    Flagged <- TwoFlagged
    HourOf <- PerCell
    DayOf <- PerSiteCarried
    SiteDayOf <- PerSite
INVARIANTS
    AllTypeOK
    OneModelPerVersion
    DeltasFromPredecessor
    AnomaliesAmongSamples
    DailyCoversHourly
PROPERTIES
    ScoresKept
    EventuallyScored
    RollupsConverge
