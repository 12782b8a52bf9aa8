SPECIFICATION Spec
CONSTANTS
    Cell = "CELL"
    Site = "SITE"
    Sites <- SeededSites
    Baseline = 180
    Capacity = 900
    MaxInteger = 2000
    Raw <- RawReports
    Foreign <- ForeignPayloads
    Backfill = 360
    Lags <- LagsInMinutes
INVARIANTS
    TypeOK
    SimulatedIsStored
    CorruptedIsRejected
    OutageIsNoticed
    OutageRulesAgree
    SeverityIsMonotone
