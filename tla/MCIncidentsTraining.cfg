SPECIFICATION Spec
CONSTANTS
    Cells <- TwoCells
    SiteOf <- OneSite
    PhaseTables <- Shortest
    MaxSpill = 1
    Backfill = 1
    MaxTime = 8
    MaxIncidents = 3
    MaxFaults = 0
INVARIANTS
    TrainsOnNormal
CHECK_DEADLOCK FALSE
