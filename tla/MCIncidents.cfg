SPECIFICATION Spec
CONSTANTS
    Cells <- TwoCells
    SiteOf <- OneSite
    PhaseTables <- Shortest
    MaxSpill = 1
    Backfill = 2
    MaxTime = 6
    MaxIncidents = 3
    MaxFaults = 1
INVARIANTS
    TypeOK
    EffectsAreKnown
    OverIsExact
    RunsItsCourse
    DisjointInARun
CHECK_DEADLOCK FALSE
