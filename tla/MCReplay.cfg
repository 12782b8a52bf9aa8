SPECIFICATION Spec
CONSTANTS
    Payloads <- FourPayloads
    Bare <- BareOnes
    Repairable <- RepairableOnes
    MaxIdle = 2
    MaxFaults = 1
INVARIANTS
    TypeOK
    NothingForgotten
PROPERTIES
    RepairedIsStored
    EndsOnceAllValid
