CONSTANTS
    MaxEntries <- MCMaxEntries
    MaxBands <- MCMaxBands
    InitEntries <- MCInitEntries
    MeterIds <- MCMeterIds
SPECIFICATION Spec
CHECK_DEADLOCK FALSE
INVARIANTS
    TypeOK
    WalkFindsEntries
