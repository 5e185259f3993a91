CONSTANTS
    MaxBuckets <- MCMaxBuckets
    MaxActions <- MCMaxActions
    Weights <- MCWeights
    ActIds <- MCActIds
SPECIFICATION Spec
CHECK_DEADLOCK FALSE
INVARIANTS
    TypeOK
    WalkFindsBuckets
