CONSTANTS
    BufLen <- MCBufLen
    ObjOffset <- MCObjOffset
    ObjIds <- MCObjIds
    Lengths <- MCLengths
    InitBufs <- MCInitBufs
SPECIFICATION Spec
INVARIANTS
    TypeOK
    IdentityRoundTrip
    LengthRoundTrip
PROPERTIES
    StaysInObject
