CONSTANTS
    BufLen <- MCBufLen
    ObjOffset <- MCObjOffset
    ObjIds <- MCGenericIds
    Lengths <- MCLengths
    InitBufs <- MCInitBufs
SPECIFICATION Spec
INVARIANT
    IdentityRoundTrip
