CONSTANTS
    BufLen <- MCBufLen
    ObjOffset <- MCObjOffset
    OxmLengths <- MCOxmLengths
    InitBufs <- MCInitBufs
SPECIFICATION Spec
INVARIANTS
    TypeOK
    OxmFieldIsolation
PROPERTIES
    StaysInHeader
