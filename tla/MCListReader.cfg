CONSTANTS
    Family <- MCFamily
    MaxItems <- MCMaxItems
    Lists <- MCLists
SPECIFICATION Spec
CHECK_DEADLOCK FALSE
INVARIANT
    TypeOK
PROPERTY
    ReaderDecodesList
