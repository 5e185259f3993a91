CONSTANTS
    Family <- MCFamily
    MaxItems <- MCMaxItems
    Lists <- MCVendorLists
SPECIFICATION Spec
CHECK_DEADLOCK FALSE
PROPERTY
    ReaderDecodesList
