SPECIFICATION FairSpec
CONSTANTS
    Vendors <- AllVendors
    QueueMax = 2
    MaxRows = 2
    MaxMsgs = 2
INVARIANTS
    SeqAccounted
    OpaqueFreedOnce
    DataIsDelivered
PROPERTIES
    ReloadProceeds
    CloseEnds
