SPECIFICATION FairSpec
CONSTANTS
    Capacity = 2
    MaxMsgs = 7
    NULL = NULL
    Item <- MCItem
INVARIANTS
    TypeOK
    NoLossNoReorder
    InnerExclusive
    NoLostWakeup
PROPERTY
    ImplementsFifo
