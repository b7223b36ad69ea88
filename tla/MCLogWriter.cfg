SPECIFICATION FairSpec
CONSTANTS
    Modules = 1
    FlushSize = 1
    PieceSize = 2
    MaxRecords = 4
INVARIANTS
    TypeOK
    NoRecordLost
    WrittenAtEnd
PROPERTY
    RecordWritten
CHECK_DEADLOCK FALSE
