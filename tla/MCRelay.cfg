SPECIFICATION Spec
CONSTANTS
    User = 7
    Request <- MCRequest
    Sample <- MCSample
    MaxRequests = 2
    Chunk = {4}
INVARIANTS
    TypeOK
    HeardAsPassed
    ToldAsAnswered
    NothingStuck
    CodecFaithful
    AnsweredInOrder
    RefusedOnce
CHECK_DEADLOCK FALSE
