SPECIFICATION Spec
CONSTANTS
    User = {11, 12}
    Ann = Ann
    Bob = Bob
    ONeil = ONeil
    Role = {Ann, Bob, ONeil}
    UserOf <- MCUserOf
    Refused = {ONeil}
    MaxId = 1
    MaxCount = 9
    MaxFaults = 2
    CountKey = CountKey
    None = None
    Garbage = Garbage
    RedisText <- MCRedisText
    SqlText <- MCSqlText
    Quoted = {"o'neil"}
INVARIANTS
    TypeOK
    CountOrder
    RolesListed
    Refilled
    RecordFaithful
PROPERTY
    RowPersisted
