SPECIFICATION FairSpec
CONSTANTS
    MaxConn = 2
    User = {1, 2}
    Server = {1, 2}
    Registered = {1, 2}
    MaxSends = 2
    LoginsPerConn = 2
INVARIANTS
    TypeOK
    SessionOwner
PROPERTIES
    NoTakeover
    LogoutReported
