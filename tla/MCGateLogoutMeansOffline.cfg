SPECIFICATION Spec
CONSTANTS
    MaxConn = 2
    User = {1}
    Server = {1}
    Registered = {1}
    MaxSends = 2
    LoginsPerConn = 1
PROPERTY
    LogoutMeansOffline
