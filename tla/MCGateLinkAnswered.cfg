SPECIFICATION LinkSpec
CONSTANTS
    MaxConn = 2
    User = {}
    Server = {1}
    Absent = Absent
PROPERTY
    LoginAnswered
