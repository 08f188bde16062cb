CONSTANTS
    Native = {n1}
    Mapped = {m1}
    Dials = {d1}
    Limit = 2
    MaxExponent = 2
    DelayCap = 5
    MaxAge = 2
    MaxClock = 3
    MaxCalls = 5
    NoCall = NoCall
SPECIFICATION MCSpec
PROPERTIES NoEarlyRedialAnyAddress
CHECK_DEADLOCK FALSE
