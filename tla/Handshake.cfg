CONSTANTS
    MaxConns = 2
    MaxGate = 2
    ProbePermits = 1
    MaxMinor = 1
    MaxTimeouts = 1
SPECIFICATION MCSpec
INVARIANTS PermitsConserved BothConsent NoOneSidedSession
PROPERTIES HandshakesEnd
CHECK_DEADLOCK FALSE
