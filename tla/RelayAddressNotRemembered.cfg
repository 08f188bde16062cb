CONSTANTS
    Local = 2
    Peers = {1}
    RealtimeInput = RealtimeInput
    Kinds = {RealtimeInput}
    Conns = {c1, c2, c3}
    NoConn = NoConn
    NoSession = NoSession
    MaxRetired = 1
    MaxProcess = 2
    LegacyProcesses = {}
SPECIFICATION RSpec
SYMMETRY ConnSymmetry
CHECK_DEADLOCK FALSE
INVARIANT RelayAddressNotRemembered
