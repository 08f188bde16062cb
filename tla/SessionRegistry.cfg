CONSTANTS
    Local = 2
    Peers = {1, 3}
    Control = Control
    RealtimeInput = RealtimeInput
    Kinds = {Control, RealtimeInput}
    Conns = {c1, c2, c3}
    NoConn = NoConn
    NoSession = NoSession
    MaxRetired = 1
    MaxProcess = 4
    LegacyProcesses = {2}
SPECIFICATION MCSpec
SYMMETRY ConnSymmetry
INVARIANTS TypeOK EntriesAdmitted RetiredHistory HeldSessionIsInTable
PROPERTIES RetiredNeverReturns ArbitrationKeepsASession
CHECK_DEADLOCK FALSE
