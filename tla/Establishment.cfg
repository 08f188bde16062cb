CONSTANTS
    RealtimeInput = RealtimeInput
    NoSession = NoSession
    RelayNodes = {1}
    RestartNodes = {2}
    MaxDials = 3
    MaxFaultyDials = 2
    MaxProcess = 2
    MaxTimeouts = 1
    MaxDisconnects = 1
    MaxRetired = 1
    Count = 3
    RaceCapacity = 2
    Retryable = TRUE
    None = None
SPECIFICATION EstablishmentSpec
INVARIANTS
    EndsAgreeAtRest OpposingDialsConverge
    NoRivalOfTheWinner NoCandidateLeftBehind RecoveryStartsClean ShutdownClosesTheRace
PROPERTIES SameInitiatorIsReconnect Node1ImplementsRegistry Settles
CHECK_DEADLOCK FALSE
