CONSTANTS
    MaxStarts = 4
    Callers = {t1, t2}
    Records = {m1, m2}
    NoRecord = NoRecord
    MaxCalls = 4
    Scans = {s1, s2}
    Hosts = 3
    Concurrency = 2
    NotCancelled = NotCancelled
    Sources = {a1, a2}
    Window = 2
    MaxAttempts = 2
    TableSize = 1
    Keep = 4
    Streams = {1, 2, 3}
    Slots = 2
    Impatient = {t2}
    Relays = {r1}
    Capacity = 1
    NoRelay = NoRelay
SPECIFICATION MCSpec
INVARIANTS IdentitySurvivesFaults LoneCallsSettle GatewayWithdrawable CancelStopsTheScan RateLimitHolds StreamsRefusedForCause CapacityConserved ShutdownClosesTunnels
PROPERTIES ScansEnd CompleteStreamsServed RelayEndsCleanly
CHECK_DEADLOCK FALSE
