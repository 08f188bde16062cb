CONSTANTS
    Tasks = {t1, t2}
    Ops = {"pair", "forget", "grant", "revoke", "auto", "inbound", "outbound", "relay_accept", "relay_connect"}
    StorageFails = TRUE
    Inject = Inject
    RemoteFilesRead = RemoteFilesRead
    Capabilities = {Inject, RemoteFilesRead}
    Input = Input
    Control = Control
    FileTransfer = FileTransfer
    OtherKinds = {Control}
    OpenKinds = {FileTransfer}
    NoKind = NoKind
    Native = {n1, n2}
    Mapped = {m1}
    Dials = {d1, d2}
    Limit = 2
    MaxExponent = 2
    DelayCap = 5
    MaxAge = 2
    MaxClock = 3
    MaxCalls = 4
    NoCall = NoCall
SPECIFICATION MCSpec
SYMMETRY RecordSymmetry
INVARIANTS RowsNeedAPeer LoneForgetClosesSessions RevokedGrantIsClosed RevokedStaysRevoked StoresAgree FreshIsOffered
PROPERTY NoEarlyRedial
CHECK_DEADLOCK FALSE
