CONSTANTS
    Tasks = {t1, t2}
    Ops = {"revoke", "relay_accept"}
    StorageFails = FALSE
    Inject = Inject
    RemoteFilesRead = RemoteFilesRead
    Capabilities = {Inject, RemoteFilesRead}
    Input = Input
    Control = Control
    FileTransfer = FileTransfer
    OtherKinds = {Control}
    OpenKinds = {FileTransfer}
    NoKind = NoKind
SPECIFICATION Spec
SYMMETRY TaskSymmetry
INVARIANT StaleGrantIsBeingClosed
CHECK_DEADLOCK FALSE
