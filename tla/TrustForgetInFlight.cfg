CONSTANTS
    Tasks = {t1, t2}
    Ops = {"forget", "inbound"}
    StorageFails = FALSE
    Inject = Inject
    RemoteFilesRead = RemoteFilesRead
    Capabilities = {Inject, RemoteFilesRead}
    Input = Input
    Control = Control
    FileTransfer = FileTransfer
    OtherKinds = {Control}
    OpenKinds = {FileTransfer}
    NoKind = NoKind
SPECIFICATION Spec
SYMMETRY TaskSymmetry
INVARIANT NoSessionSurvivesForget
CHECK_DEADLOCK FALSE
