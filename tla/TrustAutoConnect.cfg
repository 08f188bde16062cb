CONSTANTS
    Tasks = {t1, t2}
    Ops = {"forget", "auto"}
    StorageFails = FALSE
    Inject = Inject
    RemoteFilesRead = RemoteFilesRead
    Capabilities = {Inject, RemoteFilesRead}
    Input = Input
    Control = Control
    FileTransfer = FileTransfer
    OtherKinds = {Control}
    OpenKinds = {FileTransfer}
    NoKind = NoKind
SPECIFICATION Spec
SYMMETRY TaskSymmetry
PROPERTY OnlyPairingEstablishesTrust
CHECK_DEADLOCK FALSE
