SPECIFICATION Spec
CONSTANTS
    ConnectKeeps = TRUE
    KeepsBytes = TRUE
    TxSize = 6
    RxSize = 4
    ConnackTimeout = 1
    KeepaliveInterval = 1
    PidMod = 3
    ConnectLen = 2
    SubscribeLen = 4
    PublishLens = {3}
    OnMessage = FALSE
    AppCalls = {"connect", "connect_live", "disconnect", "publish", "subscribe"}
    CallbackCalls = {}
    InKinds = {"CONNACK_OK"}
    MaxIn = 1
    MaxStale = 1
    MaxNest = 1
INVARIANTS
    TypeOK
    StreamIntact
    SessionSound
