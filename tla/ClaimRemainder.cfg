SPECIFICATION Spec
CONSTANTS
    ConnectKeeps = FALSE
    KeepsBytes = FALSE
    TxSize = 6
    RxSize = 4
    ConnackTimeout = 1
    KeepaliveInterval = 1
    PidMod = 3
    ConnectLen = 3
    SubscribeLen = 3
    PublishLens = {3}
    OnMessage = FALSE
    AppCalls = {"connect", "publish"}
    CallbackCalls = {}
    InKinds = {"CONNACK_OK"}
    MaxIn = 1
    MaxStale = 0
    MaxNest = 1
INVARIANTS
    RemainderFinished
