SPECIFICATION Spec
CONSTANTS
    ConnectKeeps = FALSE
    KeepsBytes = FALSE
    TxSize = 6
    RxSize = 4
    ConnackTimeout = 1
    KeepaliveInterval = 1
    PidMod = 3
    ConnectLen = 3
    SubscribeLen = 3
    PublishLens = {}
    OnMessage = TRUE
    AppCalls = {"connect"}
    CallbackCalls = {"connect_live", "poll"}
    InKinds = {"CONNACK_OK", "PUBLISH"}
    MaxIn = 2
    MaxStale = 0
    MaxNest = 1
INVARIANTS
    RxLenCounts
