SPECIFICATION FairSpec
CONSTANTS
    ConnectKeeps = FALSE
    KeepsBytes = FALSE
    TxSize = 5
    RxSize = 4
    ConnackTimeout = 2
    KeepaliveInterval = 1
    PidMod = 3
    ConnectLen = 2
    SubscribeLen = 2
    PublishLens = {2}
    OnMessage = FALSE
    AppCalls = {"connect", "disconnect", "publish"}
    CallbackCalls = {}
    InKinds = {"CONNACK_OK", "PUBLISH_BIG"}
    MaxIn = 2
    MaxStale = 0
    MaxNest = 1
PROPERTIES
    HandshakeSettles
    KeepaliveOrError
    InboundProgress
