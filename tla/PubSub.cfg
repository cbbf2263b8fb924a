SPECIFICATION DemoSpec
CONSTANTS
    ConnectKeeps = FALSE
    KeepsBytes = TRUE
    TxSize = 9
    RxSize = 6
    ConnackTimeout = 1
    KeepaliveInterval = 1
    PidMod = 4
    ConnectLen = 6
    SubscribeLen = 5
    PublishLens = {4}
    OnMessage = TRUE
    AppCalls = {"connect", "subscribe", "publish", "disconnect"}
    CallbackCalls = {}
    MaxNest = 0
    InKinds = {"CONNACK_OK", "SUBACK", "PUBLISH"}
    MaxIn = 3
    MaxStale = 0
    C2bSizes = {5, 6, 7, 10, 16}
    B2cSizes = {4, 5, 7, 9, 10}
    BufSizes = {4, 6, 8, 12}
    PublishLen = 4
    MaxTicks = 20
INVARIANTS
    NothingDropped
    NoPollFails
PROPERTIES
    RunsTheClient
    DemoSucceeds
CHECK_DEADLOCK
    FALSE
