SPECIFICATION Spec
CONSTANTS
    ConnectKeeps = TRUE
    KeepsBytes = FALSE
    TxSize = 5
    RxSize = 6
    ConnackTimeout = 1
    KeepaliveInterval = 1
    PidMod = 3
    ConnectLen = 2
    SubscribeLen = 2
    PublishLens = {2}
    OnMessage = TRUE
    AppCalls = {"connect", "disconnect"}
    CallbackCalls = {"disconnect", "publish", "poll"}
    InKinds = {"CONNACK_OK", "CONNACK_REFUSED", "CONNACK_SHORT", "CONNACK_BIG", "PUBLISH", "PUBLISH_QOS1", "PUBLISH_MALFORMED", "PUBLISH_BIG", "PINGRESP", "SUBACK", "BAD_FLAGS"}
    MaxIn = 3
    MaxStale = 0
    MaxNest = 1
INVARIANTS
    SessionSound
    InboundInOrder
    DrainedAfterPoll
    TransportHeld
    NoUnderflow
PROPERTIES
    ImplementsSession
CHECK_DEADLOCK
    FALSE
