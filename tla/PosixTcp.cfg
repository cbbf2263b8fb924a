SPECIFICATION Spec
CONSTANTS
    Fds = {3, 4}
    Byte = {0, 1}
    MaxCall = 2
    MaxQueue = 2
    PollMayFail = TRUE
INVARIANTS
    OneSocket
PROPERTIES
    ImplementsTransport
    AttemptSettles
