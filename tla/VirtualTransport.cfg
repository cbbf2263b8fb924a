SPECIFICATION Spec
CONSTANTS
    BufSize = 2
    Byte = {0, 1}
    MaxCall = 2
    MaxSent = 3
INVARIANTS
    Loopback
