SPECIFICATION Spec
CONSTANTS
    BufSize = 4
    Byte = {0, 1}
    MaxCall = 5
INVARIANTS
    TypeOK
PROPERTIES
    ImplementsFifo
