SPECIFICATION Spec
CONSTANTS
    HeaderBytes = {0, 32, 33, 48, 50, 54, 144}
    WireBytes = {0, 1, 3, 127, 128, 130}
    MaxBuf = 7
INVARIANTS
    HeaderSettles
    RemainingLengthInverse
    PublishInsidePacket
PROPERTIES
    VerdictFinal
    OutcomeFinal
CHECK_DEADLOCK FALSE
