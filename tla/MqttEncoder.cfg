SPECIFICATION Spec
CONSTANTS
    Sizes = {0, 1, 4, 6, 11, 19, 160}
    Keepalives = {0, 2999, 65535999, 65536000}
    PacketIds = {1, 65535}
    TopicLens = {0, 3}
    PayloadLens = {0, 2, 122, 123}
INVARIANTS
    EncodesRequest
    KeepaliveHonoured
PROPERTIES
    Footprint
