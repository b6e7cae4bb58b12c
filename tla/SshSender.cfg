\* The terminal session: calls overlap as they like, the chain orders them.
CONSTANTS
    MaxCalls = 11
    Sizes = {1, 3}
    Handshake = 3
    Setup = 8
SPECIFICATION Spec
INVARIANTS
    CallOrder
    KeystreamFresh
PROPERTIES
    WireIsPacketStream
CHECK_DEADLOCK FALSE
