\* The subsystem session: sendPayload2 has no chain.
CONSTANTS
    MaxCalls = 9
    Sizes = {2}
    Handshake = 3
    Setup = 7
SPECIFICATION DirectSpec
INVARIANT
    KeystreamFresh
CHECK_DEADLOCK FALSE
