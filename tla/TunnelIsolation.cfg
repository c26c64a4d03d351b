SPECIFICATION TunnelSpec
CONSTANTS
    Players = {p1, p2}
    NoPlayer = NoPlayer
    MAXIMUM_CLIENTS = 1
    MaxSent = 2
    MaxReply = 1
    LinkMayBreak = FALSE
    MaxPings = 0
SYMMETRY Symmetry
INVARIANT Isolation
