SPECIFICATION TunnelSpec
CONSTANTS
    Players = {p1}
    NoPlayer = NoPlayer
    MAXIMUM_CLIENTS = 1
    MaxSent = 1
    MaxReply = 2
    LinkMayBreak = TRUE
    MaxPings = 1
INVARIANT TunnelTypeOK
PROPERTIES DownstreamInOrder ImplementsServerSession
