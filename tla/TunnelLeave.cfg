SPECIFICATION FairTunnel
CONSTANTS
    Players = {p1, p2}
    NoPlayer = NoPlayer
    MAXIMUM_CLIENTS = 1
    MaxSent = 1
    MaxReply = 0
    LinkMayBreak = FALSE
    MaxPings = 0
PROPERTY LeavingFreesBothSides
