SPECIFICATION FairLives
CONSTANTS
    Players = {p1, p2}
    NoPlayer = NoPlayer
    OldPlayers = {p2}
    MaxAhead = 1
    MAXIMUM_CLIENTS = 1
    MaxSent = 1
    MaxReply = 0
    LinkMayBreak = TRUE
    MaxPings = 0
PROPERTIES
    TeardownReachesPlayers
    JoinIsAnswered
    BothSidesEnd
    NothingForOldConnections
    ReplacedConnectionEnds
