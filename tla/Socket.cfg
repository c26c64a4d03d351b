SPECIFICATION FairSpec
CONSTANTS
    LabelSize <- MCLabelSize
    RandomLabels <- MCRandomLabels
    Peers <- MCPeers
    Hosts <- MCHosts
    NoHost <- MCNoHost
INVARIANTS
    SocketTypeOK
    HelloAsSent
    FramesInOrder
    PingAnswered
    AgentHeard
PROPERTIES
    RoutedToHost
    SocketEnds
CHECK_DEADLOCK FALSE
