SPECIFICATION FairSpec
CONSTANTS
    Sockets = {s1, s2}
    NoSocket = NoSocket
    Keys = {k1, k2}
    NoKey = NoKey
    NoHost = NoHost
    Visitors = {v1}
INVARIANTS TypeOK RegisterMatchesTunnels OnlyKeyHolderRegistered CountBalanced
PROPERTIES ImplementsHostLock DeadTunnelFreesHost
