SPECIFICATION FairSpec
CONSTANTS
    NPanels = 2
    Locals = {"bare"}
    Tasks = {t1, t2}
    NoTask = NoTask
    MaxGui = 2
    MaxStats = 1
CHECK_DEADLOCK FALSE
CONSTRAINT NotDoubled
INVARIANTS TypeOK OneActive NoHiddenTunnel PortShownIsUsed
PROPERTY DisconnectEndsTunnel
