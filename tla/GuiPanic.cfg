SPECIFICATION Spec
CONSTANTS
    NPanels = 1
    Locals = {"bare"}
    Tasks = {t1}
    NoTask = NoTask
    MaxGui = 2
    MaxStats = 1
CHECK_DEADLOCK FALSE
INVARIANT ActiveServerFound
