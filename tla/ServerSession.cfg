SPECIFICATION Spec
CONSTANTS
    Players = {p1, p2}
    NoPlayer = NoPlayer
    MAXIMUM_CLIENTS = 1
    MaxSent = 2
    MaxReply = 1
    LinkMayBreak = TRUE
    MaxStream = 1
    MaxWire = 1
    MaxQueue = 1
    MaxInbox = 1
SYMMETRY Symmetry
CONSTRAINTS SmallQueues NothingLeft ForeignData
INVARIANTS TypeOK SlotOwnership NoSlotLeak WaiterServed JoinBeforeData
PROPERTY NoTakeover
