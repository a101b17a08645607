SPECIFICATION Spec
CONSTANTS
    Clients = {c1, c2, c3}
    Pair = {c1, c2}
    x = x
    y = y
    Keys = {x, y}
    Dbs = {0, 1}
    Commands <- CommandsMixed
    Writes = {"push", "del", "set", "xgroup", "xadd", "sort_store", "flushdb", "swapdb", "expire", "pause"}
    MaxElements = 1
    None = None
ACTION_CONSTRAINT Scenes
INVARIANTS
    TypeOK
    IndexConsistent
    TimeoutTableExact
    NoMissedWakeup
    OneReplyPerCommand
    IteratorValid
PROPERTIES
    ServedInOrder
    DeadlineKept
    ServingEnds
    NobodyForgotten
