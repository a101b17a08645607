SPECIFICATION Spec
CONSTANTS
    Clients = {c1}
    x = x
    y = y
    Pair = {c1}
    Keys = {x}
    Dbs = {0}
    Commands <- CommandPop
    Writes = {"push", "set", "sort_store", "overwrite"}
    MaxElements = 1
    None = None
INVARIANTS
    NoMissedWakeup
