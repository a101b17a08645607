SPECIFICATION MCSpec
CONSTANTS
  c1 = c1
  c2 = c2
  x = x
  y = y
  None = None
  Clients = {c1, c2}
  Other = c2
  Keys = {x, y}
  Dbs = {0, 1}
  Ops = {"set", "del", "get", "restore"}
  MaxQueue = 2
ACTION_CONSTRAINT Scenes
INVARIANTS TypeOK WatchingCountExact ListsWellFormed MovedIsRemembered DirtyOnlyIfMoved DoomedHoldsNoQueue
PROPERTIES ExecOnlyIfUntouched ExecQueueStable ExecCompletes
