SPECIFICATION Spec
CONSTANTS
  c1 = c1
  c2 = c2
  v1 = v1
  v2 = v2
  None = None
  Clients = {c1, c2}
  Queries <- QueriesOneKey
  Dbs = {0, 1}
  Values = {v1, v2}
  UnobserveArgs <- ArgsPairs
ACTION_CONSTRAINT Scenes
INVARIANTS TypeOK IndexConsistent ObservingCountExact BufferedChangeHasTimer
PROPERTIES DeliveredResultIsCurrent SubscribersCatchUp
CHECK_DEADLOCK FALSE
