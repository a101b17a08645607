SPECIFICATION Spec
CONSTANTS
  c1 = c1
  c2 = c2
  v1 = v1
  v2 = v2
  None = None
  Clients = {c1, c2}
  Queries <- QueriesSpaced
  Dbs = {0}
  Values = {v1}
  UnobserveArgs <- ArgsSingle
INVARIANT ResultsMatchCommand
CHECK_DEADLOCK FALSE
