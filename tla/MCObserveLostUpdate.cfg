SPECIFICATION SpecWriters
CONSTANTS
  c1 = c1
  c2 = c2
  v1 = v1
  v2 = v2
  None = None
  Clients = {c1, c2}
  Queries <- QueryGet
  Dbs = {0, 1}
  Values = {v1, v2}
  UnobserveArgs <- ArgsSingle
PROPERTY SubscribersCatchUp
