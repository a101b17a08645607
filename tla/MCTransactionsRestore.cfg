SPECIFICATION Spec
CONSTANTS
  c1 = c1
  c2 = c2
  x = x
  Other = c2
  None = None
  Clients = {c1, c2}
  Keys = {x}
  Dbs = {0}
  Ops = {"set", "restore"}
  MaxQueue = 1
PROPERTY ExecOnlyIfUntouched
