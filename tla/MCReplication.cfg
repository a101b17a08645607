SPECIFICATION SpecSynced
CONSTANTS
  n1 = n1
  n2 = n2
  n3 = n3
  None = None
  Nodes = {n1, n2, n3}
  BacklogSize = 0
  RdbTargets = {"disk", "socket"}
  MaxWrites = 3
  MaxIds = 3
  MaxCommands = 2
  MaxFaults = 1
SYMMETRY Symmetry
ACTION_CONSTRAINT Bounds
INVARIANTS TypeOK InStep
PROPERTIES ImplementsHistory FailoverKeepsWrites
CHECK_DEADLOCK FALSE
