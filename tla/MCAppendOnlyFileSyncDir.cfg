SPECIFICATION Spec
CONSTANTS
  None = None
  Policies = {"everysec"}
  Operations = {}
  Places = {"sync_dir_rewrite"}
  MaxWrites = 1
  MaxCommands = 1
  MaxFaults = 1
INVARIANT Recoverable
CHECK_DEADLOCK FALSE
