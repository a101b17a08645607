SPECIFICATION SpecBudgets
CONSTANTS
  None = None
  Policies = {"always", "everysec"}
  Operations = {"appendonly", "rewrite_off", "in_exec", "bgsave", "appendfsync"}
  Places = {"fork", "rename", "write", "crash", "power", "persist", "child", "open", "fsync"}
  MaxWrites = 2
  MaxCommands = 3
  MaxFaults = 2
INVARIANTS TypeOK Recoverable PromiseKept
PROPERTY InitialRewriteEnds
ACTION_CONSTRAINT OffRewriteFaultFree
CHECK_DEADLOCK FALSE
