SPECIFICATION Spec
CONSTANTS
    Nodes = {1, 2, 3, 4, 5}
    Slots = {1, 4, 5}
    Primary <- MCPrimary
    Owner <- MCOwner
    Operations = {}
    Unreachable = {1}
    Scenarios <- LateVoteScenarios
ACTION_CONSTRAINT NoGossip
INVARIANTS OneWinnerPerEpoch
