SPECIFICATION Spec
CONSTANTS
    Nodes = {1, 2, 3, 4, 5}
    Slots = {1, 4, 5}
    Primary <- MCPrimary
    Owner <- MCOwner
    Operations = {"force", "takeover"}
    Unreachable = {1}
    Scenarios <- MCScenarios
ACTION_CONSTRAINT VotesInTime
INVARIANTS TypeOK OneWinnerPerEpoch SettledMeansAgreed
PROPERTIES VotesRemembered SlotEpochsGrow
