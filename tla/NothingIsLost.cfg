SPECIFICATION Spec
CONSTANTS
    Workflows = {"w1"}
    Sessions = {"s"}
    SessionOf <- MCSessionOf
    BootDeps = {"none"}
    MaxTurn = 1
    MaxCrashes = 1
    MaxSignOuts = 0
INVARIANTS SuccessMeansTurn
CHECK_DEADLOCK FALSE
