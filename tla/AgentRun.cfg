SPECIFICATION Spec
CONSTANTS
    Workflows = {w1, w2}
    Sessions = {"s"}
    SessionOf <- MCSessionOf
    BootDeps = {"env", "none"}
    MaxTurn = 1
    MaxCrashes = 1
    MaxSignOuts = 1
CONSTRAINT OneDisturbance
SYMMETRY RunSymmetry
INVARIANTS EventsOnce NoRebilledGeneration NoDivergence ServerSuccessMeansTurn FailureTold
PROPERTIES DurableForGood
CHECK_DEADLOCK FALSE
