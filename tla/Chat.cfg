SPECIFICATION MCSpec
CONSTANTS
    Workflows = {"w1", "w2"}
    First = "w1"
    Second = "w2"
    Sessions = {"s"}
    SessionOf <- MCSessionOf
    BootDeps = {"none"}
    MaxTurn = 3
    MaxCrashes = 3
    MaxSignOuts = 1
    MaxFlows = 2
INVARIANTS DepsMatchKey SentTurnIsRun
PROPERTIES EveryRunEnds
CHECK_DEADLOCK FALSE
