SPECIFICATION FairSpec
CONSTANTS
    Procs = {"p1", "p2"}
    MaxDeaths = 2
INVARIANTS OnlyDuplicates ReadyComplete
PROPERTIES BootsUnlessTorn
CHECK_DEADLOCK FALSE
