SPECIFICATION FairSpec
CONSTANTS
    Caller = {c1, c2}
    None = None
    Budget = 2
PROPERTIES
    EveryWriteReturns
    CloseCompletes
