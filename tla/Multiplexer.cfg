SPECIFICATION Spec
CONSTANTS
    Caller = {c1, c2, c3}
    None = None
    Budget = 2
SYMMETRY Symmetry
INVARIANTS
    
    CleanHandover
    GoneOwnsNothing
    ReleasedOnce
PROPERTIES
    ImplementsQueueLock
    
