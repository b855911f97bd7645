SPECIFICATION Spec
SYMMETRY StoreSymmetry
CONSTANTS
    Writers = {w1, w2, w3}
    Names = {"a", "b"}
    UserOf <- MCUserOf
    Adk = {"e1", "e2"}
    Delta <- MCDelta
    InitialState = {"session", "temp"}
    Databases = {TRUE, FALSE}
    MaxTx <- MCMaxTx
INVARIANTS AppendedExactlyOnce  NoOrphans LoadedConsistent SequenceDense
PROPERTY EventsKept
CHECK_DEADLOCK FALSE
