SPECIFICATION Spec
SYMMETRY StoreSymmetry
CONSTANTS
    Writers = {w1, w2}
    Names = {"a"}
    UserOf <- MCUserOf
    Adk = {"e1", "e2"}
    Delta <- MCDelta
    InitialState = {"session", "temp"}
    Databases = {FALSE}
    MaxTx <- MCMaxTx
INVARIANT SequenceUnique
CHECK_DEADLOCK FALSE
