SPECIFICATION CodecsSpec
CONSTANTS
    Keys <- MCKeys
    MaxParts = 2
    MaxKeys = 3
    LowerOf <- MCLowerOf
    Digits = {"1"}
    Scripts <- MCScripts
    Replies <- MCReplies
    maxMessageSize = 60
INVARIANTS RoundTrip StreamReassembled ListensObserved 
CHECK_DEADLOCK FALSE
