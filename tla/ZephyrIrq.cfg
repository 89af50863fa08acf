SPECIFICATION Spec
CONSTANTS
    Late = 5
    MaxTests = 6
    Want = 5
INVARIANTS ZP2Sound NoExpiryLost
PROPERTY ZP2Ends
CHECK_DEADLOCK FALSE
