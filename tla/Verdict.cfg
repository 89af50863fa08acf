SPECIFICATION Spec
CONSTANTS
    Codes <- MCCodes
    Causes <- MCCauses
    MaxText = 2
INVARIANT StatusSound
PROPERTY VerdictReached
CHECK_DEADLOCK FALSE
