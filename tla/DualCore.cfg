SPECIFICATION Spec
CONSTANT
    Rounds = 3
INVARIANT DCSound
PROPERTIES NoGiveLost DCEnds
CHECK_DEADLOCK FALSE
