SPECIFICATION Spec
CONSTANTS
    Token = {t1, t2}
    Graces = {1}
    KeepRotations = 1
    MaxTime = 6
    Budget = 5
    MaxInstances = 2
VIEW MCView
SYMMETRY Symmetric
INVARIANTS
    OneReviewPerStop
    EndsInBudget
    WaitIsEnough
CHECK_DEADLOCK FALSE
