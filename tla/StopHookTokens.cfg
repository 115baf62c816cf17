SPECIFICATION Spec
CONSTANTS
    Token = {t1, t2, t3}
    Graces = {1, 2}
    KeepRotations = 2
    MaxTime = 2
    Budget = 2
    MaxInstances = 2
SYMMETRY Symmetric
VIEW TokensView
PROPERTIES
    OldTokensStayOut
CHECK_DEADLOCK FALSE
