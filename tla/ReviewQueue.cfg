SPECIFICATION Spec
CONSTANTS
    Req = {r1, r2, r3, r4}
    Timed = {r1, r2, r3}
    None = None
    Key <- MCKey
    Ctx <- MCCtx
    CtxOf <- MCCtxOf
SYMMETRY MCSymmetry
INVARIANTS
    TypeOK
    OneRunningPerContext
    RunsInOrder
    OneLivePerKey
    NobodyWaitsOnAbandoned
    RunningIsAdmitted
