SPECIFICATION FairSpec
CONSTANTS
    Req = {r1, r2, r3}
    Timed = {r1, r2}
    None = None
    Key <- MCOneKeyPair
    Ctx <- MCOneCtx
    CtxOf <- MCOneCtxOf
PROPERTIES
    Released
    TimedAnswered
    LockSafety
    LockServes
