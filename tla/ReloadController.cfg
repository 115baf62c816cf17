SPECIFICATION FairSpec
CONSTANTS
    Review = {r1, r2}
    Visitor = {v1}
    Slot = {s1}
    Core = {c1, c2, c3}
    First = c1
    Setting = {"limit"}
    Editable = {}
    Value = {"low"}
    WaitOf <- MCOneWait
    None = None
INVARIANTS
    TypeOK
    CoresLive
    PendingIsApplied
    ConfigFitsCore
    WaitersHaveAReason
    CandidateIsFresh
PROPERTIES CandidateFrozen WaitersServed
