SPECIFICATION FairSpec
CONSTANTS
    Review = {r1, r2}
    Visitor = {}
    Slot = {}
    Core = {c1, c2}
    First = c1
    Setting = {"limit"}
    Editable = {}
    Value = {"low"}
    WaitOf <- MCOneWait
    None = None
PROPERTIES NoneAdmittedAtGate
