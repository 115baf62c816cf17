SPECIFICATION Spec
CONSTANTS
    Review = {}
    Visitor = {}
    Slot = {}
    Core = {c1, c2}
    First = c1
    Setting = {"limit", "pin", "rounds"}
    Editable = {"rounds"}
    Value = {"low", "high"}
    WaitOf <- MCPinnedWait
    None = None
PROPERTIES
    WaitWasPublished
    SettingsInStep
