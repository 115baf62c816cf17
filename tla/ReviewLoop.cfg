SPECIFICATION Spec
CONSTANTS
    File = {1, 2}
    Versions = 1
    Terms = {t1}
    NoExtras = none
    Extras = {none}
    MaxFiles = 1
    MaxRounds = 1
    MaxBlocks = 1
    Fallback = FALSE
    None = None
    MaxHead = 0
    MaxForced = 0
    MaxChanges = 1
VIEW MCView
INVARIANTS
    BaselineMatchesExclusions
PROPERTIES
    CachedIsJudged
    ExclusionsHold
