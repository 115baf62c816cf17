SPECIFICATION Spec
CONSTANTS
    File = {1}
    Versions = 1
    Terms = {t1}
    NoExtras = none
    Extras = {none, strict}
    MaxFiles = 1
    MaxRounds = 2
    MaxBlocks = 1
    Fallback = TRUE
    None = None
    MaxHead = 1
    MaxForced = 0
    MaxChanges = 1
VIEW MCView
INVARIANTS
    NotifyOnce
PROPERTIES
    CachedIsJudged
    RoundsCapped
    BlocksCapped
