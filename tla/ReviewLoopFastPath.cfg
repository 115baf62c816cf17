SPECIFICATION Spec
CONSTANTS
    File = {1}
    Versions = 1
    Terms = {t1}
    NoExtras = none
    Extras = {none, strict}
    MaxFiles = 1
    MaxRounds = 1
    MaxBlocks = 1
    Fallback = FALSE
    None = None
    MaxHead = 1
    MaxForced = 0
    MaxChanges = 1
VIEW MCView
PROPERTIES
    FastPathConfirmed
