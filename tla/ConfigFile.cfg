CONSTANTS
    save = save
    sync = sync
    rotate = rotate
    install = install
    Hand = Hand
    NoOne = NoOne
    Save <- MCSave
    Sync <- MCSync
    Rotate <- MCRotate
    Install <- MCInstall
    Mortal <- MCMortal
SPECIFICATION Spec
INVARIANT MirrorsFollow
PROPERTIES SavesAreKept WritersEnd
CHECK_DEADLOCK FALSE
