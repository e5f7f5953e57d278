SPECIFICATION FairSpec
CONSTANTS
    MaxCommands = 3
    MaxCrashes = 2
    ShadowMayDie = TRUE
    SnapshotInterval = 2
INVARIANT ShadowFollows
INVARIANT SnapshotAtOffset
INVARIANT AtLeastOnce
PROPERTY CommittedNotRepeated
PROPERTY DeathNoticed
CHECK_DEADLOCK FALSE
