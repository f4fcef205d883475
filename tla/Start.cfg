SPECIFICATION FairSpec
CONSTANTS
    Instances = {i1, i2, i3}
    KillLimit = 1
INVARIANTS
    TypeOK
    ServesOnlyWhole
    WaitersHoldNothing
    StoppedAtMostTwice
PROPERTIES
    NeverOverwrites
    AllServe
CHECK_DEADLOCK FALSE
