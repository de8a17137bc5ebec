CONSTANTS
    Calls = {c1, c2, c3}
    MaxDrops = 2
    MaxOutages = 2
SPECIFICATION FairSpec
CHECK_DEADLOCK FALSE
INVARIANTS
    TypeOK LivePageIsLeftAlone
PROPERTIES
    ReloadsOnlyLostPages ComesBack
