CONSTANTS
    Users = {u1, u2}
    HasDocker = TRUE
    RestartPolicy = TRUE
    MaxOps = 3
    MaxOutside = 1
SPECIFICATION Spec
CHECK_DEADLOCK FALSE
SYMMETRY Symmetry
INVARIANTS
    TypeOK
    StopSticks
    RestartMeansNewRun
    TimeoutMeansStarted
    StoppingFlagIsHeld
    NoStaleListing
