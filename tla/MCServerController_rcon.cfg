CONSTANTS
    Users = {u1, u2}
    HasDocker = FALSE
    RestartPolicy = FALSE
    MaxOps = 3
    MaxOutside = 1
SPECIFICATION FairSpec
CHECK_DEADLOCK FALSE
PROPERTIES
    EveryOperationEnds
