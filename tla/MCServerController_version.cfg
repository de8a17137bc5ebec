CONSTANTS
    Users = {u1, u2}
    HasDocker = TRUE
    RestartPolicy = FALSE
    MaxOps = 3
    MaxOutside = 1
SPECIFICATION Spec
CHECK_DEADLOCK FALSE
INVARIANTS
    VersionFollowsLog
