CONSTANTS
    alice = alice bob = bob admin = admin steve = steve alex = alex
    seed = seed p1 = p1 p2 = p2
    Flows <- MCFlows
    Names <- MCNames
    Passwords <- MCPasswords
    DefaultAdminUsername = admin
    DefaultAdminPassword = seed
    MaxAccounts = 4
    MaxOps = 6
SPECIFICATION Spec
SYMMETRY Symmetry
CHECK_DEADLOCK FALSE
INVARIANTS
    TypeOK IdentityIsKept AdministratorRemainsUnlessOverlapping FlagsAreKept
