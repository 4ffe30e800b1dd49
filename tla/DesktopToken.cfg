SPECIFICATION Spec
CONSTANTS
    Users = {a, b}
    WrongKey = WrongKey
    NoKey = NoKey
    MaxLogins = 2
    MaxTasks = 1
    MaxDepth = 2
    Vaults <- MCVaults
SYMMETRY Symmetry
INVARIANTS
    ManagerNeedsToken
CHECK_DEADLOCK FALSE
