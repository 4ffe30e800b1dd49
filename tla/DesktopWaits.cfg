SPECIFICATION Spec
CONSTANTS
    Users = {a}
    WrongKey = WrongKey
    NoKey = NoKey
    MaxLogins = 2
    MaxTasks = 1
    MaxDepth = 2
    Vaults <- MCVaults
PROPERTIES
    WaitsEnd
CHECK_DEADLOCK FALSE
