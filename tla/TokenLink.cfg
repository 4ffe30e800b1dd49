SPECIFICATION Spec
CONSTANTS
    MaxPlugs = 3
    MaxLogins = 3
INVARIANTS
    TypeOK
    
    
    HandleFollowsToken
PROPERTIES
    StatusConverges
CHECK_DEADLOCK FALSE
