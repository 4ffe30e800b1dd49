SPECIFICATION Spec
CONSTANTS
    MaxPlugs = 3
    MaxLogins = 3
INVARIANTS
    TimelyTokenIsHeard
CHECK_DEADLOCK FALSE
