SPECIFICATION Spec
CONSTANTS
    Lengths = {4, 5, 6}
    Default = 5
INVARIANTS
    TypeOK
    LabelFits
    StuckOnlySpecial
CHECK_DEADLOCK FALSE
