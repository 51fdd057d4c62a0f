SPECIFICATION Spec
CONSTANTS
    Installers = {i1, i2}
    Old = Old
    Nothing = Nothing
SYMMETRY Symmetry
INVARIANT InstalledStays
CHECK_DEADLOCK FALSE
