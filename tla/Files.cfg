SPECIFICATION MCSpec
CONSTANTS
    Installers = {i1, i2, i3}
    Old = Old
    Nothing = Nothing
    MaxLines = 3
    Creators = {c1, c2}
    Slugs = {1, 2}
    Base = 2
    Width = 2
    MaxNumber = 4
    ByHand <- MCByHand
    Days = {1, 2}
    Setups = {s1, s2}
    Commands = {f1, f2}
SYMMETRY Symmetry
INVARIANTS PackageSurvives UpgradeHeals PlansInOrder ReadersAgree SetupAddsOnly
PROPERTY AllOrNothing
CHECK_DEADLOCK FALSE
