SPECIFICATION MCSpec
CONSTANTS
    minutely = minutely  secondly = secondly
    Routes = {minutely, secondly}
    Second = 2
    UnitOf <- MCUnitOf
    Schedule <- MCSchedule
    MaxTime = 5
    MaxFaults = 1
    SavesMayFail = TRUE
    Fields <- MCFields
    Tokens <- MCTokens
    Steps = {1, 2}
    MaxParts = 2
INVARIANTS NoDoubleFiring NoMissedFiring ReadingsAgree
