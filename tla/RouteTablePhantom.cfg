SPECIFICATION Spec
CONSTANTS
    RouteIds = {push, nightly}
    SecretValues = {s1}
    NoId = NoId
    NoSecret = NoSecret
    SavesMayFail = FALSE
    MaxUpserts = 3  MaxSwitches = 1
SYMMETRY Symmetry
INVARIANTS EventsResolveToRoutes
