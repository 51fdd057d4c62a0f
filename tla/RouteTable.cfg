SPECIFICATION Spec
CONSTANTS
    RouteIds = {push, nightly}
    SecretValues = {s1, s2}
    NoId = NoId
    NoSecret = NoSecret
    SavesMayFail = TRUE
    MaxUpserts = 3  MaxSwitches = 1
SYMMETRY Symmetry
INVARIANTS ServedRoutesKept StoredRoutesKept RefsAreOwn
