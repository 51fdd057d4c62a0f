SPECIFICATION MCSpec
CONSTANTS
    Paths = {p1, p2}
    Names = {n1, n2}
    Ids = {i1, i2}
    Refreshers = {f1}
    None = None
    Nobody = Nobody
    Adapters = {a, b}
    Unknown = Unknown
    NoAdapter = NoAdapter
    Events = {e1}
    r1 = r1  r2 = r2  r3 = r3  r4 = r4
    Runs = {r1, r2, r3, r4}
    Day <- MCDay
    FinishedAt <- MCFinishedAt
    OfRoute = {r2, r3}
    Limit = 1
    Readers = {q}
    Daemons = {d1, d2, d3}
    Calls = {c1}
    Ports = {o1, o2}
    AnyPort = AnyPort
    Other = Other
SYMMETRY Symmetry
INVARIANTS
    OneRecordPerPath AnswersStand
    EventsFailClosed AnswersAreComplete
    OneServes ServingIsReachable LoneStartServes RegistrationsSaved
PROPERTY SelectionSticks
CHECK_DEADLOCK FALSE
