SPECIFICATION Spec
CONSTANTS
    push = push  issue = issue  k = k  other = other
    Deliveries = {d1, d2, d3}
    Requests <- MCRequests
    GlobalQueueCapacity = 1
    DedupTTL = 1
    MaxTime = 2
SYMMETRY Symmetry
INVARIANT AnswersMatchEffects
PROPERTIES RepeatsAreRefused OnlyRepeatsAreRefused
