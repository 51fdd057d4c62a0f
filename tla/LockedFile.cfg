SPECIFICATION FairSpec
CONSTANTS
    Writers = {w1, w2, w3}
    Readers = {r1}
INVARIANTS LockExcludes UpdatesKept ReadsAreCurrent
PROPERTIES CallsEnd ImplementsSharedFile
CHECK_DEADLOCK FALSE
