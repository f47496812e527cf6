SPECIFICATION Spec
CONSTANTS
    NumReceipts = 3
    Photo <- OnePhoto
    MaxTime = 3
INVARIANT
    EveryTextCounts
