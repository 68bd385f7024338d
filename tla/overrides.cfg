\* One request, two processes that may complete it, three heads.
SPECIFICATION FairSpec
CONSTANTS
    Requests = {r1}
    Workers = {w1, w2}
    MaxHead = 3
CHECK_DEADLOCK FALSE
INVARIANT TypeOK
INVARIANT OneCompletion
INVARIANT OverrideOnRecord
PROPERTY LedgerKept
PROPERTY RequestSettles
