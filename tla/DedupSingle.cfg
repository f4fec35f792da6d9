CONSTANTS
    Key = {k1, k2}
    Worker = {w1}
    AllowDefer = FALSE
    MaxArrivals = 4
    Raw = {1, 2, 3, 4}
    TTL = 2
    MaxEntries = 1
    MaxNow = 4
    IN_FLIGHT = IN_FLIGHT
    NONE = NONE
SPECIFICATION Spec
INVARIANTS TypeOK
PROPERTIES NoRerunWithinTtl ReplaysLastReply ImplementsDuplicateDetection
CHECK_DEADLOCK FALSE
