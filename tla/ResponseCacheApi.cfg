CONSTANTS
    Key = {k1, k2, k3}
    Raw = {r1, r2}
    TTL = 2
    Ttls = {1, 2}
    MaxEntries = 2
    MaxNow = 2
    MaxOps = 4
    IN_FLIGHT = IN_FLIGHT
    NONE = NONE
SPECIFICATION Spec
INVARIANTS TypeOK CapRespected
PROPERTIES LookupExact EvictsLeastRecentlyUsed
