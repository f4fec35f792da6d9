------------------------- MODULE ResponseCacheApi -------------------------
(***************************************************************************)
(* Every sequence of calls that callers holding a ResponseCache can make.  *)
(* The variables latest, lost, used and ops are history: they say what was *)
(* recorded and used, independently of how the cache orders and evicts.    *)
(***************************************************************************)
EXTENDS ResponseCache

CONSTANTS
    Ttls,        \* values of record_reply's ttl argument; TTL is the default
    MaxOps       \* bound: cache accesses that are counted

ASSUME ApiAssumption ==
    /\ Ttls \subseteq Nat
    /\ MaxOps \in Nat
    /\ NONE \notin [raw: Raw, exp: Nat]

VARIABLES
    latest,      \* latest[k]: the last reply recorded for k, or NONE
    lost,        \* keys evicted by the LRU cap since they were recorded
    used,        \* used[k]: the ops at which k was last recorded or hit
    ops,         \* number of accesses so far
    answer       \* what the last lookup returned

vars == <<inFlight, cached, now, latest, lost, used, ops, answer>>

KeysOf(d) == {d[i].key : i \in DOMAIN d}

Reply == [raw: Raw, exp: Nat]

TypeOK ==
    /\ CacheTypeOK
    /\ latest \in [Key -> Reply \union {NONE}]
    /\ lost \subseteq Key
    /\ used \in [Key -> Nat]
    /\ ops \in Nat
    /\ answer \in Raw \union {IN_FLIGHT, NONE}

Init ==
    /\ CacheInit
    /\ latest = [k \in Key |-> NONE]
    /\ lost = {}
    /\ used = [k \in Key |-> 0]
    /\ ops = 0
    /\ answer = NONE

Access(k) ==
    /\ ops < MaxOps
    /\ ops' = ops + 1
    /\ used' = [used EXCEPT ![k] = ops + 1]

Lookup(k) ==
    /\ LookupEffect(k)
    /\ answer' = LookupResult(k)
    /\ IF Hit(k) THEN Access(k) ELSE UNCHANGED <<used, ops>>
    /\ UNCHANGED <<latest, lost>>

Mark(k) ==
    /\ MarkInFlight(k)
    /\ UNCHANGED <<latest, lost, used, ops, answer>>

Drop(k) ==
    /\ DropInFlight(k)
    /\ UNCHANGED <<latest, lost, used, ops, answer>>

\* Live entries that this call removes, other than the one it replaces.
CapVictims(k) ==
    {v \in KeysOf(cached) \ KeysOf(cached') : v # k /\ latest[v].exp > now}

Record(k, raw, ttl) ==
    /\ RecordReply(k, raw, now + ttl)
    /\ Access(k)
    /\ latest' = [latest EXCEPT ![k] = [raw |-> raw, exp |-> now + ttl]]
    /\ lost' = (lost \ {k}) \union CapVictims(k)
    /\ UNCHANGED answer

Clear ==
    /\ ClearCache
    /\ latest' = [k \in Key |-> NONE]
    /\ lost' = {}
    /\ UNCHANGED <<used, ops, answer>>

Wait ==
    /\ Tick
    /\ UNCHANGED <<latest, lost, used, ops, answer>>

Next ==
    \/ \E k \in Key : Lookup(k) \/ Mark(k) \/ Drop(k)
    \/ \E k \in Key, raw \in Raw, ttl \in Ttls : Record(k, raw, ttl)
    \/ Clear
    \/ Wait

Spec == Init /\ [][Next]_vars

-----------------------------------------------------------------------------
(* Properties. *)

\* The dictionary never outgrows max_entries and holds a key once, whatever
\* is recorded, refreshed or left to expire (_evict_locked's cap loop).
CapRespected ==
    /\ Len(cached) <= MaxEntries
    /\ \A i, j \in DOMAIN cached : i # j => cached[i].key # cached[j].key

Live(k) == latest[k] # NONE /\ now < latest[k].exp

\* lookup() answers a key with its latest recorded reply exactly while that
\* reply is live and was not pushed out by the cap: an expired or superseded
\* reply is never replayed, and a live one is never forgotten early.
LookupExact ==
    [][\A k \in Key : Lookup(k) =>
          /\ answer' \in Raw => Live(k) /\ answer' = latest[k].raw
          /\ Live(k) /\ k \notin lost => answer' \in Raw]_vars

\* When record_reply pushes out a reply that is still live, every reply that
\* stays was recorded or hit more recently: the cap removes the least
\* recently used entry (OrderedDict order versus the history of uses).
EvictsLeastRecentlyUsed ==
    [][\A v \in lost' \ lost : \A k \in KeysOf(cached') : used'[v] < used'[k]]_vars

=============================================================================
