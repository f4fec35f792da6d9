--------------------------- MODULE ResponseCache ---------------------------
(***************************************************************************)
(* The RFC 5080 response cache of pyrad2/dedup.py: a set of requests whose *)
(* handler is running, and an LRU+TTL dictionary of encoded replies.       *)
(*                                                                         *)
(* Each operation below is the body of one method, which runs under the    *)
(* cache's RLock, so it is one atomic step.  What a caller computes before *)
(* it takes the lock (the expiry of record_reply, the decision of          *)
(* consult_cache) is a step of its own in the modules that use this one.   *)
(***************************************************************************)
EXTENDS Integers, Sequences, SequencesExt, FiniteSetsExt

CONSTANTS
    Key,         \* duplicate-detection tuples (DedupKey)
    Raw,         \* encoded replies
    TTL,         \* ResponseCache.ttl, in clock units
    MaxEntries,  \* ResponseCache.max_entries
    MaxNow,      \* bound: the clock stops here
    IN_FLIGHT,   \* the sentinel lookup() returns for a running handler
    NONE         \* Python's None

\* __init__ raises ValueError unless ttl and max_entries are positive.
ASSUME CacheAssumption ==
    /\ TTL \in Nat \ {0}
    /\ MaxEntries \in Nat \ {0}
    /\ MaxNow \in Nat
    /\ IN_FLIGHT \notin Raw
    /\ NONE \notin Raw
    /\ IN_FLIGHT # NONE

VARIABLES
    inFlight,    \* _in_flight
    cached,      \* _cached, an OrderedDict: newest use last
    now          \* what _clock() returns

cacheVars == <<inFlight, cached, now>>

Entry == [key: Key, raw: Raw, exp: Nat]

CacheTypeOK ==
    /\ inFlight \subseteq Key
    /\ cached \in Seq(Entry)
    /\ now \in 0..MaxNow

CacheInit ==
    /\ inFlight = {}
    /\ cached = <<>>
    /\ now = 0

-----------------------------------------------------------------------------
(* The ordered dictionary. *)

Has(d, k) == \E i \in DOMAIN d : d[i].key = k

IndexOfNewest(d, k) == Len(d)
IndexOf(d, k) == CHOOSE i \in DOMAIN d : d[i].key = k

\* del d[k]
Without(d, k) == IF Has(d, k) THEN RemoveAt(d, IndexOf(d, k)) ELSE d

\* d[k] = e followed by d.move_to_end(k)
PutAtEnd(d, k, e) == Append(Without(d, k), e)

\* d.move_to_end(k)
KeepOrder(d, k) == d
MoveToEnd(d, k) == PutAtEnd(d, k, d[IndexOf(d, k)])

\* The first loop of _evict_locked stops at the first entry that has not
\* expired; expired entries behind a live one stay.
FirstLive(d, t) ==
    LET live == {i \in DOMAIN d : d[i].exp > t}
    IN  IF live = {} THEN Len(d) + 1 ELSE Min(live)

\* _evict_locked: drop the expired prefix, then pop the oldest entries until
\* the dictionary fits.
EvictTooMuch(d, t) ==
    SubSeq(d, Max({FirstLive(d, t), Len(d) - MaxEntries + 2}), Len(d))
EvictOffByOne(d, t) ==
    SubSeq(d, Max({FirstLive(d, t), Len(d) - MaxEntries}), Len(d))
Evict(d, t) ==
    SubSeq(d, Max({FirstLive(d, t), Len(d) - MaxEntries + 1}), Len(d))

-----------------------------------------------------------------------------
(* The methods. *)

\* The test of lookup(): a cached entry counts while clock < expires_at.
LiveInclusive(k) ==
    \E i \in DOMAIN cached : cached[i].key = k /\ now <= cached[i].exp
LiveEarly(k) ==
    \E i \in DOMAIN cached : cached[i].key = k /\ now + 1 < cached[i].exp
Hit(k) ==
    \E i \in DOMAIN cached : cached[i].key = k /\ now < cached[i].exp

\* What lookup() returns ...
LookupEntry(k) ==
    IF Hit(k) THEN cached[IndexOf(cached, k)]
    ELSE IF k \in inFlight THEN IN_FLIGHT
    ELSE NONE
LookupResult(k) ==
    IF Hit(k) THEN cached[IndexOf(cached, k)].raw
    ELSE IF k \in inFlight THEN IN_FLIGHT
    ELSE NONE

\* ... and what it does: refresh the position of a live entry (its expiry is
\* not extended), delete an expired one.
LookupEffect(k) ==
    /\ cached' = IF Hit(k) THEN MoveToEnd(cached, k) ELSE Without(cached, k)
    /\ UNCHANGED <<inFlight, now>>

MarkInFlight(k) ==
    /\ inFlight' = inFlight \union {k}
    /\ UNCHANGED <<cached, now>>

DropInFlight(k) ==
    /\ inFlight' = inFlight \ {k}
    /\ UNCHANGED <<cached, now>>

\* record_reply, once expires_at has been computed.
RecordReply(k, raw, exp) ==
    /\ inFlight' = inFlight \ {k}
    /\ cached' = Evict(PutAtEnd(cached, k, [key |-> k, raw |-> raw, exp |-> exp]), now)
    /\ now' = now

ClearCache ==
    /\ cached' = <<>>
    /\ inFlight' = {}
    /\ now' = now

\* The monotonic clock.
Tick ==
    /\ now < MaxNow
    /\ now' = now + 1
    /\ UNCHANGED <<inFlight, cached>>

=============================================================================
