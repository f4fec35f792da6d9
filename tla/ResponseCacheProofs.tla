------------------------ MODULE ResponseCacheProofs ------------------------
(***************************************************************************)
(* Theorems about every sequence of calls on a ResponseCache.              *)
(***************************************************************************)
EXTENDS ResponseCacheApi, ResponseCacheLemmas

\* The keys of a dictionary are keys.
LEMMA KeysOfType ==
    ASSUME NEW d \in Seq(Entry)
    PROVE  KeysOf(d) \subseteq Key
  <1>1. \A i \in DOMAIN d : d[i] \in Entry
    BY LenProperties, ElementOfSeq
  <1>2. \A i \in DOMAIN d : d[i].key \in Key
    BY <1>1 DEF Entry
  <1> QED
    BY <1>2 DEF KeysOf

-----------------------------------------------------------------------------
(* Theorems. *)

\* Every sequence of calls keeps the cache well typed, and lookup() only ever
\* returns a recorded reply, IN_FLIGHT or None.
THEOREM CacheTypeCorrect == Spec => []TypeOK
  <1>1. Init => TypeOK
    <2> SUFFICES ASSUME Init PROVE TypeOK
      OBVIOUS
    <2>1. CacheTypeOK
      BY CacheAssumption, EmptySeq DEF Init, CacheInit, CacheTypeOK
    <2> QED
      BY <2>1 DEF Init, TypeOK, Reply
  <1>2. TypeOK /\ [Next]_vars => TypeOK'
    <2> SUFFICES ASSUME TypeOK, [Next]_vars PROVE TypeOK'
      OBVIOUS
    <2> USE DEF TypeOK
    <2>1. ASSUME NEW k \in Key, Lookup(k)
          PROVE  TypeOK'
      <3>1. LookupEffect(k) /\ answer' = LookupResult(k) /\ UNCHANGED <<latest, lost>>
        BY <2>1 DEF Lookup
      <3>2. CacheTypeOK'
        BY <3>1, LookupEffectFacts DEF CacheTypeOK, LookupEffect
      <3>3. answer' \in Raw \union {IN_FLIGHT, NONE}
        BY <3>1, LookupResultType
      <3>4. used' \in [Key -> Nat] /\ ops' \in Nat
        BY <2>1 DEF Lookup, Access
      <3> QED
        BY <3>1, <3>2, <3>3, <3>4
    <2>2. ASSUME NEW k \in Key, Mark(k) \/ Drop(k)
          PROVE  TypeOK'
      BY <2>2 DEF Mark, Drop, MarkInFlight, DropInFlight, CacheTypeOK
    <2>3. ASSUME NEW k \in Key, NEW r \in Raw, NEW ttl \in Ttls, Record(k, r, ttl)
          PROVE  TypeOK'
      <3>0. now \in Nat /\ now + ttl \in Nat
        BY ApiAssumption, CacheAssumption DEF CacheTypeOK
      <3>1. RecordReply(k, r, now + ttl)
        BY <2>3 DEF Record
      <3>2. CacheTypeOK'
        BY <3>0, <3>1, RecordReplyFacts DEF CacheTypeOK, RecordReply
      <3>3. used' \in [Key -> Nat] /\ ops' \in Nat /\ answer' = answer
        BY <2>3 DEF Record, Access
      <3>4. latest' \in [Key -> Reply \union {NONE}]
        BY <2>3, <3>0 DEF Record, Reply
      <3>5. lost' \subseteq Key
        <4>1. cached \in Seq(Entry)
          BY DEF CacheTypeOK
        <4>2. KeysOf(cached) \subseteq Key
          BY <4>1, KeysOfType
        <4> QED
          BY <2>3, <4>2 DEF Record, CapVictims
      <3> QED
        BY <3>2, <3>3, <3>4, <3>5
    <2>4. CASE Clear
      BY <2>4, EmptySeq DEF Clear, ClearCache, CacheTypeOK
    <2>5. CASE Wait
      BY <2>5, CacheAssumption DEF Wait, Tick, CacheTypeOK
    <2>6. CASE UNCHANGED vars
      BY <2>6 DEF vars, CacheTypeOK
    <2> QED
      BY <2>1, <2>2, <2>3, <2>4, <2>5, <2>6 DEF Next
  <1> QED
    BY <1>1, <1>2, PTL DEF Spec

\* The cache never holds more than max_entries replies, nor two for a key,
\* for every cap, lifetime, clock and sequence of calls.
THEOREM CacheCapRespected == Spec => []CapRespected
  <1>1. Init => CapRespected
    BY CacheAssumption DEF Init, CacheInit, CapRespected
  <1>2. TypeOK /\ CapRespected /\ [Next]_vars => CapRespected'
    <2> SUFFICES ASSUME TypeOK, CapRespected, [Next]_vars PROVE CapRespected'
      OBVIOUS
    <2>0. CacheTypeOK /\ cached \in Seq(Entry) /\ Len(cached) \in Nat
      BY LenProperties DEF TypeOK, CacheTypeOK
    <2>1. Len(cached) <= MaxEntries /\ Unique(cached)
      BY DEF CapRespected, Unique
    <2>2. Len(cached') <= MaxEntries /\ Unique(cached')
      <3>1. ASSUME NEW k \in Key, Lookup(k)
            PROVE  Len(cached') <= MaxEntries /\ Unique(cached')
        <4>1. LookupEffect(k)
          BY <3>1 DEF Lookup
        <4>2. Len(cached') <= Len(cached) /\ cached' \in Seq(Entry) /\ Unique(cached')
          BY <2>0, <2>1, <4>1, LookupEffectFacts
        <4>3. Len(cached') \in Nat
          BY <4>2, LenProperties
        <4> QED
          BY <2>0, <2>1, <4>2, <4>3, CacheAssumption
      <3>2. ASSUME NEW k \in Key, NEW r \in Raw, NEW ttl \in Ttls, Record(k, r, ttl)
            PROVE  Len(cached') <= MaxEntries /\ Unique(cached')
        <4>1. RecordReply(k, r, now + ttl)
          BY <3>2 DEF Record
        <4>2. now + ttl \in Nat
          BY <2>0, ApiAssumption, CacheAssumption DEF CacheTypeOK
        <4> QED
          BY <2>0, <2>1, <4>1, <4>2, RecordReplyFacts
      <3>3. CASE Clear
        <4>1. cached' = <<>>
          BY <3>3 DEF Clear, ClearCache
        <4> QED
          BY <4>1, CacheAssumption DEF Unique
      <3>4. ASSUME UNCHANGED cached
            PROVE  Len(cached') <= MaxEntries /\ Unique(cached')
        BY <2>1, <3>4
      <3>5. ASSUME NEW k \in Key, Mark(k) \/ Drop(k)
            PROVE  UNCHANGED cached
        BY <3>5 DEF Mark, Drop, MarkInFlight, DropInFlight
      <3>6. Wait \/ UNCHANGED vars => UNCHANGED cached
        BY DEF Wait, Tick, vars
      <3> QED
        BY <3>1, <3>2, <3>3, <3>4, <3>5, <3>6 DEF Next
    <2> QED
      BY <2>2 DEF CapRespected, Unique
  <1> QED
    BY <1>1, <1>2, CacheTypeCorrect, PTL DEF Spec

\* What the dictionary holds is the latest reply of each key ...
Faithful ==
    \A i \in DOMAIN cached :
        latest[cached[i].key] = [raw |-> cached[i].raw, exp |-> cached[i].exp]

\* ... and it holds every live reply that the cap did not push out.
Complete == \A k \in Key : Live(k) /\ k \notin lost => Has(cached, k)

CacheInv == TypeOK /\ Unique(cached) /\ Faithful /\ Complete

\* A freshly constructed ResponseCache satisfies the invariant: nothing is
\* cached and nothing has been stored.
LEMMA CacheInvInit == Init => CacheInv
  <1> SUFFICES ASSUME Init PROVE CacheInv
    OBVIOUS
  <1>1. CacheTypeOK
    BY CacheAssumption, EmptySeq DEF Init, CacheInit, CacheTypeOK
  <1>2. TypeOK
    BY <1>1 DEF Init, TypeOK, Reply
  <1>3. cached = <<>> /\ \A k \in Key : latest[k] = NONE
    BY DEF Init, CacheInit
  <1> QED
    BY <1>2, <1>3 DEF CacheInv, Unique, Faithful, Complete, Live

\* Every call on the cache (get, put, mark/drop in flight) and every tick of
\* the clock preserves the invariant.
LEMMA CacheInvStep == CacheInv /\ TypeOK' /\ [Next]_vars => CacheInv'
  <1> SUFFICES ASSUME CacheInv, TypeOK', [Next]_vars
               PROVE  Unique(cached') /\ Faithful' /\ Complete'
    BY DEF CacheInv, Unique
  <1> USE DEF CacheInv
  <1>0. CacheTypeOK /\ cached \in Seq(Entry) /\ now \in Nat
        /\ \A i \in DOMAIN cached : cached[i].key \in Key
    <2>1. CacheTypeOK /\ cached \in Seq(Entry) /\ now \in Nat
      BY CacheAssumption DEF TypeOK, CacheTypeOK
    <2>2. \A i \in DOMAIN cached : cached[i] \in Entry
      BY <2>1, LenProperties, ElementOfSeq
    <2> QED
      BY <2>1, <2>2 DEF Entry
  <1>1. ASSUME NEW k \in Key, Lookup(k)
        PROVE  Unique(cached') /\ Faithful' /\ Complete'
    <2>1. LookupEffect(k) /\ UNCHANGED <<latest, lost, now>>
      BY <1>1 DEF Lookup, LookupEffect
    <2>2. Unique(cached') /\ Within(cached', cached)
      BY <1>0, <2>1, LookupEffectFacts
    <2>3. Faithful'
      BY <2>1, <2>2 DEF Faithful, Within
    <2>4. ASSUME NEW c \in Key, Live(c), c \notin lost
          PROVE  Has(cached', c)
      <3>1. PICK j \in DOMAIN cached : cached[j].key = c
        BY <2>4 DEF Complete, Has
      <3>2. CASE Hit(k)
        <4>1. cached' = MoveToEnd(cached, k) /\ Has(cached, k)
          BY <1>0, <2>1, <3>2, LookupResultType DEF LookupEffect
        <4>2. Within(cached, cached')
          BY <1>0, <4>1, MoveToEndKeeps
        <4> QED
          BY <3>1, <4>2 DEF Within, Has
      <3>3. CASE ~Hit(k)
        <4>1. cached' = Without(cached, k)
          BY <2>1, <3>3 DEF LookupEffect
        <4>2. latest[c].exp = cached[j].exp /\ now < latest[c].exp
          <5>1. latest[c] = [raw |-> cached[j].raw, exp |-> cached[j].exp]
            BY <3>1 DEF Faithful
          <5> QED
            BY <2>4, <5>1 DEF Live
        <4>3. c # k
          BY <3>1, <3>3, <4>2 DEF Hit
        <4>4. \E i \in DOMAIN cached' : cached'[i] = cached[j]
          BY <1>0, <3>1, <4>1, <4>3, WithoutKeeps
        <4> QED
          BY <3>1, <4>4 DEF Has
      <3> QED
        BY <3>2, <3>3
    <2>5. Complete'
      BY <2>1, <2>4 DEF Complete, Live, Has
    <2> QED
      BY <2>2, <2>3, <2>5
  <1>2. ASSUME NEW k \in Key, NEW r \in Raw, NEW ttl \in Ttls, Record(k, r, ttl)
        PROVE  Unique(cached') /\ Faithful' /\ Complete'
    <2> DEFINE x == now + ttl
               e == [key |-> k, raw |-> r, exp |-> x]
    <2>0. x \in Nat
      BY <1>0, ApiAssumption
    <2>1. /\ RecordReply(k, r, x) /\ now' = now
          /\ latest' = [latest EXCEPT ![k] = [raw |-> r, exp |-> x]]
          /\ lost' = (lost \ {k}) \union CapVictims(k)
      BY <1>2 DEF Record, RecordReply
    <2>2. latest \in [Key -> Reply \union {NONE}]
      BY DEF TypeOK
    <2>3. Unique(cached')
      BY <1>0, <2>0, <2>1, RecordReplyFacts
    <2>4. /\ \A i \in DOMAIN cached' :
                \/ cached'[i] = e
                \/ cached'[i].key # k /\ \E j \in DOMAIN cached : cached'[i] = cached[j]
          /\ x > now => Has(cached', k)
      BY <1>0, <2>0, <2>1, RecordReplyEntries
    <2>5. e.key = k /\ e.raw = r /\ e.exp = x
      OBVIOUS
    <2> HIDE DEF e, x
    <2>6. latest'[k] = [raw |-> r, exp |-> x]
          /\ \A c \in Key : c # k => latest'[c] = latest[c]
      BY <2>1, <2>2
    <2>7. ASSUME NEW i \in DOMAIN cached'
          PROVE  latest'[cached'[i].key] = [raw |-> cached'[i].raw, exp |-> cached'[i].exp]
      <3>1. CASE cached'[i] = e
        BY <2>5, <2>6, <3>1
      <3>2. CASE cached'[i].key # k /\ \E j \in DOMAIN cached : cached'[i] = cached[j]
        BY <1>0, <2>6, <3>2 DEF Faithful
      <3> QED
        BY <2>4, <3>1, <3>2
    <2>8. ASSUME NEW c \in Key, Live(c)', c \notin lost'
          PROVE  Has(cached', c)
      <3>1. CASE c = k
        BY <2>1, <2>4, <2>6, <2>8, <3>1 DEF Live
      <3>2. CASE c # k
        <4>1. Live(c) /\ c \notin lost
          BY <2>1, <2>6, <2>8, <3>2 DEF Live
        <4>2. c \in KeysOf(cached)
          BY <4>1 DEF Complete, Has, KeysOf
        <4>3. c \notin CapVictims(k) /\ latest[c].exp > now
          BY <1>0, <2>1, <2>2, <2>8, <4>1 DEF Live, Reply
        <4>4. c \in KeysOf(cached')
          BY <3>2, <4>2, <4>3 DEF CapVictims
        <4> QED
          BY <4>4 DEF KeysOf, Has
      <3> QED
        BY <3>1, <3>2
    <2> QED
      BY <2>3, <2>7, <2>8 DEF Faithful, Complete, Has
  <1>3. CASE Clear
    BY <1>3 DEF Clear, ClearCache, Unique, Faithful, Complete, Live
  <1>4. CASE Wait
    <2>1. UNCHANGED <<cached, latest, lost>> /\ now' = now + 1
      BY <1>4 DEF Wait, Tick
    <2>2. \A k \in Key : Live(k)' => Live(k)
      BY <1>0, <2>1 DEF Live, TypeOK, Reply
    <2> QED
      BY <2>1, <2>2 DEF Unique, Faithful, Complete, Has
  <1>5. ASSUME UNCHANGED <<cached, latest, lost, now>>
        PROVE  Unique(cached') /\ Faithful' /\ Complete'
    BY <1>5 DEF Unique, Faithful, Complete, Has, Live
  <1>6. ASSUME NEW k \in Key, Mark(k) \/ Drop(k)
        PROVE  UNCHANGED <<cached, latest, lost, now>>
    BY <1>6 DEF Mark, Drop, MarkInFlight, DropInFlight
  <1>7. CASE UNCHANGED vars
    BY <1>5, <1>7 DEF vars
  <1> QED
    BY <1>1, <1>2, <1>3, <1>4, <1>5, <1>6, <1>7 DEF Next

\* get() in a state satisfying the invariant returns the latest live reply of
\* the key, and misses only when the reply expired or the cap evicted it.
LEMMA LookupIsExact ==
    ASSUME CacheInv, NEW k \in Key, Lookup(k)
    PROVE  /\ answer' \in Raw => Live(k) /\ answer' = latest[k].raw
           /\ Live(k) /\ k \notin lost => answer' \in Raw
  <1> USE DEF CacheInv
  <1>0. cached \in Seq(Entry)
    BY DEF TypeOK, CacheTypeOK
  <1>1. answer' = LookupResult(k)
    BY DEF Lookup
  <1>2. ASSUME Hit(k)
        PROVE  answer' \in Raw /\ Live(k) /\ answer' = latest[k].raw
    <2>1. PICK i \in DOMAIN cached : cached[i].key = k /\ now < cached[i].exp
      BY <1>2 DEF Hit
    <2>2. IndexOf(cached, k) = i
      <3>1. Has(cached, k)
        BY <2>1 DEF Has
      <3> QED
        BY <2>1, <3>1, IndexOfFacts DEF Unique
    <2>3. answer' = cached[i].raw
      BY <1>1, <1>2, <2>2 DEF LookupResult
    <2>4. cached[i] \in Entry
      BY <1>0, LenProperties, ElementOfSeq
    <2>5. latest[k] = [raw |-> cached[i].raw, exp |-> cached[i].exp]
      BY <2>1 DEF Faithful
    <2>6. latest[k] # NONE
      BY <2>4, <2>5, ApiAssumption DEF Entry
    <2> QED
      BY <2>1, <2>3, <2>4, <2>5, <2>6 DEF Live, Entry
  <1>3. ASSUME ~Hit(k)
        PROVE  answer' \notin Raw /\ (Live(k) => k \in lost)
    <2>1. answer' \in {IN_FLIGHT, NONE}
      BY <1>1, <1>3 DEF LookupResult
    <2>2. ASSUME Live(k), k \notin lost
          PROVE  FALSE
      <3>1. PICK i \in DOMAIN cached : cached[i].key = k
        BY <2>2 DEF Complete, Has
      <3>2. latest[k].exp = cached[i].exp
        <4>1. latest[k] = [raw |-> cached[i].raw, exp |-> cached[i].exp]
          BY <3>1 DEF Faithful
        <4> QED
          BY <4>1
      <3> QED
        BY <1>3, <2>2, <3>1, <3>2 DEF Live, Hit
    <2> QED
      BY <2>1, <2>2, CacheAssumption
  <1> QED
    BY <1>2, <1>3

\* lookup() replays the latest reply exactly while it is live and was not
\* pushed out by the cap, for every cap, lifetime, clock and sequence of calls.
THEOREM CacheLookupExact == Spec => LookupExact
  <1>1. CacheInv /\ [Next]_vars =>
          [\A k \in Key : Lookup(k) =>
              /\ answer' \in Raw => Live(k) /\ answer' = latest[k].raw
              /\ Live(k) /\ k \notin lost => answer' \in Raw]_vars
    BY LookupIsExact
  <1>2. Spec => []CacheInv
    BY CacheInvInit, CacheInvStep, CacheTypeCorrect, PTL DEF Spec
  <1> QED
    BY <1>1, <1>2, PTL DEF Spec, LookupExact

-----------------------------------------------------------------------------
(* The order of the dictionary is the order of uses. *)

UsesCounted == \A k \in Key : used[k] <= ops

\* Later in the dictionary is used later.
ByUse(d, u) == \A i, j \in DOMAIN d : i < j => u[d[i].key] < u[d[j].key]

UseInv == CacheInv /\ UsesCounted /\ ByUse(cached, used)

\* An entry that is put at the end is the one used last.
LEMMA PutKeepsOrder ==
    ASSUME UseInv, NEW k \in Key, NEW e \in Entry, e.key = k, Access(k)
    PROVE  ByUse(PutAtEnd(cached, k, e), used')
  <1> DEFINE w == Without(cached, k)
             p == Append(w, e)
  <1>0. cached \in Seq(Entry) /\ Unique(cached) /\ ops \in Nat /\ used \in [Key -> Nat]
    BY DEF UseInv, CacheInv, TypeOK, CacheTypeOK
  <1>1. /\ w \in Seq(Entry) /\ ~Has(w, k)
        /\ InOrderOf(w, cached)
    BY <1>0, WithoutFacts, WithoutOrder
  <1>2. PutAtEnd(cached, k, e) = p
    BY DEF PutAtEnd
  <1> HIDE DEF w
  <1>3. /\ Len(w) \in Nat /\ DOMAIN w = 1..Len(w)
        /\ \A i \in 1..Len(w) : w[i] \in Entry
    BY <1>1, LenProperties, ElementOfSeq
  <1>4. /\ DOMAIN p = 1..(Len(w) + 1)
        /\ \A i \in 1..Len(w) : p[i] = w[i]
        /\ p[Len(w) + 1] = e
    BY <1>1, <1>3, AppendProperties, LenProperties
  <1> HIDE DEF p
  <1>5. used'[k] = ops + 1 /\ \A c \in Key : c # k => used'[c] = used[c]
    BY <1>0 DEF Access
  <1>6. \A i \in 1..Len(w) : w[i].key \in Key /\ w[i].key # k
    BY <1>1, <1>3 DEF Has, Entry
  <1>7. ASSUME NEW i \in DOMAIN p, NEW j \in DOMAIN p, i < j
        PROVE  used'[p[i].key] < used'[p[j].key]
    <2>1. i \in 1..Len(w) /\ (j \in 1..Len(w) \/ j = Len(w) + 1)
      BY <1>3, <1>4, <1>7
    <2>2. used'[p[i].key] = used[w[i].key] /\ used[w[i].key] \in Nat /\ used[w[i].key] <= ops
      BY <1>0, <1>4, <1>5, <1>6, <2>1 DEF UseInv, UsesCounted
    <2>3. CASE j = Len(w) + 1
      BY <1>0, <1>4, <1>5, <2>2, <2>3
    <2>4. CASE j \in 1..Len(w)
      <3>1. used'[p[j].key] = used[w[j].key]
        BY <1>4, <1>5, <1>6, <2>4
      <3>2. PICK a, b \in DOMAIN cached : a < b /\ w[i] = cached[a] /\ w[j] = cached[b]
        BY <1>1, <1>3, <1>7, <2>1, <2>4 DEF InOrderOf
      <3>3. used[cached[a].key] < used[cached[b].key]
        BY <3>2 DEF UseInv, ByUse
      <3> QED
        BY <2>2, <3>1, <3>2, <3>3
    <2> QED
      BY <2>1, <2>3, <2>4
  <1> QED
    BY <1>2, <1>7 DEF ByUse

\* What record_reply leaves, and what it pushes out: a part of the dictionary
\* with the new reply at its end from some place on, and the keys before it.
LEMMA RecordKeepsOrder ==
    ASSUME UseInv, NEW k \in Key, NEW r \in Raw, NEW ttl \in Ttls, Record(k, r, ttl)
    PROVE  /\ ByUse(cached', used')
           /\ \A v \in CapVictims(k) : \A c \in KeysOf(cached') : used'[v] < used'[c]
  <1> DEFINE e == [key |-> k, raw |-> r, exp |-> now + ttl]
             p == PutAtEnd(cached, k, e)
  <1>0. cached \in Seq(Entry) /\ now \in Nat /\ now + ttl \in Nat
    BY ApiAssumption, CacheAssumption DEF UseInv, CacheInv, TypeOK, CacheTypeOK
  <1>1. e \in Entry /\ e.key = k
    BY <1>0 DEF Entry
  <1>2. cached' = Evict(p, now) /\ Access(k)
    BY DEF Record, RecordReply
  <1>3. ByUse(p, used')
    BY <1>1, <1>2, PutKeepsOrder
  <1>4. p \in Seq(Entry)
    BY <1>0, <1>1, PutAtEndFacts
  <1>5. \A j \in DOMAIN cached : cached[j].key # k => \E i \in DOMAIN p : p[i] = cached[j]
    <2> HIDE DEF e
    <2> QED
      BY <1>0, <1>1, PutAtEndKeeps
  <1> HIDE DEF p
  <1>6. PICK m \in 1..(Len(p) + 1) :
           /\ DOMAIN cached' = 1..(Len(p) - m + 1)
           /\ \A i \in DOMAIN cached' : m + i - 1 \in DOMAIN p /\ cached'[i] = p[m + i - 1]
    BY <1>0, <1>2, <1>4, EvictSuffix
  <1>7. Len(p) \in Nat /\ DOMAIN p = 1..Len(p)
    BY <1>4, LenProperties
  <1>8. ByUse(cached', used')
    <2> SUFFICES ASSUME NEW i \in DOMAIN cached', NEW j \in DOMAIN cached', i < j
                 PROVE  used'[cached'[i].key] < used'[cached'[j].key]
      BY DEF ByUse
    <2>1. m + i - 1 < m + j - 1 /\ m + i - 1 \in DOMAIN p /\ m + j - 1 \in DOMAIN p
      BY <1>6, <1>7
    <2> QED
      BY <1>3, <1>6, <2>1 DEF ByUse
  <1>9. ASSUME NEW v \in CapVictims(k), NEW c \in KeysOf(cached')
        PROVE  used'[v] < used'[c]
    <2>1. v \in KeysOf(cached) /\ v \notin KeysOf(cached') /\ v # k
      BY <1>9 DEF CapVictims
    <2>2. PICK a \in DOMAIN p : p[a].key = v
      BY <1>5, <2>1 DEF KeysOf
    <2>3. PICK i \in DOMAIN cached' : cached'[i].key = c
      BY <1>9 DEF KeysOf
    <2>4. a < m
      <3> SUFFICES ASSUME ~(a < m) PROVE FALSE
        OBVIOUS
      <3>1. a - m + 1 \in DOMAIN cached' /\ m + (a - m + 1) - 1 = a
        BY <1>6, <1>7
      <3>2. cached'[a - m + 1] = p[a]
        BY <1>6, <3>1
      <3> QED
        BY <2>1, <2>2, <3>1, <3>2 DEF KeysOf
    <2>5. a < m + i - 1 /\ m + i - 1 \in DOMAIN p
      BY <1>6, <1>7, <2>4
    <2> QED
      BY <1>3, <1>6, <2>2, <2>3, <2>5 DEF ByUse
  <1> QED
    BY <1>8, <1>9

LEMMA UseInvStep == UseInv /\ CacheInv' /\ [Next]_vars => UseInv'
  <1> SUFFICES ASSUME UseInv, CacheInv', [Next]_vars
               PROVE  UsesCounted' /\ ByUse(cached', used')
    BY DEF UseInv
  <1>0. /\ cached \in Seq(Entry) /\ ops \in Nat /\ used \in [Key -> Nat]
        /\ CacheTypeOK /\ Unique(cached)
    BY DEF UseInv, CacheInv, TypeOK, CacheTypeOK
  <1>1. ASSUME NEW k \in Key, Access(k) PROVE UsesCounted'
    <2>1. ops' = ops + 1 /\ \A c \in Key : used'[c] \in {used[c], ops + 1}
      BY <1>0, <1>1 DEF Access
    <2> QED
      BY <1>0, <2>1 DEF UseInv, UsesCounted
  <1>2. ASSUME NEW k \in Key, Lookup(k) PROVE UsesCounted' /\ ByUse(cached', used')
    <2>1. CASE Hit(k)
      <3>1. cached' = MoveToEnd(cached, k) /\ Access(k) /\ Has(cached, k)
        BY <1>0, <1>2, <2>1, LookupResultType DEF Lookup, LookupEffect
      <3> DEFINE e == cached[IndexOf(cached, k)]
      <3>2. e \in Entry /\ e.key = k
        BY <1>0, <3>1, IndexOfFacts, LenProperties, ElementOfSeq
      <3>3. cached' = PutAtEnd(cached, k, e)
        BY <3>1 DEF MoveToEnd
      <3> HIDE DEF e
      <3> QED
        BY <1>1, <3>1, <3>2, <3>3, PutKeepsOrder
    <2>2. CASE ~Hit(k)
      <3>1. cached' = Without(cached, k) /\ UNCHANGED <<used, ops>>
        BY <1>2, <2>2 DEF Lookup, LookupEffect
      <3>2. InOrderOf(cached', cached)
        BY <1>0, <3>1, WithoutOrder
      <3>3. ByUse(cached', used)
        BY <3>2 DEF UseInv, ByUse, InOrderOf
      <3> QED
        BY <3>1, <3>3 DEF UseInv, UsesCounted
    <2> QED
      BY <2>1, <2>2
  <1>3. ASSUME NEW k \in Key, NEW r \in Raw, NEW ttl \in Ttls, Record(k, r, ttl)
        PROVE  UsesCounted' /\ ByUse(cached', used')
    <2>1. Access(k)
      BY <1>3 DEF Record
    <2> QED
      BY <1>1, <1>3, <2>1, RecordKeepsOrder
  <1>4. CASE Clear
    <2>1. cached' = <<>> /\ UNCHANGED <<used, ops>>
      BY <1>4 DEF Clear, ClearCache
    <2> QED
      BY <2>1 DEF UseInv, UsesCounted, ByUse
  <1>5. ASSUME UNCHANGED <<cached, used, ops>>
        PROVE  UsesCounted' /\ ByUse(cached', used')
    BY <1>5 DEF UseInv, UsesCounted, ByUse
  <1>6. ASSUME NEW k \in Key, Mark(k) \/ Drop(k) PROVE UNCHANGED <<cached, used, ops>>
    BY <1>6 DEF Mark, Drop, MarkInFlight, DropInFlight
  <1>7. Wait \/ UNCHANGED vars => UNCHANGED <<cached, used, ops>>
    BY DEF Wait, Tick, vars
  <1> QED
    BY <1>2, <1>3, <1>4, <1>5, <1>6, <1>7 DEF Next

\* When _evict_locked pushes out a live reply, all that stay were recorded or
\* hit more recently, for every cap, lifetime, clock and sequence of calls.
THEOREM CacheEvictsLeastRecentlyUsed == Spec => EvictsLeastRecentlyUsed
  <1>1. Init => UseInv
    <2>1. Init => UsesCounted /\ ByUse(cached, used)
      BY DEF Init, CacheInit, UsesCounted, ByUse
    <2> QED
      BY <2>1, CacheInvInit DEF UseInv
  <1>2. Spec => []UseInv
    <2>1. Spec => []CacheInv
      BY CacheInvInit, CacheInvStep, CacheTypeCorrect, PTL DEF Spec
    <2> QED
      BY <1>1, <2>1, UseInvStep, PTL DEF Spec
  <1>3. UseInv /\ [Next]_vars =>
          [\A v \in lost' \ lost : \A k \in KeysOf(cached') : used'[v] < used'[k]]_vars
    <2> SUFFICES ASSUME UseInv, Next, NEW v \in lost' \ lost, NEW c \in KeysOf(cached')
                 PROVE  used'[v] < used'[c]
      OBVIOUS
    <2>1. PICK k \in Key, r \in Raw, ttl \in Ttls : Record(k, r, ttl)
      BY DEF Next, Lookup, Mark, Drop, Clear, Wait
    <2>2. v \in CapVictims(k)
      BY <2>1 DEF Record
    <2> QED
      BY <2>1, <2>2, RecordKeepsOrder
  <1> QED
    BY <1>2, <1>3, PTL DEF Spec, EvictsLeastRecentlyUsed

=============================================================================
