------------------------- MODULE DedupServerProofs -------------------------
(***************************************************************************)
(* Theorems about the dispatch with duplicate detection, for every number  *)
(* of dispatching threads and with handlers that may defer their reply;    *)
(* and, for one dispatch loop without deferred replies, that it implements *)
(* DuplicateDetection.                                                     *)
(***************************************************************************)
EXTENDS DedupServer, ResponseCacheLemmas, FiniteSetTheorems

\* Handler run n served key k.
Produced(k, n) == n \in DOMAIN runs /\ runs[n] = k

\* Workers that have taken a datagram and may still enter a handler for it.
Entering == {w \in Worker : pc[w] \in {"consult", "mark"}}

\* Each handler run was preceded by a datagram of its own, and so will be
\* those of the workers on their way to one.
RunsCounted == Len(runs) + Cardinality(Entering) <= arrivals

\* Only requests with a key are marked and recorded.
OnlyKeyedRecorded == \A w \in Worker : pc[w] \in {"mark", "record"} => req[w] # NONE

\* A worker inside a handler serves the request its run was started for.
RunsServeRequests == \A w \in Worker : InHandler(w) => Produced(req[w], run[w])

\* Replies that are due, on their way into the cache, or in it.
DueRepliesMatch == \A n \in deferred : n \in DOMAIN runs
RecordedRepliesMatch == \A r \in recording : Produced(r.key, r.raw)
CachedRepliesMatch == \A i \in DOMAIN cached : Produced(cached[i].key, cached[i].raw)

Provenance ==
    /\ RunsServeRequests
    /\ DueRepliesMatch
    /\ RecordedRepliesMatch
    /\ CachedRepliesMatch
    /\ RepliesMatchRequests

Inv == TypeOK /\ RunsCounted /\ OnlyKeyedRecorded /\ Provenance /\ InFlightOwned

-----------------------------------------------------------------------------
(* Lemmas. *)

\* The arithmetic and sequence facts the steps below need of a typed state.
LEMMA TypeFacts ==
    ASSUME TypeOK
    PROVE  /\ CacheTypeOK
           /\ cached \in Seq(Entry)
           /\ now \in Nat /\ now + TTL \in Nat
           /\ runs \in Seq(OptKey) /\ Len(runs) \in Nat /\ DOMAIN runs = 1..Len(runs)
           /\ IsFiniteSet(Entering) /\ Cardinality(Entering) \in Nat
           /\ arrivals \in Nat /\ MaxArrivals \in Nat
  <1>1. cached \in Seq(Entry) /\ CacheTypeOK /\ runs \in Seq(OptKey)
    BY DEF TypeOK, CacheTypeOK
  <1>2. now \in Nat /\ now + TTL \in Nat /\ arrivals \in Nat /\ MaxArrivals \in Nat
    BY CacheAssumption, DedupAssumption DEF TypeOK, CacheTypeOK
  <1>3. IsFiniteSet(Entering)
    <2>1. IsFiniteSet(Worker) /\ Entering \in SUBSET Worker
      BY DedupAssumption DEF Entering
    <2> QED
      BY <2>1, FS_Subset
  <1>4. Cardinality(Entering) \in Nat
    BY <1>3, FS_CardinalityType
  <1>5. Len(runs) \in Nat /\ DOMAIN runs = 1..Len(runs)
    BY <1>1, LenProperties
  <1> QED
    BY <1>1, <1>2, <1>3, <1>4, <1>5

\* A worker on its way to a handler leaves room for one more run.
LEMMA RoomForRun ==
    ASSUME Inv, NEW w \in Entering
    PROVE  Len(runs) + 1 <= MaxArrivals
  <1>1. /\ IsFiniteSet(Entering) /\ Cardinality(Entering) \in Nat
        /\ Len(runs) \in Nat /\ arrivals \in Nat /\ MaxArrivals \in Nat
    BY TypeFacts DEF Inv
  <1>2. Cardinality(Entering \ {w}) = Cardinality(Entering) - 1
    BY <1>1, FS_RemoveElement
  <1>3. Cardinality(Entering \ {w}) \in Nat
    BY <1>1, FS_RemoveElement, FS_CardinalityType
  <1>4. arrivals <= MaxArrivals /\ Len(runs) + Cardinality(Entering) <= arrivals
    BY DEF Inv, TypeOK, RunsCounted
  <1> QED
    BY <1>1, <1>2, <1>3, <1>4

\* How a step of one worker changes the workers on their way to a handler.
LEMMA EnteringStep ==
    ASSUME TypeOK, NEW w \in Worker, NEW l \in PC, pc' = [pc EXCEPT ![w] = l]
    PROVE  Entering' = IF l \in {"consult", "mark"} THEN Entering \union {w}
                       ELSE Entering \ {w}
  BY DEF TypeOK, Entering

\* Entering a handler appends one run and forgets none.
LEMMA StartRunFacts ==
    ASSUME Inv, NEW w \in Entering, StartRun(w)
    PROVE  /\ runs' \in Seq(OptKey)
           /\ Len(runs') = Len(runs) + 1
           /\ DOMAIN runs' = 1..(Len(runs) + 1)
           /\ \A k, n : Produced(k, n) => Produced(k, n)'
           /\ run' \in [Worker -> 0..MaxArrivals]
           /\ pc' = [pc EXCEPT ![w] = "handle"]
           /\ run'[w] = Len(runs) + 1 /\ runs'[Len(runs) + 1] = req[w]
           /\ Entering' = Entering \ {w}
           /\ Len(runs') + Cardinality(Entering') <= arrivals
  <1>0. /\ runs \in Seq(OptKey) /\ Len(runs) \in Nat /\ DOMAIN runs = 1..Len(runs)
        /\ IsFiniteSet(Entering) /\ Cardinality(Entering) \in Nat /\ arrivals \in Nat
        /\ MaxArrivals \in Nat
    BY TypeFacts DEF Inv
  <1>1. w \in Worker /\ req[w] \in OptKey
    BY DEF Entering, Inv, TypeOK
  <1>2. /\ runs' = Append(runs, req[w])
        /\ run' = [run EXCEPT ![w] = Len(runs) + 1]
        /\ pc' = [pc EXCEPT ![w] = "handle"]
    BY DEF StartRun, Goto
  <1>3. /\ runs' \in Seq(OptKey)
        /\ Len(runs') = Len(runs) + 1
        /\ \A i \in 1..Len(runs) : runs'[i] = runs[i]
        /\ runs'[Len(runs) + 1] = req[w]
    BY <1>0, <1>1, <1>2, AppendProperties
  <1>4. DOMAIN runs' = 1..(Len(runs) + 1)
    BY <1>3, LenProperties
  <1>5. \A k, n : Produced(k, n) => Produced(k, n)'
    BY <1>0, <1>3, <1>4 DEF Produced
  <1>6. run' \in [Worker -> 0..MaxArrivals] /\ run'[w] = Len(runs) + 1
    <2>1. Len(runs) + 1 \in 0..MaxArrivals
      BY <1>0, RoomForRun
    <2> QED
      BY <1>1, <1>2, <2>1 DEF Inv, TypeOK
  <1>7. Entering' = Entering \ {w}
    <2>1. "handle" \in PC /\ "handle" \notin {"consult", "mark"}
      BY DEF PC
    <2> QED
      BY <1>1, <1>2, <2>1, EnteringStep DEF Inv
  <1>8. Len(runs') + Cardinality(Entering') <= arrivals
    <2>1. Cardinality(Entering \ {w}) = Cardinality(Entering) - 1
      BY <1>0, FS_RemoveElement
    <2>2. Len(runs) + Cardinality(Entering) <= arrivals
      BY DEF Inv, RunsCounted
    <2> QED
      BY <1>0, <1>3, <1>7, <2>1, <2>2
  <1> QED
    BY <1>2, <1>3, <1>4, <1>5, <1>6, <1>7, <1>8 DEF Produced

\* A worker that leaves the way to a handler, or goes on along it, starts none.
LEMMA CountKept ==
    ASSUME Inv, NEW w \in Worker, NEW l \in PC, pc' = [pc EXCEPT ![w] = l],
           w \in Entering \/ l \notin {"consult", "mark"},
           UNCHANGED <<runs, arrivals>>
    PROVE  RunsCounted'
  <1>0. /\ Len(runs) \in Nat /\ arrivals \in Nat
        /\ IsFiniteSet(Entering) /\ Cardinality(Entering) \in Nat
    BY TypeFacts DEF Inv
  <1>1. Len(runs) + Cardinality(Entering) <= arrivals
    BY DEF Inv, RunsCounted
  <1>2. Entering' = Entering \/ Entering' = Entering \ {w}
    <2>1. Entering' = IF l \in {"consult", "mark"} THEN Entering \union {w}
                      ELSE Entering \ {w}
      BY EnteringStep DEF Inv
    <2>2. CASE l \notin {"consult", "mark"}
      BY <2>1, <2>2, Zenon
    <2>3. CASE l \in {"consult", "mark"}
      <3>1. w \in Entering /\ Entering' = Entering \union {w}
        BY <2>1, <2>3, Zenon
      <3> QED
        BY <3>1
    <2> QED
      BY <2>2, <2>3
  <1>3. Cardinality(Entering') <= Cardinality(Entering) /\ Cardinality(Entering') \in Nat
    <2>1. Entering' \in SUBSET Entering
      BY <1>2
    <2> QED
      BY <1>0, <2>1, FS_Subset, FS_CardinalityType
  <1>4. Len(runs) + Cardinality(Entering') <= arrivals
    BY <1>0, <1>1, <1>3
  <1> QED
    BY <1>4 DEF RunsCounted

\* A lookup leaves only entries that were there.
LEMMA LookupKeepsProvenance ==
    ASSUME Inv, NEW k, LookupEffect(k), UNCHANGED runs
    PROVE  CachedRepliesMatch' /\ CacheTypeOK'
  <1>1. cached' \in Seq(Entry) /\ Within(cached', cached)
    BY LookupEffectFacts, TypeFacts DEF Inv
  <1>2. CachedRepliesMatch'
    <2> SUFFICES ASSUME NEW i \in DOMAIN cached'
                 PROVE  Produced(cached[i].key, cached[i].raw)'
      BY DEF CachedRepliesMatch
    <2>1. PICK j \in DOMAIN cached : cached'[i] = cached[j]
      BY <1>1 DEF Within
    <2>2. Produced(cached[j].key, cached[j].raw)
      BY DEF Inv, Provenance, CachedRepliesMatch
    <2> QED
      BY <2>1, <2>2 DEF Produced
  <1>3. CacheTypeOK'
    BY <1>1 DEF Inv, TypeOK, CacheTypeOK, LookupEffect
  <1> QED
    BY <1>2, <1>3

\* So does record_reply, next to the reply it is given.
LEMMA RecordKeepsProvenance ==
    ASSUME Inv, NEW k \in Key, NEW r \in Raw, NEW x \in Nat, RecordReply(k, r, x),
           Produced(k, r), UNCHANGED runs
    PROVE  CachedRepliesMatch' /\ CacheTypeOK'
  <1> DEFINE e == [key |-> k, raw |-> r, exp |-> x]
  <1>0. cached \in Seq(Entry)
    BY TypeFacts DEF Inv
  <1>1. cached' \in Seq(Entry) /\ Within(cached', Append(cached, e))
    BY RecordReplyFacts, TypeFacts DEF Inv
  <1>2. /\ Len(cached) \in Nat /\ DOMAIN cached = 1..Len(cached)
        /\ DOMAIN Append(cached, e) = 1..(Len(cached) + 1)
        /\ \A n \in 1..Len(cached) : Append(cached, e)[n] = cached[n]
        /\ Append(cached, e)[Len(cached) + 1] = e
    <2>1. e \in Entry
      BY DEF Entry
    <2> QED
      BY <1>0, <2>1, AppendProperties, LenProperties
  <1>3. CachedRepliesMatch'
    <2> SUFFICES ASSUME NEW i \in DOMAIN cached'
                 PROVE  Produced(cached[i].key, cached[i].raw)'
      BY DEF CachedRepliesMatch
    <2>1. PICK j \in DOMAIN Append(cached, e) : cached'[i] = Append(cached, e)[j]
      BY <1>1 DEF Within
    <2>2. CASE j = Len(cached) + 1
      BY <1>2, <2>1, <2>2 DEF Produced
    <2>3. CASE j \in DOMAIN cached
      <3>1. Produced(cached[j].key, cached[j].raw)
        BY <2>3 DEF Inv, Provenance, CachedRepliesMatch
      <3> QED
        BY <1>2, <2>1, <2>3, <3>1 DEF Produced
    <2> QED
      BY <1>2, <2>1, <2>2, <2>3
  <1>4. CacheTypeOK'
    BY <1>1 DEF Inv, TypeOK, CacheTypeOK, RecordReply
  <1> QED
    BY <1>3, <1>4

\* What the cap pushes out are keys.
LEMMA VictimsAreKeys ==
    ASSUME TypeOK, NEW k
    PROVE  CapVictims(k) \subseteq Key
  <1>1. \A i \in DOMAIN cached : cached[i] \in Entry
    BY TypeFacts, LenProperties, ElementOfSeq
  <1>2. \A i \in DOMAIN cached : cached[i].key \in Key
    BY <1>1 DEF Entry
  <1> QED
    BY <1>2 DEF CapVictims

-----------------------------------------------------------------------------
(* The invariant is inductive. *)

\* A server that has received nothing satisfies the invariant.
LEMMA InvInit == Init => Inv
  <1> SUFFICES ASSUME Init PROVE Inv
    OBVIOUS
  <1>1. CacheTypeOK
    BY CacheAssumption, EmptySeq DEF Init, CacheInit, CacheTypeOK
  <1>2. TypeOK
    BY <1>1, DedupAssumption, EmptySeq DEF Init, TypeOK, PC, OptKey, Reply
  <1>3. Len(runs) = 0 /\ DOMAIN runs = {} /\ arrivals = 0
    BY DEF Init
  <1>4. Entering = {}
    BY DEF Init, Entering
  <1>5. RunsCounted
    BY <1>3, <1>4, FS_EmptySet DEF RunsCounted
  <1>6. OnlyKeyedRecorded /\ InFlightOwned
    BY DEF Init, CacheInit, OnlyKeyedRecorded, InFlightOwned
  <1>7. Provenance
    BY DEF Init, CacheInit, Provenance, RunsServeRequests, DueRepliesMatch,
           RecordedRepliesMatch, CachedRepliesMatch, RepliesMatchRequests, InHandler
  <1> QED
    BY <1>2, <1>5, <1>6, <1>7 DEF Inv

\* Before the handler.
LEMMA ReceiveStep ==
    ASSUME Inv, NEW w \in Worker, NEW k \in OptKey, Receive(w, k)
    PROVE  Inv'
  <1>0. /\ pc[w] = "idle" /\ arrivals < MaxArrivals /\ arrivals' = arrivals + 1
        /\ req' = [req EXCEPT ![w] = k] /\ pc' = [pc EXCEPT ![w] = "consult"]
        /\ UNCHANGED <<cacheVars, run, exp, deferred, recording, historyVars>>
    BY DEF Receive, Goto
  <1>1. TypeOK'
    <2>1. arrivals' \in 0..MaxArrivals
      BY <1>0, TypeFacts DEF Inv
    <2> QED
      BY <1>0, <2>1 DEF Inv, TypeOK, CacheTypeOK, cacheVars, historyVars, PC
  <1>2. RunsCounted'
    <2>1. Entering' = Entering \union {w}
      <3>1. "consult" \in PC
        BY DEF PC
      <3> QED
        BY <1>0, <3>1, EnteringStep DEF Inv
    <2>2. w \notin Entering
      BY <1>0 DEF Entering
    <2>3. Cardinality(Entering') = Cardinality(Entering) + 1
      BY <2>1, <2>2, TypeFacts, FS_AddElement DEF Inv
    <2>4. Len(runs') = Len(runs)
      BY <1>0 DEF historyVars
    <2>5. Len(runs) + Cardinality(Entering) <= arrivals
      BY DEF Inv, RunsCounted
    <2>6. Len(runs) \in Nat /\ Cardinality(Entering) \in Nat /\ arrivals \in Nat
      BY TypeFacts DEF Inv
    <2>7. Len(runs') + Cardinality(Entering') <= arrivals'
      BY <1>0, <2>3, <2>4, <2>5, <2>6
    <2> QED
      BY <2>7 DEF RunsCounted
  <1>3. \A v \in Worker : v # w => pc'[v] = pc[v] /\ req'[v] = req[v]
    BY <1>0 DEF Inv, TypeOK
  <1>4. pc'[w] = "consult"
    BY <1>0 DEF Inv, TypeOK
  <1>5. OnlyKeyedRecorded'
    BY <1>3, <1>4 DEF Inv, OnlyKeyedRecorded
  <1>6. InFlightOwned'
    BY <1>0, <1>3, <1>4 DEF Inv, InFlightOwned, InHandler, cacheVars
  <1>7. Provenance'
    BY <1>0, <1>3, <1>4 DEF Inv, Provenance, RunsServeRequests, DueRepliesMatch,
        RecordedRepliesMatch, CachedRepliesMatch, RepliesMatchRequests, Produced,
        InHandler, cacheVars, historyVars
  <1> QED
    BY <1>1, <1>2, <1>5, <1>6, <1>7 DEF Inv

\* Into the handler, with or without a key.
LEMMA StartStep ==
    ASSUME Inv, NEW w \in Worker, ConsultNoKey(w) \/ MarkAndStart(w)
    PROVE  Inv'
  <1>0. /\ pc[w] \in {"consult", "mark"}
        /\ StartRun(w)
        /\ \/ UNCHANGED inFlight
           \/ inFlight' = inFlight \union {req[w]} /\ req[w] \in Key
        /\ UNCHANGED <<cached, now, req, exp, deferred, recording, arrivals, wire,
                       last, lost>>
    BY DEF ConsultNoKey, MarkAndStart, MarkInFlight, cacheVars, Inv, OnlyKeyedRecorded,
           TypeOK, OptKey
  <1>1. w \in Entering
    BY <1>0 DEF Entering
  <1>2. /\ runs' \in Seq(OptKey)
        /\ DOMAIN runs' = 1..(Len(runs) + 1)
        /\ \A k, n : Produced(k, n) => Produced(k, n)'
        /\ run' \in [Worker -> 0..MaxArrivals]
        /\ pc' = [pc EXCEPT ![w] = "handle"]
        /\ run'[w] = Len(runs) + 1 /\ runs'[Len(runs) + 1] = req[w]
        /\ Len(runs') + Cardinality(Entering') <= arrivals
    BY <1>0, <1>1, StartRunFacts
  <1>3. \A v \in Worker : v # w => pc'[v] = pc[v] /\ run'[v] = run[v]
    BY <1>0, <1>2 DEF Inv, TypeOK, StartRun
  <1>4. pc'[w] = "handle"
    BY <1>2 DEF Inv, TypeOK
  <1>5. TypeOK'
    BY <1>0, <1>2 DEF Inv, TypeOK, CacheTypeOK, PC
  <1>6. RunsCounted'
    BY <1>0, <1>2 DEF RunsCounted
  <1>7. OnlyKeyedRecorded'
    BY <1>0, <1>3, <1>4 DEF Inv, OnlyKeyedRecorded
  <1>8. InFlightOwned'
    BY <1>0, <1>3, <1>4 DEF Inv, InFlightOwned, InHandler
  <1>9. Provenance'
    <2>1. RunsServeRequests'
      <3> SUFFICES ASSUME NEW v \in Worker, InHandler(v)'
                   PROVE  Produced(req[v], run[v])'
        BY DEF RunsServeRequests
      <3>1. CASE v = w
        BY <1>0, <1>2, <3>1, TypeFacts DEF Produced, Inv
      <3>2. CASE v # w
        BY <1>0, <1>2, <1>3, <3>2 DEF Inv, Provenance, RunsServeRequests, InHandler, Produced
      <3> QED
        BY <3>1, <3>2
    <2>2. DueRepliesMatch'
      BY <1>0, <1>2, TypeFacts DEF Inv, Provenance, DueRepliesMatch
    <2>3. RecordedRepliesMatch' /\ CachedRepliesMatch'
      BY <1>0, <1>2 DEF Inv, Provenance, RecordedRepliesMatch, CachedRepliesMatch, Produced
    <2>4. RepliesMatchRequests'
      BY <1>0, <1>2 DEF Inv, Provenance, RepliesMatchRequests, Produced
    <2> QED
      BY <2>1, <2>2, <2>3, <2>4 DEF Provenance
  <1> QED
    BY <1>5, <1>6, <1>7, <1>8, <1>9 DEF Inv

\* The cache answers: the duplicate is dropped or its reply sent again, or
\* there is nothing and the worker goes on to mark_in_flight.
LEMMA LookupStep ==
    ASSUME Inv, NEW w \in Worker, ConsultDrop(w) \/ ConsultResend(w) \/ ConsultMiss(w)
    PROVE  Inv'
  <1>0. /\ pc[w] = "consult" /\ req[w] # NONE
        /\ LookupEffect(req[w])
        /\ \E l \in {"idle", "mark"} : pc' = [pc EXCEPT ![w] = l]
        /\ UNCHANGED <<req, run, exp, deferred, recording, arrivals, runs, last, lost>>
        /\ \/ wire' = wire
           \/ /\ LookupResult(req[w]) \in Raw
              /\ wire' = wire \union {<<req[w], LookupResult(req[w])>>}
    BY DEF ConsultDrop, ConsultResend, ConsultMiss, Goto, historyVars
  <1>1. CacheTypeOK' /\ CachedRepliesMatch' /\ inFlight' = inFlight
    BY <1>0, LookupKeepsProvenance DEF LookupEffect
  <1>2. TypeOK'
    BY <1>0, <1>1 DEF Inv, TypeOK, PC
  <1>3. RunsCounted'
    <2>1. w \in Entering
      BY <1>0 DEF Entering
    <2>2. {"idle", "mark"} \subseteq PC
      BY DEF PC
    <2> QED
      BY <1>0, <2>1, <2>2, CountKept
  <1>4. \A v \in Worker : v # w => pc'[v] = pc[v]
    BY <1>0 DEF Inv, TypeOK
  <1>5. pc'[w] \in {"idle", "mark"}
    BY <1>0 DEF Inv, TypeOK
  <1>6. OnlyKeyedRecorded'
    BY <1>0, <1>4, <1>5 DEF Inv, OnlyKeyedRecorded
  <1>7. InFlightOwned'
    BY <1>0, <1>1, <1>4 DEF Inv, InFlightOwned, InHandler
  <1>8. RepliesMatchRequests'
    <2>1. CASE wire' = wire
      BY <1>0, <2>1 DEF Inv, Provenance, RepliesMatchRequests
    <2>2. CASE /\ LookupResult(req[w]) \in Raw
               /\ wire' = wire \union {<<req[w], LookupResult(req[w])>>}
      <3>1. Hit(req[w])
        BY <2>2, CacheAssumption DEF LookupResult
      <3>2. Has(cached, req[w])
        BY <3>1 DEF Hit, Has
      <3>3. LookupResult(req[w]) = cached[IndexOf(cached, req[w])].raw
        BY <3>1 DEF LookupResult
      <3>4. /\ IndexOf(cached, req[w]) \in DOMAIN cached
            /\ cached[IndexOf(cached, req[w])].key = req[w]
        BY <3>2, IndexOfFacts
      <3>5. Produced(req[w], LookupResult(req[w]))
        BY <3>3, <3>4 DEF Inv, Provenance, CachedRepliesMatch
      <3> QED
        BY <1>0, <2>2, <3>5 DEF Inv, Provenance, RepliesMatchRequests, Produced
    <2> QED
      BY <1>0, <2>1, <2>2
  <1>9. Provenance'
    BY <1>0, <1>1, <1>4, <1>5, <1>8 DEF Inv, Provenance, RunsServeRequests, DueRepliesMatch,
        RecordedRepliesMatch, Produced, InHandler
  <1> QED
    BY <1>2, <1>3, <1>6, <1>7, <1>9 DEF Inv

\* A step of a worker inside its handler that leaves the cache alone, and
\* may send the reply of the run.
LEMMA HandlerStep ==
    ASSUME Inv, NEW w \in Worker, SendReply(w) \/ HandlerDone(w) \/ HandlerDefers(w)
    PROVE  Inv'
  <1>0. /\ InHandler(w)
        /\ \E l \in {"record", "replied", "finally"} :
              (l = "record" => req[w] # NONE) /\ pc' = [pc EXCEPT ![w] = l]
        /\ UNCHANGED <<cacheVars, req, run, recording, arrivals, runs>>
        /\ deferred' = deferred \/ deferred' = deferred \union {run[w]}
        /\ wire' = wire \/ wire' = wire \union {<<req[w], run[w]>>}
    BY DEF SendReply, HandlerDone, HandlerDefers, Remember, Goto, InHandler, historyVars
  <1>1. Produced(req[w], run[w]) /\ run[w] \in 1..MaxArrivals /\ run[w] \in Raw
    <2>1. Produced(req[w], run[w])
      BY <1>0 DEF Inv, Provenance, RunsServeRequests
    <2>2. run[w] \in 0..MaxArrivals /\ run[w] \in 1..Len(runs) /\ Len(runs) \in Nat
          /\ MaxArrivals \in Nat
      BY <2>1, TypeFacts DEF Produced, Inv, TypeOK
    <2> QED
      BY <2>1, <2>2, DedupAssumption
  <1>2. now + TTL \in Nat
    BY TypeFacts DEF Inv
  <1>3. TypeOK'
    <2>1. pc' \in [Worker -> PC]
      BY <1>0 DEF Inv, TypeOK, PC
    <2>2. exp' \in [Worker -> Nat]
      BY <1>2 DEF Inv, TypeOK, SendReply, HandlerDone, HandlerDefers
    <2>3. last' \in [Key -> Reply \union {NONE}] /\ lost' \subseteq Key
      <3>1. CASE SendReply(w)
        <4>1. req[w] \in OptKey
          BY DEF Inv, TypeOK
        <4>2. [raw |-> run[w], exp |-> now + TTL] \in Reply
          BY <1>1, <1>2 DEF Reply
        <4> QED
          BY <3>1, <4>1, <4>2 DEF SendReply, Remember, Inv, TypeOK, OptKey
      <3>2. CASE HandlerDone(w) \/ HandlerDefers(w)
        BY <3>2 DEF HandlerDone, HandlerDefers, historyVars, Inv, TypeOK
      <3> QED
        BY <3>1, <3>2
    <2>4. wire' \subseteq OptKey \X Raw
      BY <1>0, <1>1 DEF Inv, TypeOK
    <2>5. deferred' \subseteq 1..MaxArrivals
      BY <1>0, <1>1 DEF Inv, TypeOK
    <2> QED
      BY <1>0, <2>1, <2>2, <2>3, <2>4, <2>5 DEF Inv, TypeOK, CacheTypeOK, cacheVars
  <1>4. RunsCounted'
    <2>1. {"record", "replied", "finally"} \subseteq PC
          /\ \A l \in {"record", "replied", "finally"} : l \notin {"consult", "mark"}
      BY DEF PC
    <2> QED
      BY <1>0, <2>1, CountKept
  <1>5. \A v \in Worker : v # w => pc'[v] = pc[v]
    BY <1>0 DEF Inv, TypeOK
  <1>6. /\ pc'[w] \in {"record", "replied", "finally"}
        /\ pc'[w] = "record" => req[w] # NONE
    BY <1>0 DEF Inv, TypeOK
  <1>7. OnlyKeyedRecorded'
    BY <1>0, <1>5, <1>6 DEF Inv, OnlyKeyedRecorded
  <1>8. InFlightOwned'
    BY <1>0, <1>5, <1>6 DEF Inv, InFlightOwned, InHandler, cacheVars
  <1>9. Provenance'
    <2>1. RunsServeRequests'
      BY <1>0, <1>1, <1>5 DEF Inv, Provenance, RunsServeRequests, Produced, InHandler
    <2>2. DueRepliesMatch' /\ RepliesMatchRequests'
      BY <1>0, <1>1 DEF Inv, Provenance, DueRepliesMatch, RepliesMatchRequests, Produced
    <2>3. RecordedRepliesMatch' /\ CachedRepliesMatch'
      BY <1>0 DEF Inv, Provenance, RecordedRepliesMatch, CachedRepliesMatch, Produced, cacheVars
    <2> QED
      BY <2>1, <2>2, <2>3 DEF Provenance
  <1> QED
    BY <1>3, <1>4, <1>7, <1>8, <1>9 DEF Inv

\* record_reply by the worker itself.
LEMMA RecordStep ==
    ASSUME Inv, NEW w \in Worker, Record(w)
    PROVE  Inv'
  <1>0. /\ pc[w] = "record"
        /\ RecordReply(req[w], run[w], exp[w])
        /\ lost' = lost \union CapVictims(req[w])
        /\ pc' = [pc EXCEPT ![w] = "replied"]
        /\ UNCHANGED <<req, run, exp, deferred, recording, arrivals, runs, wire, last>>
    BY DEF Record, Goto
  <1>1. req[w] \in Key /\ exp[w] \in Nat
    BY <1>0 DEF Inv, OnlyKeyedRecorded, TypeOK, OptKey
  <1>2. Produced(req[w], run[w])
    BY <1>0 DEF Inv, Provenance, RunsServeRequests, InHandler
  <1>3. run[w] \in Raw
    BY <1>2, TypeFacts, DedupAssumption DEF Produced, Inv, TypeOK
  <1>4. CacheTypeOK' /\ CachedRepliesMatch'
    BY <1>0, <1>1, <1>2, <1>3, RecordKeepsProvenance
  <1>5. inFlight' = inFlight \ {req[w]}
    BY <1>0 DEF RecordReply
  <1>6. TypeOK'
    <2>1. lost' \subseteq Key
      BY <1>0, VictimsAreKeys DEF Inv, TypeOK
    <2> QED
      BY <1>0, <1>4, <2>1 DEF Inv, TypeOK, PC
  <1>7. RunsCounted'
    <2>1. "replied" \in PC /\ "replied" \notin {"consult", "mark"}
      BY DEF PC
    <2> QED
      BY <1>0, <2>1, CountKept
  <1>8. \A v \in Worker : v # w => pc'[v] = pc[v]
    BY <1>0 DEF Inv, TypeOK
  <1>9. pc'[w] = "replied"
    BY <1>0 DEF Inv, TypeOK
  <1>10. OnlyKeyedRecorded'
    BY <1>0, <1>8, <1>9 DEF Inv, OnlyKeyedRecorded
  <1>11. InFlightOwned'
    BY <1>0, <1>5, <1>8, <1>9 DEF Inv, InFlightOwned, InHandler
  <1>12. Provenance'
    BY <1>0, <1>4, <1>8 DEF Inv, Provenance, RunsServeRequests, DueRepliesMatch,
        RecordedRepliesMatch, RepliesMatchRequests, Produced, InHandler
  <1> QED
    BY <1>6, <1>7, <1>10, <1>11, <1>12 DEF Inv

\* The finally clause.
LEMMA FinallyStep ==
    ASSUME Inv, NEW w \in Worker, Finally(w)
    PROVE  Inv'
  <1>0. /\ pc[w] = "finally"
        /\ pc' = [pc EXCEPT ![w] = "idle"]
        /\ inFlight' = inFlight \ {req[w]}
        /\ UNCHANGED <<cached, now, req, run, exp, deferred, recording, arrivals, historyVars>>
    <2>1. NONE \notin inFlight
      BY DedupAssumption DEF Inv, TypeOK, CacheTypeOK
    <2> QED
      BY <2>1 DEF Finally, Goto, DropInFlight, cacheVars
  <1>1. TypeOK'
    BY <1>0 DEF Inv, TypeOK, CacheTypeOK, historyVars, PC
  <1>2. RunsCounted'
    <2>1. "idle" \in PC /\ "idle" \notin {"consult", "mark"} /\ UNCHANGED <<runs, arrivals>>
      BY <1>0 DEF PC, historyVars
    <2> QED
      BY <1>0, <2>1, CountKept
  <1>3. \A v \in Worker : v # w => pc'[v] = pc[v]
    BY <1>0 DEF Inv, TypeOK
  <1>4. pc'[w] = "idle"
    BY <1>0 DEF Inv, TypeOK
  <1>5. OnlyKeyedRecorded'
    BY <1>0, <1>3, <1>4 DEF Inv, OnlyKeyedRecorded
  <1>6. InFlightOwned'
    BY <1>0, <1>3 DEF Inv, InFlightOwned, InHandler
  <1>7. Provenance'
    BY <1>0, <1>3, <1>4 DEF Inv, Provenance, RunsServeRequests, DueRepliesMatch,
        RecordedRepliesMatch, CachedRepliesMatch, RepliesMatchRequests, Produced,
        InHandler, historyVars
  <1> QED
    BY <1>1, <1>2, <1>5, <1>6, <1>7 DEF Inv

\* A step that moves no worker starts no handler run.
LEMMA CountStill ==
    ASSUME Inv, UNCHANGED <<pc, runs, arrivals>>
    PROVE  RunsCounted'
  BY DEF Inv, RunsCounted, Entering

\* The reply a handler left to someone else is sent.
LEMMA SendDeferredStep ==
    ASSUME Inv, NEW n \in deferred, SendDeferred(n)
    PROVE  Inv'
  <1> DEFINE r == [key |-> runs[n], raw |-> n, exp |-> now + TTL]
  <1>0. /\ deferred' = deferred \ {n}
        /\ wire' = wire \union {<<runs[n], n>>}
        /\ \/ runs[n] = NONE /\ UNCHANGED <<recording, last, lost>>
           \/ /\ runs[n] # NONE
              /\ recording' = recording \union {r}
              /\ last' = [last EXCEPT ![runs[n]] = [raw |-> n, exp |-> now + TTL]]
              /\ lost' = lost \ {runs[n]}
        /\ UNCHANGED <<cacheVars, pc, req, run, exp, arrivals, runs>>
    BY DEF SendDeferred, Remember
  <1>1. n \in DOMAIN runs /\ runs[n] \in OptKey /\ n \in Raw /\ now + TTL \in Nat
    <2>1. n \in DOMAIN runs
      BY DEF Inv, Provenance, DueRepliesMatch
    <2>2. runs[n] \in OptKey
      BY <2>1, TypeFacts, ElementOfSeq DEF Inv
    <2>3. n \in Raw
      BY DedupAssumption DEF Inv, TypeOK
    <2> QED
      BY <2>1, <2>2, <2>3, TypeFacts DEF Inv
  <1>2. TypeOK'
    <2>1. wire' \subseteq OptKey \X Raw
      BY <1>0, <1>1 DEF Inv, TypeOK
    <2>2. recording' \subseteq [key: Key, raw: Raw, exp: Nat]
      BY <1>0, <1>1 DEF Inv, TypeOK, OptKey
    <2>3. last' \in [Key -> Reply \union {NONE}] /\ lost' \subseteq Key
      <3>1. [raw |-> n, exp |-> now + TTL] \in Reply
        BY <1>1 DEF Reply
      <3> QED
        BY <1>0, <1>1, <3>1, ZenonT(30) DEF Inv, TypeOK, OptKey
    <2> QED
      BY <1>0, <2>1, <2>2, <2>3 DEF Inv, TypeOK, CacheTypeOK, cacheVars
  <1>3. RunsCounted'
    BY <1>0, CountStill
  <1>4. OnlyKeyedRecorded' /\ InFlightOwned'
    BY <1>0 DEF Inv, OnlyKeyedRecorded, InFlightOwned, InHandler, cacheVars
  <1>5. Provenance'
    <2>1. RunsServeRequests' /\ DueRepliesMatch' /\ CachedRepliesMatch'
      BY <1>0 DEF Inv, Provenance, RunsServeRequests, DueRepliesMatch, CachedRepliesMatch,
          Produced, InHandler, cacheVars
    <2>2. RepliesMatchRequests'
      BY <1>0, <1>1 DEF Inv, Provenance, RepliesMatchRequests
    <2>3. RecordedRepliesMatch'
      BY <1>0, <1>1 DEF Inv, Provenance, RecordedRepliesMatch, Produced
    <2> QED
      BY <2>1, <2>2, <2>3 DEF Provenance
  <1> QED
    BY <1>2, <1>3, <1>4, <1>5 DEF Inv

\* record_reply for a deferred reply, in whatever thread sends it.
LEMMA RecordDeferredStep ==
    ASSUME Inv, NEW r \in recording, RecordDeferred(r)
    PROVE  Inv'
  <1>0. /\ RecordReply(r.key, r.raw, r.exp)
        /\ lost' = lost \union CapVictims(r.key)
        /\ recording' = recording \ {r}
        /\ UNCHANGED <<pc, req, run, exp, deferred, arrivals, runs, wire, last>>
    BY DEF RecordDeferred
  <1>1. r.key \in Key /\ r.raw \in Raw /\ r.exp \in Nat /\ Produced(r.key, r.raw)
    BY DEF Inv, TypeOK, Provenance, RecordedRepliesMatch
  <1>2. CacheTypeOK' /\ CachedRepliesMatch'
    BY <1>0, <1>1, RecordKeepsProvenance
  <1>3. inFlight' = inFlight \ {r.key}
    BY <1>0 DEF RecordReply
  <1>4. TypeOK'
    <2>1. lost' \subseteq Key
      BY <1>0, VictimsAreKeys DEF Inv, TypeOK
    <2> QED
      BY <1>0, <1>2, <2>1 DEF Inv, TypeOK
  <1>5. RunsCounted'
    BY <1>0, CountStill
  <1>6. OnlyKeyedRecorded' /\ InFlightOwned'
    BY <1>0, <1>3 DEF Inv, OnlyKeyedRecorded, InFlightOwned, InHandler
  <1>7. Provenance'
    BY <1>0, <1>2 DEF Inv, Provenance, RunsServeRequests, DueRepliesMatch,
        RecordedRepliesMatch, RepliesMatchRequests, Produced, InHandler
  <1> QED
    BY <1>4, <1>5, <1>6, <1>7 DEF Inv

\* The clock.
LEMMA WaitStep ==
    ASSUME Inv, Wait \/ UNCHANGED vars
    PROVE  Inv'
  <1>0. /\ UNCHANGED <<inFlight, cached, pc, req, run, exp, deferred, recording,
                       arrivals, runs, wire, last, lost>>
        /\ now' \in 0..MaxNow
    BY CacheAssumption DEF Wait, Tick, vars, dispatchVars, historyVars, Inv, TypeOK, CacheTypeOK
  <1>1. TypeOK'
    BY <1>0 DEF Inv, TypeOK, CacheTypeOK
  <1>2. RunsCounted'
    BY <1>0, CountStill
  <1>3. OnlyKeyedRecorded' /\ InFlightOwned'
    BY <1>0 DEF Inv, OnlyKeyedRecorded, InFlightOwned, InHandler
  <1>4. Provenance'
    BY <1>0 DEF Inv, Provenance, RunsServeRequests, DueRepliesMatch,
        RecordedRepliesMatch, CachedRepliesMatch, RepliesMatchRequests, Produced, InHandler
  <1> QED
    BY <1>1, <1>2, <1>3, <1>4 DEF Inv

\* Every step of every worker, of a deferred reply and of the clock.
LEMMA InvStep == Inv /\ [Next]_vars => Inv'
  <1> SUFFICES ASSUME Inv, [Next]_vars PROVE Inv'
    OBVIOUS
  <1>1. CASE \E w \in Worker : (\E k \in OptKey : Receive(w, k)) \/ Step(w)
    <2>1. PICK w \in Worker : (\E k \in OptKey : Receive(w, k)) \/ Step(w)
      BY <1>1
    <2>2. CASE \E k \in OptKey : Receive(w, k)
      BY <2>2, ReceiveStep
    <2>3. CASE Step(w)
      BY <2>3, StartStep, LookupStep, HandlerStep, RecordStep, FinallyStep DEF Step
    <2> QED
      BY <2>1, <2>2, <2>3
  <1>2. CASE \E n \in deferred : SendDeferred(n)
    BY <1>2, SendDeferredStep
  <1>3. CASE \E r \in recording : RecordDeferred(r)
    BY <1>3, RecordDeferredStep
  <1>4. CASE Wait \/ UNCHANGED vars
    BY <1>4, WaitStep
  <1> QED
    BY <1>1, <1>2, <1>3, <1>4 DEF Next

-----------------------------------------------------------------------------
(* Theorems. *)

\* The dispatch keeps its types: in particular, a handler run never has a
\* number beyond the datagrams received, and only keyed replies are recorded.
THEOREM DedupTypeCorrect == Spec => []TypeOK
  <1>1. Inv => TypeOK
    BY DEF Inv
  <1> QED
    BY InvInit, InvStep, <1>1, PTL DEF Spec

\* The finally clause of _dedup_dispatch and record_reply together leave no
\* marker behind, whatever the threads that share the cache interleave.
THEOREM DedupInFlightOwned == Spec => []InFlightOwned
  <1>1. Inv => InFlightOwned
    BY DEF Inv
  <1> QED
    BY InvInit, InvStep, <1>1, PTL DEF Spec

\* No sequence of lookups, records, evictions and deferred replies sends the
\* reply of one request in answer to another.
THEOREM DedupRepliesMatchRequests == Spec => []RepliesMatchRequests
  <1>1. Inv => RepliesMatchRequests
    BY DEF Inv, Provenance
  <1> QED
    BY InvInit, InvStep, <1>1, PTL DEF Spec

-----------------------------------------------------------------------------
(* One dispatch loop: a Server's main loop or a ServerAsync's event loop,    *)
(* whose handlers reply before they return.                                  *)

OneLoop == ~AllowDefer /\ \A v, w \in Worker : v = w

LiveLast(k) == last[k] # NONE /\ now < last[k].exp
IsRecording(k) == \E w \in Worker : pc[w] = "record" /\ req[w] = k

\* What the dictionary holds is the last reply sent for each key ...
Faithful ==
    \A i \in DOMAIN cached :
        last[cached[i].key] = [raw |-> cached[i].raw, exp |-> cached[i].exp]

\* ... and a live last reply that the cap did not push out is in the dictionary,
\* or was sent and is about to be recorded.
Complete ==
    \A k \in Key : LiveLast(k) /\ k \notin lost => Has(cached, k) \/ IsRecording(k)

\* A request is served only where the lookup found nothing, and nothing has
\* been recorded for it since.
ServedNotCached ==
    \A w \in Worker : pc[w] \in {"mark", "handle", "record"} => ~Has(cached, req[w])

RecordsLast ==
    \A w \in Worker : pc[w] = "record" => last[req[w]] = [raw |-> run[w], exp |-> exp[w]]

\* The reply of the run that is under way has not been sent.
FreshRuns == \A w \in Worker : pc[w] = "handle" => \A m \in wire : m[2] # run[w]

NoneDue == deferred = {} /\ recording = {}

LoopInv ==
    /\ Unique(cached) /\ Faithful /\ Complete
    /\ ServedNotCached /\ RecordsLast /\ FreshRuns /\ NoneDue

\* What a typed cache holds.
LEMMA EntryFacts ==
    ASSUME Inv
    PROVE  /\ cached \in Seq(Entry) /\ now \in Nat /\ CacheTypeOK
           /\ \A i \in DOMAIN cached :
                 /\ cached[i] \in Entry /\ cached[i].key \in Key
                 /\ cached[i].raw \in Raw /\ cached[i].exp \in Nat
           /\ ~Has(cached, NONE)
  <1>1. cached \in Seq(Entry) /\ now \in Nat /\ CacheTypeOK
    BY TypeFacts DEF Inv
  <1>2. \A i \in DOMAIN cached : cached[i] \in Entry
    BY <1>1, LenProperties, ElementOfSeq
  <1>3. \A i \in DOMAIN cached :
           cached[i].key \in Key /\ cached[i].raw \in Raw /\ cached[i].exp \in Nat
    BY <1>2 DEF Entry
  <1> QED
    BY <1>1, <1>2, <1>3, DedupAssumption DEF Has

LEMMA LoopInvInit == Init => LoopInv
  <1> SUFFICES ASSUME Init PROVE LoopInv
    OBVIOUS
  <1>1. cached = <<>> /\ deferred = {} /\ recording = {} /\ \A k \in Key : last[k] = NONE
    BY DEF Init, CacheInit
  <1>2. \A w \in Worker : pc[w] = "idle"
    BY DEF Init
  <1> QED
    BY <1>1, <1>2 DEF LoopInv, Unique, Faithful, Complete, LiveLast, ServedNotCached,
        RecordsLast, FreshRuns, NoneDue

\* The worker moves and leaves the cache and the replies alone.
LEMMA LoopQuiet ==
    ASSUME OneLoop, Inv, Inv', LoopInv, NEW w \in Worker,
           \/ \E k \in OptKey : Receive(w, k)
           \/ ConsultNoKey(w) \/ MarkAndStart(w) \/ HandlerDone(w) \/ Finally(w)
    PROVE  LoopInv'
  <1>0. /\ UNCHANGED <<cached, now, deferred, recording, wire, last, lost>>
        /\ pc[w] # "record" /\ pc'[w] \in {"consult", "handle", "finally", "idle"}
        /\ pc'[w] = "handle" =>
              /\ run'[w] = Len(runs) + 1 /\ req' = req
              /\ pc[w] = "mark" \/ req[w] = NONE
    BY DEF Receive, ConsultNoKey, MarkAndStart, HandlerDone, Finally, StartRun, Goto, cacheVars,
        historyVars, MarkInFlight, DropInFlight, Inv, TypeOK
  <1>1. \A v \in Worker : v = w
    BY DEF OneLoop
  <1>2. Unique(cached') /\ Faithful' /\ NoneDue'
    BY <1>0 DEF LoopInv, Faithful, NoneDue
  <1>3. Complete'
    BY <1>0, <1>1 DEF LoopInv, Complete, LiveLast, IsRecording
  <1>4. ServedNotCached'
    BY <1>0, <1>1, EntryFacts DEF LoopInv, ServedNotCached
  <1>5. RecordsLast'
    BY <1>0, <1>1 DEF RecordsLast
  <1>6. FreshRuns'
    <2>1. \A m \in wire : m[2] \in 1..Len(runs) /\ Len(runs) \in Nat
      BY TypeFacts DEF Inv, Provenance, RepliesMatchRequests
    <2> QED
      BY <1>0, <1>1, <2>1 DEF FreshRuns
  <1> QED
    BY <1>2, <1>3, <1>4, <1>5, <1>6 DEF LoopInv

\* What a lookup does to the dictionary of one loop.
LEMMA LookupLoop ==
    ASSUME Inv, LoopInv, NEW k, LookupEffect(k), UNCHANGED <<last, lost>>
    PROVE  /\ Unique(cached') /\ Faithful'
           /\ \A c \in Key : LiveLast(c) /\ Has(cached, c) => Has(cached', c)
           /\ ~Hit(k) => ~Has(cached', k)
  <1>0. cached \in Seq(Entry) /\ CacheTypeOK /\ Unique(cached)
    BY EntryFacts DEF LoopInv
  <1>1. Unique(cached') /\ Within(cached', cached)
    BY <1>0, LookupEffectFacts
  <1>2. Faithful'
    BY <1>1 DEF LoopInv, Faithful, Within
  <1>3. ASSUME NEW c \in Key, LiveLast(c), Has(cached, c) PROVE Has(cached', c)
    <2>1. PICK j \in DOMAIN cached : cached[j].key = c
      BY <1>3 DEF Has
    <2>2. CASE Hit(k)
      <3>1. cached' = MoveToEnd(cached, k) /\ Has(cached, k)
        BY <1>0, <2>2, LookupResultType DEF LookupEffect
      <3>2. Within(cached, cached')
        BY <1>0, <3>1, MoveToEndKeeps
      <3> QED
        BY <2>1, <3>2 DEF Within, Has
    <2>3. CASE ~Hit(k)
      <3>1. cached' = Without(cached, k)
        BY <2>3 DEF LookupEffect
      <3>2. last[c] = [raw |-> cached[j].raw, exp |-> cached[j].exp]
        BY <2>1 DEF LoopInv, Faithful
      <3>3. c # k
        BY <1>3, <2>1, <2>3, <3>2 DEF Hit, LiveLast
      <3>4. \E i \in DOMAIN cached' : cached'[i] = cached[j]
        BY <1>0, <2>1, <3>1, <3>3, WithoutKeeps
      <3> QED
        BY <2>1, <3>4 DEF Has
    <2> QED
      BY <2>2, <2>3
  <1>4. ~Hit(k) => ~Has(cached', k)
    BY <1>0, WithoutFacts DEF LookupEffect
  <1> QED
    BY <1>1, <1>2, <1>3, <1>4

\* A lookup that finds no live reply misses or finds the marker.
LEMMA MissFacts ==
    ASSUME Inv, NEW k
    PROVE  LookupResult(k) \in Raw <=> Hit(k)
  <1>1. ASSUME Hit(k) PROVE LookupResult(k) \in Raw
    <2>1. Has(cached, k)
      BY <1>1 DEF Hit, Has
    <2> QED
      BY <1>1, <2>1, IndexOfFacts, EntryFacts DEF LookupResult
  <1>2. ~Hit(k) => LookupResult(k) \notin Raw
    BY CacheAssumption DEF LookupResult
  <1> QED
    BY <1>1, <1>2

LEMMA LoopLookup ==
    ASSUME OneLoop, Inv, LoopInv, NEW w \in Worker,
           ConsultDrop(w) \/ ConsultResend(w) \/ ConsultMiss(w)
    PROVE  LoopInv'
  <1>0. /\ pc[w] = "consult" /\ LookupEffect(req[w]) /\ now' = now
        /\ UNCHANGED <<req, run, exp, deferred, recording, runs, last, lost>>
        /\ pc'[w] \in {"idle", "mark"}
        /\ pc'[w] = "mark" => LookupResult(req[w]) \notin Raw
    BY CacheAssumption DEF ConsultDrop, ConsultResend, ConsultMiss, Goto, historyVars,
        LookupEffect, Inv, TypeOK
  <1>1. \A v \in Worker : v = w
    BY DEF OneLoop
  <1>2. /\ Unique(cached') /\ Faithful'
        /\ \A c \in Key : LiveLast(c) /\ Has(cached, c) => Has(cached', c)
        /\ pc'[w] = "mark" => ~Has(cached', req[w])
    BY <1>0, LookupLoop, MissFacts
  <1>3. Complete'
    BY <1>0, <1>1, <1>2 DEF LoopInv, Complete, LiveLast, IsRecording
  <1>4. ServedNotCached' /\ RecordsLast' /\ FreshRuns' /\ NoneDue'
    BY <1>0, <1>1, <1>2 DEF LoopInv, ServedNotCached, RecordsLast, FreshRuns, NoneDue
  <1> QED
    BY <1>2, <1>3, <1>4 DEF LoopInv

LEMMA LoopSend ==
    ASSUME OneLoop, Inv, LoopInv, NEW w \in Worker, SendReply(w)
    PROVE  LoopInv'
  <1>0. /\ pc[w] = "handle" /\ exp'[w] = now + TTL
        /\ pc'[w] = IF req[w] = NONE THEN "replied" ELSE "record"
        /\ UNCHANGED <<cached, now, req, run, deferred, recording, runs>>
        /\ Remember(req[w], run[w], now + TTL)
    BY DEF SendReply, Goto, cacheVars, Inv, TypeOK
  <1>1. \A v \in Worker : v = w
    BY DEF OneLoop
  <1>2. ~Has(cached, req[w]) /\ req[w] \in OptKey /\ last \in [Key -> Reply \union {NONE}]
    BY <1>0 DEF LoopInv, ServedNotCached, Inv, TypeOK
  <1>3. /\ \A k \in Key : k # req[w] => last'[k] = last[k] /\ (k \in lost' <=> k \in lost)
        /\ req[w] # NONE => last'[req[w]] = [raw |-> run[w], exp |-> now + TTL]
    BY <1>0, <1>2 DEF Remember, OptKey
  <1>4. Unique(cached') /\ Faithful' /\ NoneDue'
    BY <1>0, <1>2, <1>3, EntryFacts DEF LoopInv, Faithful, NoneDue, Has
  <1>5. Complete'
    BY <1>0, <1>1, <1>3, DedupAssumption DEF LoopInv, Complete, LiveLast, IsRecording
  <1>6. ServedNotCached' /\ FreshRuns'
    BY <1>0, <1>1, <1>2 DEF ServedNotCached, FreshRuns
  <1>7. RecordsLast'
    BY <1>0, <1>1, <1>3 DEF RecordsLast
  <1> QED
    BY <1>4, <1>5, <1>6, <1>7 DEF LoopInv

LEMMA LoopRecord ==
    ASSUME OneLoop, Inv, LoopInv, NEW w \in Worker, Record(w)
    PROVE  LoopInv'
  <1> DEFINE k == req[w]
             e == [key |-> k, raw |-> run[w], exp |-> exp[w]]
  <1>0. /\ pc[w] = "record" /\ pc'[w] = "replied"
        /\ RecordReply(k, run[w], exp[w]) /\ now' = now
        /\ lost' = lost \union CapVictims(k)
        /\ UNCHANGED <<req, run, exp, deferred, recording, runs, wire, last>>
    BY DEF Record, RecordReply, Goto, Inv, TypeOK
  <1>1. \A v \in Worker : v = w
    BY DEF OneLoop
  <1>2. k \in Key /\ run[w] \in Raw /\ exp[w] \in Nat /\ last[k] = [raw |-> run[w], exp |-> exp[w]]
    <2>1. k \in Key /\ exp[w] \in Nat /\ Produced(k, run[w])
      BY <1>0 DEF Inv, OnlyKeyedRecorded, TypeOK, OptKey, Provenance, RunsServeRequests, InHandler
    <2>2. run[w] \in Raw
      BY <2>1, TypeFacts, DedupAssumption DEF Produced, Inv, TypeOK
    <2> QED
      BY <1>0, <2>1, <2>2 DEF LoopInv, RecordsLast
  <1>3. CacheTypeOK /\ Unique(cached)
    BY EntryFacts DEF LoopInv
  <1>4. Unique(cached')
    BY <1>0, <1>2, <1>3, RecordReplyFacts
  <1>5. /\ \A i \in DOMAIN cached' :
              \/ cached'[i] = e
              \/ cached'[i].key # k /\ \E j \in DOMAIN cached : cached'[i] = cached[j]
        /\ exp[w] > now => Has(cached', k)
    BY <1>0, <1>2, <1>3, RecordReplyEntries
  <1>6. Faithful'
    BY <1>0, <1>2, <1>5 DEF LoopInv, Faithful
  <1>7. ASSUME NEW c \in Key, LiveLast(c), c \notin lost' PROVE Has(cached', c)
    <2>1. CASE c = k
      BY <1>2, <1>5, <1>7, <2>1 DEF LiveLast
    <2>2. CASE c # k
      <3>1. PICK j \in DOMAIN cached : cached[j].key = c
        BY <1>0, <1>1, <1>7, <2>2 DEF LoopInv, Complete, IsRecording, Has
      <3>2. last[c] = [raw |-> cached[j].raw, exp |-> cached[j].exp]
        BY <3>1 DEF LoopInv, Faithful
      <3>3. cached[j].exp > now
        BY <1>7, <3>2, EntryFacts DEF LiveLast
      <3> QED
        BY <1>0, <1>7, <2>2, <3>1, <3>3 DEF CapVictims
    <2> QED
      BY <2>1, <2>2
  <1>8. Complete'
    BY <1>0, <1>7 DEF Complete, LiveLast
  <1>9. ServedNotCached' /\ RecordsLast' /\ FreshRuns' /\ NoneDue'
    BY <1>0, <1>1 DEF LoopInv, ServedNotCached, RecordsLast, FreshRuns, NoneDue
  <1> QED
    BY <1>4, <1>6, <1>8, <1>9 DEF LoopInv

LEMMA LoopWait ==
    ASSUME Inv, LoopInv, Wait \/ UNCHANGED vars
    PROVE  LoopInv'
  <1>0. /\ UNCHANGED <<cached, pc, req, run, exp, deferred, recording, wire, last, lost>>
        /\ now' \in Nat /\ now <= now' /\ now \in Nat
    BY EntryFacts DEF Wait, Tick, vars, dispatchVars, historyVars
  <1>1. \A k \in Key : LiveLast(k)' => LiveLast(k)
    BY <1>0 DEF LiveLast, Inv, TypeOK, Reply
  <1> QED
    BY <1>0, <1>1 DEF LoopInv, Unique, Faithful, Complete, IsRecording, ServedNotCached,
        RecordsLast, FreshRuns, NoneDue, Has

LEMMA LoopInvStep ==
    ASSUME OneLoop
    PROVE  Inv /\ Inv' /\ LoopInv /\ [Next]_vars => LoopInv'
  <1> SUFFICES ASSUME Inv, Inv', LoopInv, [Next]_vars PROVE LoopInv'
    OBVIOUS
  <1>1. deferred = {} /\ recording = {} /\ ~AllowDefer
    BY DEF LoopInv, NoneDue, OneLoop
  <1>2. CASE \E w \in Worker : (\E k \in OptKey : Receive(w, k)) \/ Step(w)
    BY <1>1, <1>2, LoopQuiet, LoopLookup, LoopSend, LoopRecord DEF Step, HandlerDefers
  <1>3. CASE Wait \/ UNCHANGED vars
    BY <1>3, LoopWait
  <1> QED
    BY <1>1, <1>2, <1>3 DEF Next

LEMMA LoopInvAlways ==
    ASSUME OneLoop
    PROVE  Spec => [](Inv /\ LoopInv)
  BY InvInit, InvStep, LoopInvInit, LoopInvStep, PTL DEF Spec

\* The handler is entered for a key only from the lookup that missed it.
LEMMA StartsFromMark ==
    ASSUME OneLoop, Inv, LoopInv, [Next]_vars, NEW k \in Key, Starts(k)
    PROVE  \E w \in Worker : MarkAndStart(w) /\ req[w] = k
  <1>1. deferred = {} /\ recording = {}
    BY DEF LoopInv, NoneDue
  <1>2. runs' # runs
    BY DEF Starts
  <1>3. PICK w \in Worker : ConsultNoKey(w) \/ MarkAndStart(w)
    BY <1>1, <1>2, Zenon DEF Next, Step, vars, historyVars, Receive, ConsultDrop, ConsultResend,
        ConsultMiss, SendReply, Record, HandlerDone, HandlerDefers, Finally, Wait
  <1>4. runs'[Len(runs')] = req[w]
    <2>1. w \in Entering /\ StartRun(w) /\ Len(runs) \in Nat
      BY <1>3, TypeFacts DEF ConsultNoKey, MarkAndStart, Entering, Inv
    <2> QED
      BY <2>1, StartRunFacts
  <1>5. req[w] = k
    BY <1>4 DEF Starts
  <1>6. ~ConsultNoKey(w)
    BY <1>5, DedupAssumption DEF ConsultNoKey
  <1> QED
    BY <1>3, <1>5, <1>6

\* "Your handler runs exactly once": with one loop whose handlers reply before
\* they return, however many requests, keys and cache entries there are, the
\* handler is entered again for an answered key only after dedup_ttl, or after
\* the LRU cap has evicted the answer.
THEOREM DedupNoRerunWithinTtl ==
    ASSUME OneLoop
    PROVE  Spec => NoRerunWithinTtl
  <1>1. ASSUME Inv, LoopInv, [Next]_vars
        PROVE  \A k \in Key : Starts(k) /\ last[k] # NONE => k \in lost \/ now >= last[k].exp
    <2> SUFFICES ASSUME NEW k \in Key, Starts(k), last[k] # NONE, k \notin lost
                 PROVE  now >= last[k].exp
      OBVIOUS
    <2>1. PICK w \in Worker : MarkAndStart(w) /\ req[w] = k
      BY <1>1, StartsFromMark
    <2>2. pc[w] = "mark" /\ \A v \in Worker : v = w
      BY <2>1 DEF MarkAndStart, OneLoop
    <2>3. ~Has(cached, k) /\ ~IsRecording(k)
      BY <1>1, <2>1, <2>2 DEF LoopInv, ServedNotCached, IsRecording
    <2>4. ~LiveLast(k)
      BY <1>1, <2>3 DEF LoopInv, Complete
    <2>5. last[k].exp \in Nat /\ now \in Nat
      BY <1>1, EntryFacts DEF Inv, TypeOK, Reply
    <2> QED
      BY <2>4, <2>5 DEF LiveLast
  <1> QED
    BY <1>1, LoopInvAlways, PTL DEF Spec, NoRerunWithinTtl

\* What a replay sends is the last reply of the handler for that key, while it
\* is alive.
THEOREM DedupReplaysLastReply ==
    ASSUME OneLoop
    PROVE  Spec => ReplaysLastReply
  <1>1. ASSUME Inv, LoopInv
        PROVE  \A w \in Worker : ConsultResend(w) =>
                  /\ last[req[w]] # NONE
                  /\ now < last[req[w]].exp
                  /\ wire' = wire \union {<<req[w], last[req[w]].raw>>}
    <2> SUFFICES ASSUME NEW w \in Worker, ConsultResend(w)
                 PROVE  /\ last[req[w]] # NONE
                        /\ now < last[req[w]].exp
                        /\ wire' = wire \union {<<req[w], last[req[w]].raw>>}
      OBVIOUS
    <2>1. Hit(req[w]) /\ wire' = wire \union {<<req[w], LookupResult(req[w])>>}
      BY <1>1, MissFacts DEF ConsultResend
    <2>2. PICK i \in DOMAIN cached : cached[i].key = req[w] /\ now < cached[i].exp
      BY <2>1 DEF Hit
    <2>3. LookupResult(req[w]) = cached[i].raw
      <3>1. IndexOf(cached, req[w]) \in DOMAIN cached /\ cached[IndexOf(cached, req[w])].key = req[w]
        BY <2>2, IndexOfFacts DEF Has
      <3>2. IndexOf(cached, req[w]) = i
        BY <1>1, <2>2, <3>1 DEF LoopInv, Unique
      <3> QED
        BY <2>1, <3>2 DEF LookupResult
    <2>4. last[req[w]] = [raw |-> cached[i].raw, exp |-> cached[i].exp]
      BY <1>1, <2>2 DEF LoopInv, Faithful
    <2>5. last[req[w]] # NONE
      BY <1>1, <2>4, EntryFacts, DedupAssumption
    <2> QED
      BY <2>1, <2>2, <2>3, <2>4, <2>5
  <1> QED
    BY <1>1, LoopInvAlways, PTL DEF Spec, ReplaysLastReply

-----------------------------------------------------------------------------
(* One loop implements duplicate detection.                                  *)

\* The keys of the first n entries.
FirstKeys(d, n) == {d[i].key : i \in 1..n}

\* A dictionary has at most as many keys as entries, and exactly as many when
\* no key occurs twice.
LEMMA KeysCounted ==
    ASSUME NEW d \in Seq(Entry), NEW n \in 0..Len(d)
    PROVE  /\ IsFiniteSet(FirstKeys(d, n))
           /\ Cardinality(FirstKeys(d, n)) <= n
           /\ Unique(d) => Cardinality(FirstKeys(d, n)) = n
  <1> DEFINE f == [i \in 1..n |-> d[i].key]
  <1>0. Len(d) \in Nat /\ DOMAIN d = 1..Len(d) /\ n \in Nat /\ 1..n \subseteq DOMAIN d
    BY LenProperties
  <1>1. IsFiniteSet(1..n) /\ Cardinality(1..n) = n
    BY <1>0, FS_Interval
  <1>2. f \in Surjection(1..n, FirstKeys(d, n))
    BY DEF Surjection, FirstKeys
  <1>3. /\ IsFiniteSet(FirstKeys(d, n)) /\ Cardinality(FirstKeys(d, n)) <= n
        /\ f \in Injection(1..n, FirstKeys(d, n)) => Cardinality(FirstKeys(d, n)) = n
    BY <1>1, <1>2, FS_Surjection
  <1>4. ASSUME Unique(d) PROVE f \in Injection(1..n, FirstKeys(d, n))
    <2>1. \A i, j \in 1..n : d[i].key = d[j].key => i = j
      BY <1>0, <1>4 DEF Unique
    <2>2. f \in [1..n -> FirstKeys(d, n)]
      BY DEF FirstKeys
    <2> QED
      BY <2>1, <2>2 DEF Injection, IsInjective
  <1> QED
    BY <1>3, <1>4

\* The answer to k is held: it is in the dictionary, or on its way there.
IsHeld(k) == IsRecording(k) \/ Has(cached, k)

\* What is held is the last reply sent.
HoldsLast ==
    \A k \in Key : /\ AnswerHeld(k) = IF IsHeld(k) THEN last[k] ELSE NONE
                   /\ IsHeld(k) => last[k] \in Reply

LEMMA HeldIsLast ==
    ASSUME OneLoop
    PROVE  Inv /\ LoopInv => HoldsLast
  <1> SUFFICES ASSUME Inv, LoopInv, NEW k \in Key
               PROVE  /\ AnswerHeld(k) = IF IsHeld(k) THEN last[k] ELSE NONE
                      /\ IsHeld(k) => last[k] \in Reply
    BY DEF HoldsLast
  <1>1. CASE IsRecording(k)
    <2> DEFINE w == CHOOSE v \in Worker : pc[v] = "record" /\ req[v] = k
    <2>1. w \in Worker /\ pc[w] = "record" /\ req[w] = k
      BY <1>1 DEF IsRecording
    <2>2. AnswerHeld(k) = [raw |-> run[w], exp |-> exp[w]]
      BY <1>1 DEF AnswerHeld, IsRecording
    <2> HIDE DEF w
    <2>3. last[k] = [raw |-> run[w], exp |-> exp[w]]
      BY <2>1 DEF LoopInv, RecordsLast
    <2>4. run[w] \in Raw /\ exp[w] \in Nat
      BY <2>1, TypeFacts, DedupAssumption DEF Inv, Provenance, RunsServeRequests, InHandler,
          Produced, TypeOK
    <2> QED
      BY <1>1, <2>2, <2>3, <2>4 DEF IsHeld, Reply
  <1>2. CASE ~IsRecording(k) /\ Has(cached, k)
    <2> DEFINE i == IndexOf(cached, k)
    <2>1. i \in DOMAIN cached /\ cached[i].key = k
      BY <1>2, IndexOfFacts
    <2>2. AnswerHeld(k) = [raw |-> cached[i].raw, exp |-> cached[i].exp]
      BY <1>2 DEF AnswerHeld, IsRecording
    <2> HIDE DEF i
    <2>3. last[k] = [raw |-> cached[i].raw, exp |-> cached[i].exp]
      BY <2>1 DEF LoopInv, Faithful
    <2> QED
      BY <1>2, <2>1, <2>2, <2>3, EntryFacts DEF IsHeld, Reply
  <1>3. CASE ~IsHeld(k)
    BY <1>3 DEF AnswerHeld, IsHeld, IsRecording
  <1> QED
    BY <1>1, <1>2, <1>3 DEF IsHeld

LEMMA HeldIsLastNext ==
    ASSUME OneLoop
    PROVE  Inv' /\ LoopInv' => HoldsLast'
  BY HeldIsLast, PTL

\* The keys that are held.
HeldKeys == {k \in Key : IsHeld(k)}

\* The abstract state in the terms of the dispatch.
LEMMA AbstractState ==
    ASSUME HoldsLast
    PROVE  /\ DD!Held = HeldKeys
           /\ \A k \in Key : DD!LiveAnswer(k) <=> IsHeld(k) /\ now < last[k].exp
           /\ [k \in Key |-> AnswerHeld(k)] = [k \in Key |-> IF IsHeld(k) THEN last[k] ELSE NONE]
  <1>1. \A k \in Key : AnswerHeld(k) # NONE <=> IsHeld(k)
    BY DedupAssumption DEF HoldsLast, Reply
  <1>2. DD!Held = HeldKeys
    BY <1>1 DEF DD!Held, HeldKeys
  <1>3. \A k \in Key : DD!LiveAnswer(k) <=> IsHeld(k) /\ now < last[k].exp
    BY <1>1 DEF DD!LiveAnswer, HoldsLast
  <1> QED
    BY <1>2, <1>3 DEF HoldsLast

\* Nothing abstract happens while no answer comes or goes.
LEMMA AnswersKept ==
    ASSUME HoldsLast, HoldsLast', last' = last, \A k \in Key : IsHeld(k)' <=> IsHeld(k)
    PROVE  [k \in Key |-> AnswerHeld(k)]' = [k \in Key |-> AnswerHeld(k)]
  BY DEF HoldsLast

\* The abstract specification counts as this one does.
LEMMA SameCardinality == \A S : DD!Cardinality(S) = Cardinality(S)
  BY DEF DD!Cardinality, Cardinality

\* Answers that go are forgotten: none of them alive, or no more than are held
\* beyond the cap.
LEMMA ForgetStep ==
    ASSUME HoldsLast, HoldsLast', UNCHANGED <<last, now, wire>>,
           NEW S \in SUBSET HeldKeys,
           \A k \in Key : IsHeld(k)' <=> IsHeld(k) /\ k \notin S,
           Cardinality({k \in S : now < last[k].exp}) <=
               IF Cardinality(HeldKeys) > MaxEntries THEN Cardinality(HeldKeys) - MaxEntries ELSE 0
    PROVE  DD!Next
  <1>1. /\ DD!Held = HeldKeys
        /\ \A k \in Key : DD!LiveAnswer(k) <=> IsHeld(k) /\ now < last[k].exp
    BY AbstractState
  <1>2. {k \in S : DD!LiveAnswer(k)} = {k \in S : now < last[k].exp}
    BY <1>1 DEF HeldKeys
  <1>3. [k \in Key |-> AnswerHeld(k)]' =
            [k \in Key |-> IF k \in S THEN NONE ELSE [c \in Key |-> AnswerHeld(c)][k]]
    BY DEF HoldsLast, HeldKeys
  <1>4. DD!Forget(S)
    BY <1>1, <1>2, <1>3, SameCardinality DEF DD!Forget
  <1> QED
    BY <1>1, <1>4 DEF DD!Next

\* The loop moves without an answer.
LEMMA QuietRefines ==
    ASSUME OneLoop, Inv, HoldsLast, HoldsLast', NEW w \in Worker,
           \/ \E k \in OptKey : Receive(w, k)
           \/ ConsultNoKey(w) \/ MarkAndStart(w) \/ HandlerDone(w) \/ Finally(w)
    PROVE  UNCHANGED DD!vars
  <1>1. /\ UNCHANGED <<cached, now, wire, last>>
        /\ pc[w] # "record" /\ pc'[w] # "record"
    BY DEF Receive, ConsultNoKey, MarkAndStart, HandlerDone, Finally, StartRun, Goto, cacheVars,
        historyVars, MarkInFlight, DropInFlight, Inv, TypeOK
  <1>2. \A k \in Key : IsHeld(k)' <=> IsHeld(k)
    BY <1>1 DEF OneLoop, IsHeld, IsRecording
  <1> QED
    BY <1>1, <1>2, AnswersKept DEF DD!vars

\* lookup() replays a live answer, and forgets at most an expired one.
LEMMA LookupRefines ==
    ASSUME OneLoop, Inv, LoopInv, HoldsLast, HoldsLast', NEW w \in Worker,
           ConsultDrop(w) \/ ConsultResend(w) \/ ConsultMiss(w)
    PROVE  DD!Next \/ UNCHANGED DD!vars
  <1> DEFINE k == req[w]
  <1>1. /\ pc[w] = "consult" /\ pc'[w] # "record" /\ k \in Key
        /\ LookupEffect(k) /\ UNCHANGED <<now, last>>
    BY DEF ConsultDrop, ConsultResend, ConsultMiss, Goto, historyVars, LookupEffect, Inv, TypeOK,
        OptKey
  <1>2. \A c \in Key : (IsHeld(c) <=> Has(cached, c)) /\ (IsHeld(c)' <=> Has(cached', c))
    BY <1>1 DEF OneLoop, IsHeld, IsRecording
  <1>3. cached \in Seq(Entry) /\ Unique(cached) /\ now \in Nat /\ CacheTypeOK
    BY EntryFacts DEF LoopInv
  <1>4. CASE Hit(k)
    <2>1. PICK i \in DOMAIN cached : cached[i].key = k /\ now < cached[i].exp
      BY <1>4 DEF Hit
    <2>2. Has(cached, k) /\ cached' = MoveToEnd(cached, k)
      BY <1>1, <1>4, <2>1 DEF Has, LookupEffect
    <2>3. Within(cached', cached) /\ Within(cached, cached')
      BY <1>3, <2>2, MoveToEndFacts, MoveToEndKeeps
    <2>4. \A c \in Key : IsHeld(c)' <=> IsHeld(c)
      BY <1>2, <2>3 DEF Within, Has
    <2>5. [c \in Key |-> AnswerHeld(c)]' = [c \in Key |-> AnswerHeld(c)]
      BY <1>1, <2>4, AnswersKept
    <2>6. LookupResult(k) \in Raw
      BY <1>4, MissFacts
    <2>7. ConsultResend(w)
      BY <2>6, CacheAssumption DEF ConsultDrop, ConsultMiss
    <2>8. last[k] = [raw |-> cached[i].raw, exp |-> cached[i].exp]
      BY <2>1 DEF LoopInv, Faithful
    <2>9. LookupResult(k) = last[k].raw
      <3>1. IndexOf(cached, k) \in DOMAIN cached /\ cached[IndexOf(cached, k)].key = k
        BY <2>2, IndexOfFacts
      <3>2. IndexOf(cached, k) = i
        BY <1>3, <2>1, <3>1 DEF Unique
      <3> QED
        BY <1>4, <2>8, <3>2 DEF LookupResult
    <2>10. DD!LiveAnswer(k)
      BY <1>1, <1>2, <2>1, <2>2, <2>8, AbstractState
    <2>11. AnswerHeld(k) = last[k]
      BY <1>1, <1>2, <2>2 DEF HoldsLast
    <2>12. DD!Replay(k)
      BY <1>1, <2>5, <2>7, <2>9, <2>10, <2>11 DEF DD!Replay, ConsultResend
    <2> QED
      BY <1>1, <2>12 DEF DD!Next
  <1>5. CASE ~Hit(k)
    <2>1. cached' = Without(cached, k)
      BY <1>1, <1>5 DEF LookupEffect
    <2>2. wire' = wire
      BY <1>5, MissFacts DEF ConsultResend, ConsultDrop, ConsultMiss, historyVars
    <2>3. Within(cached', cached) /\ ~Has(cached', k)
      BY <1>3, <2>1, WithoutFacts
    <2>4. \A c \in Key : Has(cached', c) <=> Has(cached, c) /\ c # k
      <3>1. ASSUME NEW c \in Key, Has(cached', c) PROVE Has(cached, c) /\ c # k
        BY <2>3, <3>1 DEF Within, Has
      <3>2. ASSUME NEW c \in Key, Has(cached, c), c # k PROVE Has(cached', c)
        <4>1. PICK j \in DOMAIN cached : cached[j].key = c
          BY <3>2 DEF Has
        <4>2. \E i \in DOMAIN cached' : cached'[i] = cached[j]
          BY <1>3, <2>1, <3>2, <4>1, WithoutKeeps
        <4> QED
          BY <4>1, <4>2 DEF Has
      <3> QED
        BY <3>1, <3>2
    <2>5. CASE ~Has(cached, k)
      <3>1. \A c \in Key : IsHeld(c)' <=> IsHeld(c)
        BY <1>2, <2>4, <2>5
      <3> QED
        BY <1>1, <2>2, <3>1, AnswersKept DEF DD!vars
    <2>6. CASE Has(cached, k)
      <3>1. {k} \in SUBSET HeldKeys
        BY <1>1, <1>2, <2>6 DEF HeldKeys
      <3>2. \A c \in Key : IsHeld(c)' <=> IsHeld(c) /\ c \notin {k}
        BY <1>2, <2>4
      <3>3. PICK i \in DOMAIN cached : cached[i].key = k
        BY <2>6 DEF Has
      <3>4. ~(now < last[k].exp)
        <4>1. last[k] = [raw |-> cached[i].raw, exp |-> cached[i].exp]
          BY <3>3 DEF LoopInv, Faithful
        <4> QED
          BY <1>5, <3>3, <4>1 DEF Hit
      <3>5. {c \in {k} : now < last[c].exp} = {}
        BY <3>4
      <3>6. Cardinality({c \in {k} : now < last[c].exp}) = 0
        BY <3>5, FS_EmptySet
      <3>7. Cardinality(HeldKeys) \in Nat /\ MaxEntries \in Nat
        <4>1. HeldKeys = FirstKeys(cached, Len(cached))
          BY <1>2, <1>3, LenProperties, EntryFacts DEF HeldKeys, FirstKeys, Has
        <4>2. Len(cached) \in 0..Len(cached)
          BY <1>3, LenProperties
        <4> QED
          BY <1>3, <4>1, <4>2, KeysCounted, FS_CardinalityType, CacheAssumption
      <3>8. Cardinality({c \in {k} : now < last[c].exp}) <=
               IF Cardinality(HeldKeys) > MaxEntries THEN Cardinality(HeldKeys) - MaxEntries ELSE 0
        BY <3>6, <3>7
      <3> HIDE DEF k
      <3> QED
        BY <1>1, <2>2, <3>1, <3>2, <3>8, ForgetStep
    <2> QED
      BY <2>5, <2>6
  <1> QED
    BY <1>4, <1>5

\* The reply of the handler executes the request.
LEMMA SendRefines ==
    ASSUME OneLoop, Inv, LoopInv, HoldsLast, HoldsLast', NEW w \in Worker, SendReply(w)
    PROVE  DD!Next
  <1> DEFINE k == req[w]
             n == run[w]
  <1>0. /\ pc[w] = "handle" /\ UNCHANGED <<cached, now, req>>
        /\ pc'[w] = IF k = NONE THEN "replied" ELSE "record"
        /\ Remember(k, n, now + TTL)
        /\ k \in OptKey /\ last \in [Key -> Reply \union {NONE}]
    BY DEF SendReply, Goto, cacheVars, Inv, TypeOK
  <1>1. n \in Raw /\ \A m \in wire : m[2] # n
    BY <1>0, TypeFacts, DedupAssumption DEF LoopInv, FreshRuns, Inv, Provenance,
        RunsServeRequests, InHandler, Produced, TypeOK
  <1>2. \A c \in Key : /\ IsHeld(c) <=> Has(cached, c)
                       /\ IsHeld(c)' <=> Has(cached, c) \/ k = c
    BY <1>0, DedupAssumption DEF OneLoop, IsHeld, IsRecording
  <1>3. CASE k = NONE
    <2>1. wire' = wire \union {<<NONE, n>>} /\ last' = last
      BY <1>0, <1>3 DEF Remember
    <2>2. \A c \in Key : IsHeld(c)' <=> IsHeld(c)
      BY <1>2, <1>3, DedupAssumption
    <2>3. [c \in Key |-> AnswerHeld(c)]' = [c \in Key |-> AnswerHeld(c)]
      BY <2>1, <2>2, AnswersKept
    <2>4. DD!ExecuteUnkeyed(n)
      BY <1>0, <1>1, <2>1, <2>3 DEF DD!ExecuteUnkeyed
    <2> QED
      BY <1>1, <2>4 DEF DD!Next
  <1>4. CASE k \in Key
    <2>1. /\ wire' = wire \union {<<k, n>>}
          /\ last' = [last EXCEPT ![k] = [raw |-> n, exp |-> now + TTL]]
      BY <1>0, <1>4, DedupAssumption DEF Remember
    <2>2. ~Has(cached, k)
      BY <1>0 DEF LoopInv, ServedNotCached
    <2>3. ~DD!LiveAnswer(k)
      BY <1>2, <1>4, <2>2, AbstractState
    <2>4. [c \in Key |-> AnswerHeld(c)]' =
              [[c \in Key |-> AnswerHeld(c)] EXCEPT ![k] = [raw |-> n, exp |-> now + TTL]]
      <3>1. \A c \in Key : AnswerHeld(c)' = IF c = k THEN [raw |-> n, exp |-> now + TTL]
                                            ELSE AnswerHeld(c)
        <4> HIDE DEF k, n
        <4> QED
          BY <1>0, <1>2, <1>4, <2>1 DEF HoldsLast
      <3> QED
        BY <3>1
    <2>5. DD!Execute(k, n)
      BY <1>0, <1>1, <2>1, <2>3, <2>4 DEF DD!Execute
    <2> QED
      BY <1>1, <1>4, <2>5 DEF DD!Next
  <1> QED
    BY <1>0, <1>3, <1>4 DEF OptKey

\* record_reply forgets expired answers, and live ones only beyond the cap.
LEMMA RecordRefines ==
    ASSUME OneLoop, Inv, LoopInv, HoldsLast, HoldsLast', NEW w \in Worker, Record(w)
    PROVE  DD!Next
  <1> DEFINE k == req[w]
             e == [key |-> k, raw |-> run[w], exp |-> exp[w]]
             p == PutAtEnd(cached, k, e)
             S == {c \in HeldKeys : ~Has(cached', c)}
             L == {c \in S : now < last[c].exp}
  <1>0. /\ pc[w] = "record" /\ pc'[w] = "replied" /\ cached' = Evict(p, now)
        /\ UNCHANGED <<now, req, wire, last>>
    BY DEF Record, RecordReply, Goto, Inv, TypeOK
  <1>1. /\ k \in Key /\ e \in Entry /\ e.key = k /\ e.exp = exp[w]
        /\ last[k] = [raw |-> run[w], exp |-> exp[w]]
    <2>1. k \in Key /\ exp[w] \in Nat /\ Produced(k, run[w])
      BY <1>0 DEF Inv, OnlyKeyedRecorded, TypeOK, OptKey, Provenance, RunsServeRequests, InHandler
    <2>2. run[w] \in Raw
      BY <2>1, TypeFacts, DedupAssumption DEF Produced, Inv, TypeOK
    <2>3. last[k] = [raw |-> run[w], exp |-> exp[w]]
      BY <1>0 DEF LoopInv, RecordsLast
    <2> QED
      BY <2>1, <2>2, <2>3 DEF Entry
  <1>2. cached \in Seq(Entry) /\ Unique(cached) /\ now \in Nat
    BY EntryFacts DEF LoopInv
  <1>3. p \in Seq(Entry) /\ Unique(p) /\ Within(p, Append(cached, e))
    BY <1>1, <1>2, PutAtEndFacts
  <1>4. /\ Len(p) \in DOMAIN p /\ p[Len(p)] = e
        /\ \A j \in DOMAIN cached : cached[j].key # k => \E i \in DOMAIN p : p[i] = cached[j]
    <2> HIDE DEF e, k
    <2>1. e \in Entry /\ cached \in Seq(Entry)
      BY <1>1, <1>2
    <2>2. p = PutAtEnd(cached, k, e)
      OBVIOUS
    <2> HIDE DEF p
    <2> QED
      BY <2>1, <2>2, PutAtEndKeeps
  <1>5. \A c \in Key : /\ IsHeld(c) <=> Has(cached, c) \/ c = k
                       /\ IsHeld(c)' <=> Has(cached', c)
    BY <1>0 DEF OneLoop, IsHeld, IsRecording
  <1>6. \A i \in DOMAIN p : p[i] = e \/ \E j \in DOMAIN cached : p[i] = cached[j]
    <2>1. /\ Len(cached) \in Nat /\ DOMAIN cached = 1..Len(cached)
          /\ DOMAIN Append(cached, e) = 1..(Len(cached) + 1)
          /\ \A j \in 1..Len(cached) : Append(cached, e)[j] = cached[j]
          /\ Append(cached, e)[Len(cached) + 1] = e
      BY <1>1, <1>2, AppendProperties, LenProperties
    <2> HIDE DEF e, p
    <2> QED
      BY <1>3, <2>1 DEF Within
  <1> HIDE DEF e, p
  <1>7. \A i \in DOMAIN p : p[i].key \in Key /\ last[p[i].key].exp = p[i].exp
    <2> SUFFICES ASSUME NEW i \in DOMAIN p
                 PROVE  p[i].key \in Key /\ last[p[i].key].exp = p[i].exp
      OBVIOUS
    <2>1. CASE p[i] = e
      BY <1>1, <2>1
    <2>2. CASE \E j \in DOMAIN cached : p[i] = cached[j]
      <3>1. PICK j \in DOMAIN cached : p[i] = cached[j]
        BY <2>2
      <3>2. last[cached[j].key] = [raw |-> cached[j].raw, exp |-> cached[j].exp]
        BY DEF LoopInv, Faithful
      <3> QED
        BY <3>1, <3>2, EntryFacts
    <2> QED
      BY <1>6, <2>1, <2>2
  <1>8. HeldKeys = FirstKeys(p, Len(p))
    <2>1. DOMAIN p = 1..Len(p)
      BY <1>3, LenProperties
    <2>2. ASSUME NEW c \in HeldKeys PROVE \E i \in DOMAIN p : p[i].key = c
      BY <1>1, <1>4, <1>5 DEF HeldKeys, Has
    <2>3. ASSUME NEW i \in DOMAIN p PROVE p[i].key \in HeldKeys
      BY <1>1, <1>5, <1>6, <1>7 DEF HeldKeys, Has
    <2> QED
      BY <2>1, <2>2, <2>3 DEF FirstKeys
  <1>9. Len(p) \in Nat /\ Cardinality(HeldKeys) = Len(p) /\ IsFiniteSet(HeldKeys)
    BY <1>3, <1>8, LenProperties, KeysCounted
  <1>10. PICK m \in 1..(Len(p) + 1) :
            /\ DOMAIN cached' = 1..(Len(p) - m + 1)
            /\ \A i \in DOMAIN cached' : m + i - 1 \in DOMAIN p /\ cached'[i] = p[m + i - 1]
            /\ \/ \A j \in 1..(m - 1) : ~(p[j].exp > now)
               \/ m - 1 = Len(p) - MaxEntries
    BY <1>0, <1>2, <1>3, EvictSuffix
  <1>11. \A i \in 1..Len(p) : i >= m => Has(cached', p[i].key)
    <2> SUFFICES ASSUME NEW i \in 1..Len(p), i >= m PROVE Has(cached', p[i].key)
      OBVIOUS
    <2>1. i - m + 1 \in DOMAIN cached' /\ m + (i - m + 1) - 1 = i
      BY <1>9, <1>10
    <2>2. cached'[i - m + 1] = p[i]
      BY <1>10, <2>1
    <2> QED
      BY <2>1, <2>2 DEF Has
  <1>12. S \subseteq FirstKeys(p, m - 1)
    <2> SUFFICES ASSUME NEW c \in S PROVE c \in FirstKeys(p, m - 1)
      OBVIOUS
    <2>1. PICK i \in 1..Len(p) : p[i].key = c
      BY <1>8 DEF FirstKeys
    <2>2. i < m
      BY <1>9, <1>11, <2>1
    <2> QED
      BY <1>9, <2>1, <2>2 DEF FirstKeys
  <1>13. m - 1 \in 0..Len(p) /\ m - 1 \in Nat
    BY <1>9
  <1>14. /\ IsFiniteSet(FirstKeys(p, m - 1)) /\ Cardinality(FirstKeys(p, m - 1)) <= m - 1
         /\ Cardinality(FirstKeys(p, m - 1)) \in Nat
    BY <1>3, <1>13, KeysCounted, FS_CardinalityType
  <1>15. Cardinality(L) <= IF Cardinality(HeldKeys) > MaxEntries
                           THEN Cardinality(HeldKeys) - MaxEntries ELSE 0
    <2>0. MaxEntries \in Nat
      BY CacheAssumption
    <2>1. CASE \A j \in 1..(m - 1) : ~(p[j].exp > now)
      <3>1. L = {}
        <4> SUFFICES ASSUME NEW c \in L PROVE FALSE
          OBVIOUS
        <4>1. PICK j \in 1..(m - 1) : p[j].key = c
          BY <1>12 DEF FirstKeys
        <4>2. j \in DOMAIN p
          BY <1>3, <1>9, <1>13, LenProperties
        <4>3. last[c].exp = p[j].exp /\ p[j].exp \in Nat
          <5>1. p[j] \in Entry
            BY <1>3, <4>2, LenProperties, ElementOfSeq
          <5> QED
            BY <1>7, <4>1, <4>2, <5>1 DEF Entry
        <4> QED
          BY <1>2, <2>1, <4>1, <4>3
      <3>2. Cardinality(L) = 0
        BY <3>1, FS_EmptySet
      <3> QED
        BY <1>9, <2>0, <3>2
    <2>2. CASE m - 1 = Len(p) - MaxEntries
      <3>1. L \in SUBSET FirstKeys(p, m - 1)
        BY <1>12
      <3>2. Cardinality(L) <= Cardinality(FirstKeys(p, m - 1)) /\ Cardinality(L) \in Nat
        BY <1>14, <3>1, FS_Subset, FS_CardinalityType
      <3> QED
        BY <1>9, <1>13, <1>14, <2>0, <2>2, <3>2
    <2> QED
      BY <1>10, <2>1, <2>2
  <1>16. S \in SUBSET HeldKeys /\ \A c \in Key : IsHeld(c)' <=> IsHeld(c) /\ c \notin S
    <2>1. ASSUME NEW c \in Key, Has(cached', c) PROVE IsHeld(c)
      <3>1. PICK i \in DOMAIN cached' : cached'[i].key = c
        BY <2>1 DEF Has
      <3>2. m + i - 1 \in DOMAIN p /\ p[m + i - 1].key = c
        BY <1>10, <3>1
      <3>3. c \in HeldKeys
        BY <1>3, <1>8, <3>2, LenProperties DEF FirstKeys
      <3> QED
        BY <3>3 DEF HeldKeys
    <2> QED
      BY <1>5, <2>1 DEF HeldKeys
  <1> HIDE DEF S
  <1> QED
    BY <1>0, <1>15, <1>16, ForgetStep

\* Every step of the loop is a step of the abstract specification or none.
LEMMA StepRefines ==
    ASSUME OneLoop
    PROVE  Inv /\ LoopInv /\ HoldsLast /\ HoldsLast' /\ [Next]_vars => [DD!Next]_(DD!vars)
  <1> SUFFICES ASSUME Inv, LoopInv, HoldsLast, HoldsLast', [Next]_vars
               PROVE  DD!Next \/ UNCHANGED DD!vars
    OBVIOUS
  <1>1. deferred = {} /\ recording = {} /\ ~AllowDefer
    BY DEF LoopInv, NoneDue, OneLoop
  <1>2. CASE \E w \in Worker : (\E k \in OptKey : Receive(w, k)) \/ Step(w)
    BY <1>1, <1>2, QuietRefines, LookupRefines, SendRefines, RecordRefines
       DEF Step, HandlerDefers
  <1>3. CASE Wait
    <2>1. now' = now + 1 /\ UNCHANGED <<cached, pc, req, wire, last>>
      BY <1>3 DEF Wait, Tick, dispatchVars, historyVars
    <2>2. \A k \in Key : IsHeld(k)' <=> IsHeld(k)
      BY <2>1 DEF IsHeld, IsRecording
    <2>3. DD!Tick
      BY <2>1, <2>2, AnswersKept DEF DD!Tick
    <2> QED
      BY <2>3 DEF DD!Next
  <1>4. CASE UNCHANGED vars
    <2>1. UNCHANGED <<cached, pc, req, now, wire, last>>
      BY <1>4 DEF vars
    <2>2. \A k \in Key : IsHeld(k)' <=> IsHeld(k)
      BY <2>1 DEF IsHeld, IsRecording
    <2> QED
      BY <2>1, <2>2, AnswersKept DEF DD!vars
  <1> QED
    BY <1>1, <1>2, <1>3, <1>4 DEF Next

LEMMA InitRefines == Init => DD!Init
  <1> SUFFICES ASSUME Init PROVE DD!Init
    OBVIOUS
  <1>1. \A k \in Key : AnswerHeld(k) = NONE
    BY DEF Init, CacheInit, AnswerHeld, Has
  <1> QED
    BY <1>1 DEF Init, CacheInit, DD!Init

\* One dispatch loop whose handlers reply before they return implements RFC
\* 5080 duplicate detection, for every set of keys, lifetime and cap: what the
\* steps of _dedup_dispatch, consult_cache and record_reply do to the
\* dictionary is to execute a request only while no live answer to it is held,
\* to replay live answers, and to forget a live one only beyond max_entries.
THEOREM DedupImplements ==
    ASSUME OneLoop
    PROVE  Spec => ImplementsDuplicateDetection
  <1>1. Inv /\ LoopInv => HoldsLast
    BY HeldIsLast
  <1>2. Inv /\ LoopInv /\ HoldsLast /\ HoldsLast' /\ [Next]_vars => [DD!Next]_(DD!vars)
    BY StepRefines
  <1> QED
    BY <1>1, <1>2, InitRefines, LoopInvAlways, PTL DEF Spec, ImplementsDuplicateDetection, DD!Spec

=============================================================================
