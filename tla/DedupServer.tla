---------------------------- MODULE DedupServer ----------------------------
(***************************************************************************)
(* Request dispatch with duplicate detection, as Server._dedup_dispatch    *)
(* (server.py) and ServerAsync._dedup_dispatch (server_async.py) do it     *)
(* through RequestRouter.  A worker is a thread that runs the dispatch     *)
(* loop; all workers share one ResponseCache.  One worker is the main loop *)
(* of a Server or the event loop of a ServerAsync; several are servers     *)
(* that share a cache (dedup_cache=...).                                   *)
(*                                                                         *)
(* Handlers are user code.  A handler sends its reply before it returns,   *)
(* returns or raises without a reply, or (AllowDefer) hands the request to *)
(* a task, thread or upstream server that replies after it has returned.   *)
(***************************************************************************)
EXTENDS ResponseCache

CONSTANTS
    Worker,       \* threads that run the dispatch loop
    AllowDefer,   \* whether a handler may leave its reply to someone else
    MaxArrivals   \* bound: datagrams that reach the dispatch

\* The reply of the n-th handler run is the number n: two runs never produce
\* the same bytes (State, Response Authenticator, salts).
ASSUME DedupAssumption ==
    /\ AllowDefer \in BOOLEAN
    /\ MaxArrivals \in Nat
    /\ Raw = 1..MaxArrivals
    /\ NONE \notin Key
    /\ NONE \notin [raw: Raw, exp: Nat]
    /\ IsFiniteSet(Worker)

VARIABLES
    pc,           \* where each worker is in _dedup_dispatch
    req,          \* req[w]: the dedup key of the request w works on, or NONE
    run,          \* run[w]: the handler run w is executing
    exp,          \* exp[w]: the expires_at that record_reply computed
    deferred,     \* runs whose handler returned and whose reply is still due
    recording,    \* deferred replies sent but not recorded yet
    arrivals,     \* datagrams received
    runs,         \* history: runs[n] is the key the n-th handler run serves
    wire,         \* history: every <<key, reply>> sent
    last,         \* history: last[k] is the last reply a handler sent for k
    lost          \* history: keys whose live reply the LRU cap evicted

dispatchVars == <<pc, req, run, exp, deferred, recording, arrivals>>
historyVars == <<runs, wire, last, lost>>
vars == <<inFlight, cached, now, pc, req, run, exp, deferred, recording,
          arrivals, runs, wire, last, lost>>

PC == {"idle", "consult", "mark", "handle", "record", "replied", "finally"}
OptKey == Key \union {NONE}
Reply == [raw: Raw, exp: Nat]

TypeOK ==
    /\ CacheTypeOK
    /\ pc \in [Worker -> PC]
    /\ req \in [Worker -> OptKey]
    /\ run \in [Worker -> 0..MaxArrivals]
    /\ exp \in [Worker -> Nat]
    /\ deferred \subseteq 1..MaxArrivals
    /\ recording \subseteq [key: Key, raw: Raw, exp: Nat]
    /\ arrivals \in 0..MaxArrivals
    /\ runs \in Seq(OptKey)
    /\ wire \subseteq OptKey \X Raw
    /\ last \in [Key -> Reply \union {NONE}]
    /\ lost \subseteq Key

Init ==
    /\ CacheInit
    /\ pc = [w \in Worker |-> "idle"]
    /\ req = [w \in Worker |-> NONE]
    /\ run = [w \in Worker |-> 0]
    /\ exp = [w \in Worker |-> 0]
    /\ deferred = {}
    /\ recording = {}
    /\ arrivals = 0
    /\ runs = <<>>
    /\ wire = {}
    /\ last = [k \in Key |-> NONE]
    /\ lost = {}

Goto(w, label) == pc' = [pc EXCEPT ![w] = label]

-----------------------------------------------------------------------------
(* _dedup_dispatch up to the handler. *)

\* A verified request reaches the dispatch; dedup_key_for gives its key, or
\* None for a code or a server without duplicate detection.
Receive(w, k) ==
    /\ pc[w] = "idle"
    /\ arrivals < MaxArrivals
    /\ arrivals' = arrivals + 1
    /\ req' = [req EXCEPT ![w] = k]
    /\ Goto(w, "consult")
    /\ UNCHANGED <<cacheVars, run, exp, deferred, recording, historyVars>>

\* The handler is entered.
StartRun(w) ==
    /\ runs' = Append(runs, req[w])
    /\ run' = [run EXCEPT ![w] = Len(runs) + 1]
    /\ Goto(w, "handle")

\* consult_cache(cache, None, ...) is PROCESS.
ConsultNoKey(w) ==
    /\ pc[w] = "consult"
    /\ req[w] = NONE
    /\ StartRun(w)
    /\ UNCHANGED <<cacheVars, req, exp, deferred, recording, arrivals, wire, last, lost>>

\* lookup() found the request in flight: DROP.
ConsultDrop(w) ==
    /\ pc[w] = "consult"
    /\ req[w] # NONE
    /\ LookupResult(req[w]) = IN_FLIGHT
    /\ LookupEffect(req[w])
    /\ Goto(w, "idle")
    /\ UNCHANGED <<req, run, exp, deferred, recording, arrivals, historyVars>>

\* lookup() found a live reply, which is sent again: RESENT.
ConsultResend(w) ==
    /\ pc[w] = "consult"
    /\ req[w] # NONE
    /\ LookupResult(req[w]) \in Raw
    /\ LookupEffect(req[w])
    /\ wire' = wire \union {<<req[w], LookupResult(req[w])>>}
    /\ Goto(w, "idle")
    /\ UNCHANGED <<req, run, exp, deferred, recording, arrivals, runs, last, lost>>

\* lookup() found nothing; consult_cache has released the lock.
ConsultMiss(w) ==
    /\ pc[w] = "consult"
    /\ req[w] # NONE
    /\ LookupResult(req[w]) = NONE
    /\ LookupEffect(req[w])
    /\ Goto(w, "mark")
    /\ UNCHANGED <<req, run, exp, deferred, recording, arrivals, historyVars>>

\* consult_cache takes the lock again for mark_in_flight: PROCESS.
MarkAndStart(w) ==
    /\ pc[w] = "mark"
    /\ MarkInFlight(req[w])
    /\ StartRun(w)
    /\ UNCHANGED <<req, exp, deferred, recording, arrivals, wire, last, lost>>

-----------------------------------------------------------------------------
(* The handler, send_response / send_reply_packet, and the finally clause. *)

\* A keyed reply counts as the last one sent for its key.
Remember(k, n, e) ==
    /\ wire' = wire \union {<<k, n>>}
    /\ IF k = NONE
       THEN UNCHANGED <<last, lost>>
       ELSE /\ last' = [last EXCEPT ![k] = [raw |-> n, exp |-> e]]
            /\ lost' = lost \ {k}

SendReplyUnguarded(w) ==
    /\ pc[w] = "handle"
    /\ exp' = [exp EXCEPT ![w] = now + TTL]
    /\ Remember(req[w], run[w], now + TTL)
    /\ Goto(w, "record")
    /\ UNCHANGED <<cacheVars, req, run, deferred, recording, arrivals, runs>>

\* sendto(raw), then record_reply computes expires_at before it takes the lock.
SendReply(w) ==
    /\ pc[w] = "handle"
    /\ exp' = [exp EXCEPT ![w] = now + TTL]
    /\ Remember(req[w], run[w], now + TTL)
    /\ Goto(w, IF req[w] = NONE THEN "replied" ELSE "record")
    /\ UNCHANGED <<cacheVars, req, run, deferred, recording, arrivals, runs>>

\* The keys whose live entry the cap pushes out of the dictionary.
CapVictims(k) ==
    {cached[i].key : i \in {j \in DOMAIN cached :
        /\ cached[j].key # k
        /\ cached[j].exp > now
        /\ ~Has(cached', cached[j].key)}}

\* The locked part of record_reply.
Record(w) ==
    /\ pc[w] = "record"
    /\ RecordReply(req[w], run[w], exp[w])
    /\ lost' = lost \union CapVictims(req[w])
    /\ Goto(w, "replied")
    /\ UNCHANGED <<req, run, exp, deferred, recording, arrivals, runs, wire, last>>

\* The handler returns or raises; the reply, if any, has been sent.
HandlerDone(w) ==
    /\ pc[w] \in {"handle", "replied"}
    /\ Goto(w, "finally")
    /\ UNCHANGED <<cacheVars, req, run, exp, deferred, recording, arrivals, historyVars>>

\* The handler returns and leaves the reply to a task or another thread.
HandlerDefers(w) ==
    /\ AllowDefer
    /\ pc[w] = "handle"
    /\ deferred' = deferred \union {run[w]}
    /\ Goto(w, "finally")
    /\ UNCHANGED <<cacheVars, req, run, exp, recording, arrivals, historyVars>>

\* finally: dedup_drop_in_flight(key), which ignores None.
FinallyNoDrop(w) ==
    /\ pc[w] = "finally"
    /\ Goto(w, "idle")
    /\ UNCHANGED <<cacheVars, req, run, exp, deferred, recording, arrivals, historyVars>>
Finally(w) ==
    /\ pc[w] = "finally"
    /\ IF req[w] = NONE THEN UNCHANGED cacheVars ELSE DropInFlight(req[w])
    /\ Goto(w, "idle")
    /\ UNCHANGED <<req, run, exp, deferred, recording, arrivals, historyVars>>

\* The deferred reply: the packet still carries _dedup_key.
SendDeferred(n) ==
    /\ n \in deferred
    /\ deferred' = deferred \ {n}
    /\ Remember(runs[n], n, now + TTL)
    /\ recording' = IF runs[n] = NONE THEN recording
                    ELSE recording \union {[key |-> runs[n], raw |-> n, exp |-> now + TTL]}
    /\ UNCHANGED <<cacheVars, pc, req, run, exp, arrivals, runs>>

RecordDeferred(r) ==
    /\ r \in recording
    /\ RecordReply(r.key, r.raw, r.exp)
    /\ lost' = lost \union CapVictims(r.key)
    /\ recording' = recording \ {r}
    /\ UNCHANGED <<pc, req, run, exp, deferred, arrivals, runs, wire, last>>

Wait == Tick /\ UNCHANGED <<dispatchVars, historyVars>>

Step(w) ==
    \/ ConsultNoKey(w) \/ ConsultDrop(w) \/ ConsultResend(w) \/ ConsultMiss(w)
    \/ MarkAndStart(w) \/ SendReply(w) \/ Record(w)
    \/ HandlerDone(w) \/ HandlerDefers(w) \/ Finally(w)

Next ==
    \/ \E w \in Worker : (\E k \in OptKey : Receive(w, k)) \/ Step(w)
    \/ \E n \in deferred : SendDeferred(n)
    \/ \E r \in recording : RecordDeferred(r)
    \/ Wait

Spec == Init /\ [][Next]_vars

-----------------------------------------------------------------------------
(* Properties. *)

InHandler(w) == pc[w] \in {"handle", "record", "replied", "finally"}

\* No marker outlives its dispatch: a key is in flight only while some worker
\* is between mark_in_flight and the finally clause for that key, however the
\* handler ends.  A leaked marker would drop every retransmission forever.
InFlightOwned ==
    \A k \in inFlight : \E w \in Worker : InHandler(w) /\ req[w] = k

\* Every reply that goes out for a key, first or replayed, was produced by a
\* handler run for that very key.
RepliesMatchRequests ==
    \A m \in wire : m[2] \in DOMAIN runs /\ runs[m[2]] = m[1]

\* A step in which the handler is entered for key k.
Starts(k) == runs' # runs /\ runs'[Len(runs')] = k

\* "Your handler runs exactly once": once a reply has been sent for a key, the
\* handler is not entered again for that key before dedup_ttl has passed,
\* unless the LRU cap evicted the reply.
NoRerunWithinTtl ==
    [][\A k \in Key : Starts(k) /\ last[k] # NONE =>
          k \in lost \/ now >= last[k].exp]_vars

\* A replayed reply is byte-identical to the last reply the handler sent for
\* the key, and is replayed only within its lifetime.
ReplaysLastReply ==
    [][\A w \in Worker : ConsultResend(w) =>
          /\ last[req[w]] # NONE
          /\ now < last[req[w]].exp
          /\ wire' = wire \union {<<req[w], last[req[w]].raw>>}]_vars

\* A request for k is being processed: a handler runs for it or its reply is due.
Processing(k) ==
    \/ \E w \in Worker : pc[w] \in {"handle", "record"} /\ req[w] = k
    \/ \E n \in deferred : runs[n] = k

\* "Duplicates that arrive while the original is still being processed are
\* dropped silently": no handler run starts for a key that is being processed.
DuplicatesDroppedWhileProcessing ==
    [][\A k \in Key : Starts(k) => ~Processing(k)]_vars

-----------------------------------------------------------------------------
(* Refinement. *)

\* The answer held for k: the reply being recorded, else the cached one.
AnswerHeld(k) ==
    IF \E w \in Worker : pc[w] = "record" /\ req[w] = k
    THEN LET w == CHOOSE w \in Worker : pc[w] = "record" /\ req[w] = k
         IN  [raw |-> run[w], exp |-> exp[w]]
    ELSE IF Has(cached, k)
    THEN LET e == cached[IndexOf(cached, k)] IN [raw |-> e.raw, exp |-> e.exp]
    ELSE NONE

DD == INSTANCE DuplicateDetection WITH answer <- [k \in Key |-> AnswerHeld(k)]

\* One dispatch loop whose handlers reply before they return implements
\* duplicate detection: consult, mark, handler, record and finally together
\* execute a request only while no live answer is held, and forget a live
\* answer only when the cache is over its cap.
ImplementsDuplicateDetection == DD!Spec

=============================================================================
