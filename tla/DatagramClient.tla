--------------------------- MODULE DatagramClient ---------------------------
(***************************************************************************)
(* One UDP transport of ClientAsync: DatagramProtocolClient with its map   *)
(* of pending requests, its identifier counter and its timeout task, and   *)
(* the part of ClientAsync that creates packets, sends them and drives EAP *)
(* rounds over the transport (client_async.py).                            *)
(*                                                                         *)
(* Everything runs on one event loop, so each callback is one step.  A     *)
(* Packet object is known by its request r and the round it is in; the     *)
(* pair stands for its Request Authenticator, which is fresh per round.    *)
(* The network may lose, delay, duplicate and reorder: a server answer to  *)
(* anything ever sent can be delivered at any time, any number of times,   *)
(* or never.                                                               *)
(*                                                                         *)
(* Time is kept as ages and as the rest of the timeout task's sleep, so    *)
(* that it can pass without bound.                                         *)
(***************************************************************************)
EXTENDS RetryPolicy, Sequences, SequencesExt

CONSTANTS
    Req,          \* requests the application makes
    Auth,         \* those sent with _send_auth_packet (the caller holds outer)
    NumIds,       \* size of the Identifier space; 256 on the wire
    MaxRounds,    \* bound: Access-Challenge rounds of one request
    Cancellable,  \* requests whose future the caller may cancel
    AllowClose    \* whether the transport may be closed

ASSUME ClientAssumption ==
    /\ Auth \subseteq Req
    /\ Cancellable \subseteq Req
    /\ NumIds \in Nat \ {0}
    /\ MaxRounds \in Nat
    /\ AllowClose \in BOOLEAN

VARIABLES
    packetId,     \* packet_id, the identifier handed out last
    pending,      \* pending_requests, in the order of the dict
    ident,        \* ident[r]: the identifier the packet of r carries
    round,        \* round[r]: how often its authenticator was regenerated
    status,       \* status[r]: what the caller has done with the packet
    inner,        \* inner[r]: the future registered with the transport
    outer,        \* outer[r]: for r in Auth, the future the caller holds
    callbacks,    \* requests whose _on_reply is scheduled on the loop
    open,         \* whether self.transport is set
    sweeper,      \* __timeout_handler__: "asleep", "dead" or "cancelled"
    nap,          \* time left until it wakes up
    wire,         \* history: the requests ever sent
    sends,        \* history: transmissions of the current round of r
    got           \* history: got[r]: the request the accepted reply answers

vars == <<packetId, pending, ident, round, status, inner, outer, callbacks,
          open, sweeper, nap, wire, sends, got>>

Ids == 0..(NumIds - 1)
Futures == {"none", "waiting", "answered", "challenged", "timeout", "error", "cancelled"}
Msg == [id: Ids, req: Req, round: 0..MaxRounds]
MaxAge == MaxWait + (MaxWait * JitterPct) \div 100
Nobody == [id |-> 0, req |-> "none", round |-> 0]

TypeOK ==
    /\ packetId \in Ids
    /\ pending \in Seq([id: Ids, req: Req, round: 0..MaxRounds,
                        retries: 0..Retries, age: 0..MaxAge])
    /\ ident \in [Req -> Ids]
    /\ round \in [Req -> 0..MaxRounds]
    /\ status \in [Req -> {"new", "created", "sent", "refused"}]
    /\ inner \in [Req -> Futures]
    /\ outer \in [Req -> Futures]
    /\ callbacks \subseteq Auth
    /\ open \in BOOLEAN
    /\ sweeper \in {"asleep", "dead", "cancelled"}
    /\ nap \in 0..Timeout
    /\ wire \subseteq Msg
    /\ sends \in [Req -> 0..(Retries + 1)]
    /\ got \in [Req -> Msg \union {Nobody}]

\* __init__ picks packet_id at random; connection_made starts the timeout
\* task, which finds nothing pending and sleeps for the base timeout.
Init ==
    /\ packetId \in Ids
    /\ pending = <<>>
    /\ ident = [r \in Req |-> 0]
    /\ round = [r \in Req |-> 0]
    /\ status = [r \in Req |-> "new"]
    /\ inner = [r \in Req |-> "none"]
    /\ outer = [r \in Req |-> "none"]
    /\ callbacks = {}
    /\ open = TRUE
    /\ sweeper = "asleep"
    /\ nap = Timeout
    /\ wire = {}
    /\ sends = [r \in Req |-> 0]
    /\ got = [r \in Req |-> Nobody]

PendingIds == {pending[i].id : i \in DOMAIN pending}

\* What the application sees of r.
CallerFuture(r) == IF r \in Auth THEN outer[r] ELSE inner[r]

-----------------------------------------------------------------------------
(* Identifiers: create_id. *)

FreeIds == Ids \ PendingIds

\* The scan of create_id starts behind packet_id and ends on it.
Distance(i) == IF i > packetId THEN i - packetId ELSE i - packetId + NumIds

NextId == CHOOSE i \in FreeIds : \A j \in FreeIds : Distance(i) <= Distance(j)

\* ClientAsync still holds the protocol.  deinitialize_transports forgets it
\* after close_transport, which raises when it awaits a task that has died.
Attached == open \/ sweeper = "dead"

\* create_*_packet: the identifier is chosen here, but nothing reserves it
\* until the packet is sent.
Create(r) ==
    /\ status[r] = "new"
    /\ Attached
    /\ FreeIds # {}
    /\ packetId' = NextId
    /\ ident' = [ident EXCEPT ![r] = NextId]
    /\ status' = [status EXCEPT ![r] = "created"]
    /\ UNCHANGED <<pending, round, inner, outer, callbacks, open, sweeper, nap,
                   wire, sends, got>>

\* All identifiers are pending (IdentifierExhausted) or there is no transport.
CreateRefused(r) ==
    /\ status[r] = "new"
    /\ ~Attached \/ FreeIds = {}
    /\ status' = [status EXCEPT ![r] = "refused"]
    /\ UNCHANGED <<packetId, pending, ident, round, inner, outer, callbacks, open,
                   sweeper, nap, wire, sends, got>>

-----------------------------------------------------------------------------
(* Sending. *)

\* DatagramProtocolClient.send_packet registers the request, then transmits.
Enqueue(r, id, rnd) ==
    pending' = Append(pending, [id |-> id, req |-> r, round |-> rnd,
                                retries |-> 0, age |-> 0])
Transmit(r, id, rnd) ==
    /\ wire' = wire \union {[id |-> id, req |-> r, round |-> rnd]}
    /\ sends' = [sends EXCEPT ![r] = 1]

NeverInUse(r) == FALSE
IdInUse(r) == ident[r] \in PendingIds

\* ClientAsync.send_packet; for an AuthPacket, _send_auth_packet up to the
\* end of its first _send_round.
Send(r) ==
    /\ status[r] = "created"
    /\ open
    /\ ~IdInUse(r)
    /\ Enqueue(r, ident[r], round[r])
    /\ Transmit(r, ident[r], round[r])
    /\ status' = [status EXCEPT ![r] = "sent"]
    /\ inner' = [inner EXCEPT ![r] = "waiting"]
    /\ outer' = IF r \in Auth THEN [outer EXCEPT ![r] = "waiting"] ELSE outer
    /\ UNCHANGED <<packetId, ident, round, callbacks, open, sweeper, nap, got>>

\* IdentifierExhausted, or "Transport not initialized", reaches the caller.
SendRefused(r) ==
    /\ status[r] = "created"
    /\ ~Attached \/ IdInUse(r)
    /\ status' = [status EXCEPT ![r] = "refused"]
    /\ UNCHANGED <<packetId, pending, ident, round, inner, outer, callbacks, open,
                   sweeper, nap, wire, sends, got>>

\* sendto fails on a transport that is None, after the request is registered;
\* the caller gets the exception and no future.
SendFails(r) ==
    /\ status[r] = "created"
    /\ Attached /\ ~open
    /\ ~IdInUse(r)
    /\ Enqueue(r, ident[r], round[r])
    /\ status' = [status EXCEPT ![r] = "refused"]
    /\ UNCHANGED <<packetId, ident, round, inner, outer, callbacks, open,
                   sweeper, nap, wire, sends, got>>

-----------------------------------------------------------------------------
(* Replies: datagram_received and _on_reply. *)

\* verify_reply: the reply's Response Authenticator was computed from the
\* Request Authenticator of the request it answers.  That is random for an
\* Access-Request; for the other codes it is an MD5 of the body, and the bodies
\* of two requests with one Identifier are taken to differ.
VerifyReplyById(p, m) == p.id = m.id
VerifyReply(p, m) == p.id = m.id /\ p.req = m.req /\ p.round = m.round

\* datagram_received with the answer to m.  A reply that matches no pending
\* request, does not verify, or finds the future already done (set_result
\* raises InvalidStateError, which is logged) changes nothing.
Receive(m, kind) ==
    \E i \in DOMAIN pending :
        LET p == pending[i] IN
        /\ open
        /\ VerifyReply(p, m)
        /\ inner[p.req] = "waiting"
        /\ inner' = [inner EXCEPT ![p.req] = kind]
        /\ pending' = RemoveAt(pending, i)
        /\ callbacks' = IF p.req \in Auth THEN callbacks \union {p.req} ELSE callbacks
        /\ got' = [got EXCEPT ![p.req] = m]
        /\ UNCHANGED <<packetId, ident, round, status, outer, open, sweeper, nap,
                       wire, sends>>

OnReplyEndsAnsweredOnly(r) ==
    /\ r \in callbacks
    /\ callbacks' = callbacks \ {r}
    /\ outer[r] # "waiting" \/ inner[r] # "challenged"
    /\ outer' = IF outer[r] = "waiting" /\ inner[r] = "answered"
                THEN [outer EXCEPT ![r] = "answered"] ELSE outer
    /\ UNCHANGED <<packetId, pending, ident, round, status, inner, open, sweeper,
                   nap, wire, sends, got>>

\* _on_reply when it ends the exchange: outer gets what the round produced.
OnReplyEnds(r) ==
    /\ r \in callbacks
    /\ callbacks' = callbacks \ {r}
    /\ outer[r] # "waiting" \/ inner[r] # "challenged"
    /\ outer' = IF outer[r] = "waiting" THEN [outer EXCEPT ![r] = inner[r]] ELSE outer
    /\ UNCHANGED <<packetId, pending, ident, round, status, inner, open, sweeper,
                   nap, wire, sends, got>>

\* method.respond raises: outer gets the exception.
OnReplyFails(r) ==
    /\ r \in callbacks
    /\ outer[r] = "waiting" /\ inner[r] = "challenged"
    /\ callbacks' = callbacks \ {r}
    /\ outer' = [outer EXCEPT ![r] = "error"]
    /\ UNCHANGED <<packetId, pending, ident, round, status, inner, open, sweeper,
                   nap, wire, sends, got>>

\* method.respond succeeds: fresh id and authenticator, and another round.
\* On a closed transport send_packet has already registered the request when
\* sendto fails on None, and the exception is lost in the event loop.
OnReplyNextRound(r) ==
    /\ r \in callbacks
    /\ outer[r] = "waiting" /\ inner[r] = "challenged"
    /\ FreeIds # {}
    /\ callbacks' = callbacks \ {r}
    /\ packetId' = NextId
    /\ ident' = [ident EXCEPT ![r] = NextId]
    /\ round' = [round EXCEPT ![r] = @ + 1]
    /\ inner' = [inner EXCEPT ![r] = "waiting"]
    /\ Enqueue(r, NextId, round[r] + 1)
    /\ IF open THEN Transmit(r, NextId, round[r] + 1) ELSE UNCHANGED <<wire, sends>>
    /\ UNCHANGED <<status, outer, open, sweeper, nap, got>>

\* create_id raises IdentifierExhausted inside the callback: nobody sees it.
OnReplyExhausted(r) ==
    /\ r \in callbacks
    /\ outer[r] = "waiting" /\ inner[r] = "challenged"
    /\ FreeIds = {}
    /\ callbacks' = callbacks \ {r}
    /\ packetId' = packetId
    /\ UNCHANGED <<pending, ident, round, status, inner, outer, open, sweeper,
                   nap, wire, sends, got>>

\* The caller cancels the future it holds (asyncio.wait_for does, on timeout).
Cancel(r) ==
    /\ r \in Cancellable
    /\ CallerFuture(r) = "waiting"
    /\ IF r \in Auth
       THEN outer' = [outer EXCEPT ![r] = "cancelled"] /\ UNCHANGED inner
       ELSE inner' = [inner EXCEPT ![r] = "cancelled"] /\ UNCHANGED outer
    /\ UNCHANGED <<packetId, pending, ident, round, status, callbacks, open,
                   sweeper, nap, wire, sends, got>>

-----------------------------------------------------------------------------
(* The timeout task. *)

OneTooMany(p) == p.retries > Retries
OneTooFew(p) == p.retries + 1 >= Retries
Exhausted(p) == p.retries >= Retries

\* The waits that one pass of the loop draws, one per pending request.
Draws == {w \in [DOMAIN pending -> 0..MaxAge] :
             \A i \in DOMAIN pending : w[i] \in WaitFor(pending[i].retries)}

Due(wait) == {i \in DOMAIN pending : pending[i].age >= wait[i]}
GiveUp(wait) == {i \in Due(wait) : Exhausted(pending[i])}

\* set_exception on a future that is done raises InvalidStateError, which
\* ends the pass there and, because only CancelledError is caught, the task.
Breaks(wait) == {i \in GiveUp(wait) : inner[pending[i].req] # "waiting"}

ResendEffect(p) == [p EXCEPT !.retries = @ + 1, !.age = 0]
Visited(wait) == IF Breaks(wait) = {} THEN DOMAIN pending ELSE 1..(Min(Breaks(wait)) - 1)
TimedOut(wait) == GiveUp(wait) \intersect Visited(wait)
Resent(wait) == (Due(wait) \ GiveUp(wait)) \intersect Visited(wait)
ReqsOf(I) == {pending[i].req : i \in I}

AfterPass(wait) ==
    [i \in DOMAIN pending |->
        IF i \in Resent(wait) THEN ResendEffect(pending[i]) ELSE pending[i]]

\* next_wake_up: the base timeout, or the shortest rest of a wait not yet over.
NextWakeUpLazy(wait) == Timeout
NextWakeUp(wait) ==
    Min({Timeout} \union {wait[i] - pending[i].age : i \in DOMAIN pending \ Due(wait)})

\* Keep the entries of s whose index is not in I.
Survivors(s, I) ==
    LET kept == DOMAIN s \ I
        nth(n) == CHOOSE i \in kept : Cardinality({j \in kept : j <= i}) = n
    IN  [n \in 1..Cardinality(kept) |-> s[nth(n)]]

Sweep ==
    /\ sweeper = "asleep"
    /\ nap = 0
    /\ \E wait \in Draws :
        LET out == ReqsOf(TimedOut(wait))
            again == ReqsOf(Resent(wait))
        IN  /\ inner' = [r \in Req |-> IF r \in out THEN "timeout" ELSE inner[r]]
            /\ callbacks' = callbacks \union (out \intersect Auth)
            /\ sends' = [r \in Req |-> IF r \in again THEN sends[r] + 1 ELSE sends[r]]
            /\ IF Breaks(wait) = {}
               THEN /\ pending' = Survivors(AfterPass(wait), TimedOut(wait))
                    /\ nap' = NextWakeUp(wait)
                    /\ UNCHANGED sweeper
               ELSE /\ pending' = AfterPass(wait)
                    /\ sweeper' = "dead"
                    /\ UNCHANGED nap
    /\ UNCHANGED <<packetId, ident, round, status, outer, open, wire, got>>

Older(p) == [p EXCEPT !.age = Min({@ + 1, MaxAge})]
Tick ==
    /\ nap' = Max({0, nap - 1})
    /\ pending' = [i \in DOMAIN pending |-> Older(pending[i])]
    /\ UNCHANGED <<packetId, ident, round, status, inner, outer, callbacks, open,
                   sweeper, wire, sends, got>>

\* close_transport: the task is cancelled, the pending futures are left alone.
Close ==
    /\ AllowClose
    /\ open
    /\ open' = FALSE
    /\ sweeper' = IF sweeper = "asleep" THEN "cancelled" ELSE sweeper
    /\ UNCHANGED <<packetId, pending, ident, round, status, inner, outer,
                   callbacks, nap, wire, sends, got>>

-----------------------------------------------------------------------------
OnReply(r) ==
    OnReplyEnds(r) \/ OnReplyFails(r) \/ OnReplyNextRound(r) \/ OnReplyExhausted(r)

Next ==
    \/ \E r \in Req : Create(r) \/ CreateRefused(r)
    \/ \E r \in Req : Send(r) \/ SendRefused(r) \/ SendFails(r)
    \/ \E m \in wire : Receive(m, "answered")
    \/ \E m \in wire : /\ m.req \in Auth
                       /\ m.round < MaxRounds
                       /\ Receive(m, "challenged")
    \/ \E r \in Auth : OnReply(r)
    \/ \E r \in Cancellable : Cancel(r)
    \/ Sweep
    \/ Tick
    \/ Close

Spec == Init /\ [][Next]_vars

\* Time passes, the event loop runs due timers and scheduled callbacks.  The
\* network and the application owe nothing.
Fairness ==
    /\ WF_vars(Tick)
    /\ WF_vars(Sweep)
    /\ \A r \in Auth : WF_vars(OnReply(r))

FairSpec == Spec /\ Fairness

-----------------------------------------------------------------------------
(* Properties. *)

\* No two pending requests share an Identifier, although create_id reserves
\* nothing: a reply can only ever be matched with one request.
PendingIdsDistinct ==
    \A i, j \in DOMAIN pending : i # j => pending[i].id # pending[j].id

\* A future is resolved only by the reply to its own request and to its
\* current round, also when the Identifier was reused for another request or
\* another round and an old reply arrives late.
ResolvedByOwnReply ==
    \A r \in Req : inner[r] \in {"answered", "challenged"} =>
        got[r].req = r /\ got[r].round = round[r]

\* TimeoutError is raised after exactly 1 + retries transmissions, and no
\* request is transmitted more often.
TimeoutAfterAllRetries ==
    \A r \in Req : inner[r] = "timeout" => sends[r] = Retries + 1

\* __timeout_handler__: "the loop wakes exactly when the next request needs
\* servicing".  The task never sleeps past the longest wait, jitter included,
\* of a pending request, nor of one that was sent while it was asleep.
WakesInTime ==
    sweeper = "asleep" =>
        \A i \in DOMAIN pending :
            nap <= Max({0, Max(WaitFor(pending[i].retries)) - pending[i].age})

\* Every future that send_packet returned is resolved: with the final reply,
\* with TimeoutError, or with the exception of the EAP method.
EveryFutureResolves ==
    \A r \in Req : CallerFuture(r) = "waiting" ~> CallerFuture(r) # "waiting"

\* An EAP conversation whose next round could not get an Identifier.
Stranded(r) ==
    r \in Auth /\ outer[r] = "waiting" /\ inner[r] = "challenged" /\ r \notin callbacks

\* What __timeout_handler__ and _on_reply do achieve of it: a future stays
\* unresolved only if the timeout task has ended (close_transport, or the
\* future of another request was cancelled) or its EAP round was stranded.
ResolvesWhileSwept ==
    \A r \in Req : CallerFuture(r) = "waiting" ~>
        CallerFuture(r) # "waiting" \/ sweeper # "asleep" \/ Stranded(r)

=============================================================================
