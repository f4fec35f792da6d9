------------------------------ MODULE Exchange ------------------------------
(***************************************************************************)
(* A request from a pyrad2 client to a pyrad2 server, end to end: the      *)
(* retransmitting client (Client of client.py or ClientAsync of            *)
(* client_async.py), a network that loses, duplicates, reorders and        *)
(* delays, and a server that detects duplicates with the ResponseCache.    *)
(*                                                                         *)
(* What matters here is the correlator of a transmission: Identifier and   *)
(* Request Authenticator.  It is the server's duplicate-detection key and  *)
(* what the client verifies a reply against.  The authenticator of an      *)
(* Accounting-Request is the MD5 of its body; that of an Access-Request is *)
(* random, and kept or renewed between EAP rounds by the client.           *)
(*                                                                         *)
(* The server is one dispatch loop whose handler replies before it         *)
(* returns (DedupServer shows what else can happen).                       *)
(***************************************************************************)
EXTENDS RetryPolicy, ResponseCache

CONSTANTS
    Scenarios,    \* pairs of a client, "sync" or "async", and what it sends:
                  \* an Accounting-Request "acct" or an EAP conversation "eap"
    Delays,       \* what the application may put into Acct-Delay-Time: a list
                  \* of values, or Absent
    Absent,
    MaxSends,     \* bound: how often it sends one Accounting-Request
    MaxDelay,     \* longest time a copy of a datagram stays in the network
    MaxRounds     \* number of Access-Challenges the server sends

ASSUME ExchangeAssumption ==
    /\ Scenarios \subseteq {"sync", "async"} \X {"acct", "eap"}
    /\ \A d \in Delays : d # Absent => d \in Seq(Nat) /\ d # <<>>
    /\ MaxSends \in Nat
    /\ MaxDelay \in Nat
    /\ MaxRounds \in Nat
    /\ JitterPct = 0

VARIABLES
    client,       \* Client ("sync") or ClientAsync ("async")
    kind,         \* the packet the application sends
    phase,        \* "idle", "waiting", "done" or "failed"
    round,        \* EAP round: how often method.respond has run
    attempt,      \* retransmissions of this round so far
    delay,        \* the packet's Acct-Delay-Time: its values, or Absent
    saved,        \* original_acct_delay; Absent when had_acct_delay is false
    original,     \* history: what the application put into Acct-Delay-Time
    sends,        \* history: calls of send_packet with this packet so far
    deadline,     \* when the current wait is over
    net,          \* copies of requests under way
    replies,      \* replies on their way to the client, or in its buffer
    handled,      \* history: handler runs per round
    accepted      \* history: the replies the client took, with its round

clientVars == <<client, kind, phase, round, attempt, delay, saved, original, sends, deadline>>
vars == <<inFlight, cached, now, client, kind, phase, round, attempt, delay, saved, original,
          sends, deadline, net, replies, handled, accepted>>

Rounds == 0..(MaxRounds + 1)

\* Transmissions of one round: range(retries) in Client, the first send and
\* then up to retries more in DatagramProtocolClient.
Transmissions == IF client = "sync" THEN Retries ELSE Retries + 1

\* The correlator of what is sent when the packet is in round rnd with
\* Acct-Delay-Time d: an Identifier, and what the authenticator depends on.
\* Client keeps id and authenticator over all EAP rounds; ClientAsync renews
\* both.
SharedCorrelator(rnd, d) == <<0, Absent>>
Correlator(rnd, d) ==
    IF kind = "acct" THEN <<0, d>>
    ELSE IF client = "sync" THEN <<0, Absent>>
    ELSE <<rnd, Absent>>

\* Client changes an Accounting-Request between its transmissions.
BumpsDelay == client = "sync" /\ kind = "acct"

DelayLists == {Absent} \union (Seq(Nat) \ {<<>>})

Mine == Correlator(round, delay)

TypeOK ==
    /\ CacheTypeOK
    /\ <<client, kind>> \in Scenarios
    /\ phase \in {"idle", "waiting", "done", "failed"}
    /\ round \in Rounds
    /\ attempt \in 0..(Retries + 1)
    /\ delay \in DelayLists /\ saved \in DelayLists
    /\ original \in Delays
    /\ sends \in Nat
    /\ deadline \in Nat
    /\ net \subseteq [key: Key, round: Rounds, until: Nat]
    /\ replies \subseteq Raw
    /\ handled \in [Rounds -> Nat]
    /\ accepted \subseteq [mine: Rounds, answers: Rounds]

Init ==
    /\ CacheInit
    /\ \E s \in Scenarios : client = s[1] /\ kind = s[2]
    /\ phase = "idle"
    /\ round = 0
    /\ attempt = 0
    /\ delay \in Delays /\ (kind = "eap" => delay = Absent)
    /\ original = delay
    /\ saved = Absent
    /\ sends = 0
    /\ deadline = 0
    /\ net = {}
    /\ replies = {}
    /\ handled = [n \in Rounds |-> 0]
    /\ accepted = {}

-----------------------------------------------------------------------------
(* The client. *)

Transmit(rnd, d, att) ==
    /\ net' = net \union {[key |-> Correlator(rnd, d), round |-> rnd,
                           until |-> now + MaxDelay]}
    /\ deadline' = now + BaseWait(att)

\* send_packet up to the first transmission, with the snapshot of the caller's
\* Acct-Delay-Time.  With no transmission left to make, the loop of
\* Client._send_packet is never entered; its sendto may raise OSError.
Start ==
    /\ phase = "idle"
    /\ saved' = IF BumpsDelay THEN delay ELSE Absent
    /\ sends' = sends + 1
    /\ \/ Transmissions > 0 /\ phase' = "waiting" /\ Transmit(round, delay, 0)
       \/ /\ Transmissions = 0 \/ client = "sync"
          /\ phase' = "failed" /\ UNCHANGED <<net, deadline>>
    /\ UNCHANGED <<cacheVars, client, kind, round, attempt, delay, original, replies,
                   handled, accepted>>

\* Client adds the wait that just ended to the first value of Acct-Delay-Time,
\* which becomes the only one; ClientAsync sends the same packet again.
AlwaysBump(d, att) == <<(IF d = Absent THEN 0 ELSE d[1]) + BaseWait(att)>>
Bump(d, att) ==
    IF ~BumpsDelay THEN d
    ELSE <<(IF d = Absent THEN 0 ELSE d[1]) + BaseWait(att)>>

\* The finally clause of Client._send_packet, on a packet with Acct-Delay-Time
\* d: the snapshot is put back, or what the retries added is deleted.
NotDeleted(d) == IF BumpsDelay /\ saved # Absent THEN saved ELSE d
Restored(d) ==
    IF ~BumpsDelay THEN d
    ELSE IF saved # Absent THEN saved
    ELSE IF d # Absent THEN Absent
    ELSE d

\* The wait is over and no reply verified: transmit again.
Retransmit ==
    /\ phase = "waiting"
    /\ now >= deadline
    /\ attempt + 1 < Transmissions
    /\ attempt' = attempt + 1
    /\ delay' = Bump(delay, attempt)
    /\ Transmit(round, delay', attempt + 1)
    /\ UNCHANGED <<cacheVars, client, kind, phase, round, saved, original, sends, replies,
                   handled, accepted>>

\* sendto raises OSError on the bumped packet.
RetransmitRaises ==
    /\ phase = "waiting" /\ client = "sync"
    /\ now >= deadline
    /\ attempt + 1 < Transmissions
    /\ phase' = "failed"
    /\ delay' = Restored(Bump(delay, attempt))
    /\ UNCHANGED <<cacheVars, client, kind, round, attempt, saved, original, sends, deadline,
                   net, replies, handled, accepted>>

GiveUpOffByOne ==
    /\ phase = "waiting"
    /\ now >= deadline
    /\ attempt + 1 > Transmissions
    /\ phase' = "failed"
    /\ delay' = Restored(delay)
    /\ UNCHANGED <<cacheVars, client, kind, round, attempt, saved, original, sends, deadline,
                   net, replies, handled, accepted>>
GiveUp ==
    /\ phase = "waiting"
    /\ now >= deadline
    /\ attempt + 1 >= Transmissions
    /\ phase' = "failed"
    /\ delay' = Restored(delay)
    /\ UNCHANGED <<cacheVars, client, kind, round, attempt, saved, original, sends, deadline,
                   net, replies, handled, accepted>>

\* The application sends the same Accounting-Request object once more, while
\* the bounded clock has room for the call.
SendAgain ==
    /\ phase \in {"done", "failed"} /\ BumpsDelay
    /\ sends < MaxSends /\ now + Retries * MaxWait <= MaxNow
    /\ phase' = "idle" /\ attempt' = 0
    /\ UNCHANGED <<cacheVars, client, kind, round, delay, saved, original, sends, deadline,
                   net, replies, handled, accepted>>

\* verify_reply: the Response Authenticator covers the correlator.
Verifies(rep) == rep.key = Mine

\* The server answers every round but the last with an Access-Challenge.
IsChallenge(rep) == kind = "eap" /\ rep.round < MaxRounds

AcceptFinal(rep) ==
    /\ phase = "waiting"
    /\ Verifies(rep)
    /\ ~IsChallenge(rep)
    /\ phase' = "done"
    /\ delay' = Restored(delay)
    /\ accepted' = accepted \union {[mine |-> round, answers |-> rep.round]}
    /\ UNCHANGED <<cacheVars, client, kind, round, attempt, saved, original, sends, deadline,
                   net, replies, handled>>

\* method.respond builds the next request, which is sent as a new round.
AcceptChallenge(rep) ==
    /\ phase = "waiting"
    /\ Verifies(rep)
    /\ IsChallenge(rep)
    /\ round <= MaxRounds
    /\ round' = round + 1
    /\ attempt' = 0
    /\ Transmit(round + 1, delay, 0)
    /\ accepted' = accepted \union {[mine |-> round, answers |-> rep.round]}
    /\ UNCHANGED <<cacheVars, client, kind, phase, delay, saved, original, sends, replies,
                   handled>>

-----------------------------------------------------------------------------
(* The server: _dedup_dispatch with a handler that replies. *)

\* lookup() found a live reply: it is sent again.
ServeDuplicate(m) ==
    /\ m \in net
    /\ now <= m.until
    /\ Hit(m.key)
    /\ LookupEffect(m.key)
    /\ replies' = replies \union {LookupResult(m.key)}
    /\ UNCHANGED <<clientVars, net, handled, accepted>>

\* The handler runs and its reply is sent and recorded.
ServeFresh(m) ==
    /\ m \in net
    /\ now <= m.until
    /\ ~Hit(m.key)
    /\ LET rep == [key |-> m.key, round |-> m.round] IN
         /\ RecordReply(m.key, rep, now + TTL)
         /\ replies' = replies \union {rep}
    /\ handled' = [handled EXCEPT ![m.round] = @ + 1]
    /\ UNCHANGED <<clientVars, net, accepted>>

-----------------------------------------------------------------------------
\* A lost datagram is one that is never delivered.  The client is prompt: it
\* does not let time pass beyond the end of its wait.  Time starts with it.
Elapse ==
    /\ phase # "idle"
    /\ ~(phase = "waiting" /\ now >= deadline)
    /\ Tick
    /\ UNCHANGED <<clientVars, net, replies, handled, accepted>>

Next ==
    \/ Start \/ Retransmit \/ RetransmitRaises \/ GiveUp \/ SendAgain
    \/ \E rep \in replies : AcceptFinal(rep) \/ AcceptChallenge(rep)
    \/ \E m \in net : ServeDuplicate(m) \/ ServeFresh(m)
    \/ Elapse

Spec == Init /\ [][Next]_vars

\* The clock runs and the client's loop runs; the network owes nothing.
FairSpec ==
    /\ Spec
    /\ WF_vars(Start \/ Retransmit \/ GiveUp)
    /\ WF_vars(Elapse)

-----------------------------------------------------------------------------
(* Properties. *)

\* "accounting (no double-counts)", "Your handler runs exactly once": however
\* often the request is retransmitted, duplicated and delayed, the handler
\* runs at most once for it, if a reply outlives all copies of its request and
\* the client does not change the request between transmissions, as Client
\* does with Acct-Delay-Time.
HandledOnce ==
    client = "async" \/ kind = "eap" => \A n \in Rounds : handled[n] <= 1

\* A reply the client accepts answers what the client sent in this round, not
\* an earlier message of the conversation: "continuing until the server
\* returns Access-Accept / Access-Reject".
AnswersThisRound == \A a \in accepted : a.mine = a.answers

\* "so the increment doesn't accumulate into the caller's packet across
\* successive send_packet invocations on the same object": between the calls
\* Acct-Delay-Time is what the application put there - every value of it, or
\* nothing - whether they ended by a reply, a timeout or an exception, and in
\* whichever retry.
CallerPacketRestored == phase # "waiting" => delay = original

\* Every call of send_packet ends, with a reply, a timeout or an exception.
SendReturns == phase \in {"idle", "waiting"} ~> phase \in {"done", "failed"}

=============================================================================
