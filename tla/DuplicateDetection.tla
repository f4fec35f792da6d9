------------------------- MODULE DuplicateDetection -------------------------
(***************************************************************************)
(* What RFC 5080 duplicate detection promises, without threads, ordering   *)
(* or dispatch steps: a request is executed only while no live answer to   *)
(* it is held, every other copy of it gets that answer again, and an       *)
(* answer is forgotten only when it has expired or when more than          *)
(* MaxEntries answers are held.                                            *)
(***************************************************************************)
EXTENDS Integers, FiniteSets

CONSTANTS Key, Raw, TTL, MaxEntries, NONE

VARIABLES
    answer,   \* answer[k]: the reply held for k with its expiry, or NONE
    now,
    wire      \* every <<key, reply>> sent so far

vars == <<answer, now, wire>>

Held == {k \in Key : answer[k] # NONE}
LiveAnswer(k) == answer[k] # NONE /\ now < answer[k].exp

Init ==
    /\ answer = [k \in Key |-> NONE]
    /\ now = 0
    /\ wire = {}

\* A request is executed and answered.
Execute(k, r) ==
    /\ ~LiveAnswer(k)
    /\ \A m \in wire : m[2] # r
    /\ answer' = [answer EXCEPT ![k] = [raw |-> r, exp |-> now + TTL]]
    /\ wire' = wire \union {<<k, r>>}
    /\ now' = now

\* A request without a duplicate-detection key is executed and answered.
ExecuteUnkeyed(r) ==
    /\ \A m \in wire : m[2] # r
    /\ wire' = wire \union {<<NONE, r>>}
    /\ UNCHANGED <<answer, now>>

\* A copy of an answered request is answered again.
Replay(k) ==
    /\ LiveAnswer(k)
    /\ wire' = wire \union {<<k, answer[k].raw>>}
    /\ UNCHANGED <<answer, now>>

Forget(S) ==
    /\ Cardinality({k \in S : LiveAnswer(k)}) <=
           IF Cardinality(Held) > MaxEntries THEN Cardinality(Held) - MaxEntries ELSE 0
    /\ answer' = [k \in Key |-> IF k \in S THEN NONE ELSE answer[k]]
    /\ UNCHANGED <<now, wire>>

Tick ==
    /\ now' = now + 1
    /\ UNCHANGED <<answer, wire>>

Next ==
    \/ \E k \in Key, r \in Raw : Execute(k, r)
    \/ \E r \in Raw : ExecuteUnkeyed(r)
    \/ \E k \in Key : Replay(k)
    \/ \E S \in SUBSET Held : Forget(S)
    \/ Tick

Spec == Init /\ [][Next]_vars

=============================================================================
