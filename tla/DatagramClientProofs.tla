----------------------- MODULE DatagramClientProofs -----------------------
(***************************************************************************)
(* Theorems about the UDP transport of ClientAsync: for every number of    *)
(* requests, Identifiers, retries and EAP rounds, and for every network.   *)
(***************************************************************************)
EXTENDS DatagramClient, SequenceLemmas

Entry == [id: Ids, req: Req, round: 0..MaxRounds, retries: 0..Retries, age: 0..MaxAge]

\* A request has at most one entry in pending_requests.
PendingReqsDistinct ==
    \A i, j \in DOMAIN pending : i # j => pending[i].req # pending[j].req

\* An entry belongs to the current round of a request that was sent and whose
\* future has no reply; as long as the timeout task runs it has not timed out
\* either, and each transmission of the round was counted.
IsCurrent(p) ==
    /\ p.round = round[p.req]
    /\ status[p.req] \in {"sent", "refused"}
    /\ inner[p.req] \notin {"answered", "challenged"}
    /\ sweeper = "asleep" => inner[p.req] # "timeout" /\ sends[p.req] = p.retries + 1
Current == {p \in Entry : IsCurrent(p)}
PendingCurrent == \A i \in DOMAIN pending : pending[i] \in Current

\* Only a request that was sent has a future, and a challenge is accepted only
\* in a round that has a next one.
FuturesOfSent ==
    \A r \in Req :
        /\ inner[r] # "none" => status[r] = "sent"
        /\ inner[r] = "challenged" => round[r] < MaxRounds

\* close_transport ends the timeout task.
SweptWhileOpen == sweeper = "asleep" => open

Inv ==
    /\ TypeOK
    /\ PendingIdsDistinct
    /\ PendingReqsDistinct
    /\ PendingCurrent
    /\ FuturesOfSent
    /\ SweptWhileOpen
    /\ ResolvedByOwnReply
    /\ TimeoutAfterAllRetries

-----------------------------------------------------------------------------
(* Lemmas. *)

LEMMA ConstantFacts ==
    /\ Retries \in Nat /\ Timeout \in Nat /\ Timeout > 0 /\ MaxRounds \in Nat
    /\ NumIds \in Nat /\ MaxWait \in Nat /\ MaxAge \in Nat
  <1>1. /\ Retries \in Nat /\ Timeout \in Nat /\ Timeout > 0 /\ MaxRounds \in Nat
        /\ NumIds \in Nat /\ MaxWait \in Nat /\ JitterPct \in Nat
    BY PolicyAssumption, ClientAssumption
  <1>2. MaxWait * JitterPct \in Nat
    BY <1>1
  <1>3. (MaxWait * JitterPct) \div 100 \in Nat
    BY <1>2
  <1> QED
    BY <1>1, <1>3 DEF MaxAge

LEMMA PendingType ==
    ASSUME TypeOK
    PROVE  /\ pending \in Seq(Entry) /\ Len(pending) \in Nat
           /\ DOMAIN pending = 1..Len(pending)
           /\ \A i \in DOMAIN pending : pending[i] \in Entry
  <1>1. pending \in Seq(Entry)
    BY DEF TypeOK, Entry
  <1> QED
    BY <1>1, LenProperties, ElementOfSeq

\* create_id returns an Identifier that no pending request has.
LEMMA NextIdIsFree ==
    ASSUME TypeOK, FreeIds # {}
    PROVE  NextId \in FreeIds /\ NextId \in Ids /\ NextId \notin PendingIds
  <1> DEFINE D == {Distance(i) : i \in FreeIds}
  <1>1. \A i \in FreeIds : Distance(i) \in Nat
    BY ConstantFacts DEF FreeIds, Distance, TypeOK, Ids
  <1>2. D \subseteq Nat /\ D # {}
    BY <1>1
  <1>3. Min(D) \in D /\ \A y \in D : Min(D) <= y
    BY <1>2, MinOfNaturals
  <1>4. \E i \in FreeIds : \A j \in FreeIds : Distance(i) <= Distance(j)
    BY <1>3
  <1>5. NextId \in FreeIds
    BY <1>4, Zenon DEF NextId
  <1> QED
    BY <1>5 DEF FreeIds

\* What Enqueue adds to the pending requests.
LEMMA EnqueueFacts ==
    ASSUME TypeOK, NEW r \in Req, NEW id \in Ids, NEW rnd \in 0..MaxRounds,
           Enqueue(r, id, rnd)
    PROVE  /\ pending' \in Seq(Entry)
           /\ DOMAIN pending' = DOMAIN pending \union {Len(pending) + 1}
           /\ Len(pending) + 1 \notin DOMAIN pending
           /\ \A i \in DOMAIN pending : pending'[i] = pending[i]
           /\ pending'[Len(pending) + 1] =
                 [id |-> id, req |-> r, round |-> rnd, retries |-> 0, age |-> 0]
  <1> DEFINE e == [id |-> id, req |-> r, round |-> rnd, retries |-> 0, age |-> 0]
  <1>1. e \in Entry
    BY ConstantFacts DEF Entry
  <1>2. pending' = Append(pending, e)
    BY DEF Enqueue
  <1> HIDE DEF e
  <1>3. /\ pending' \in Seq(Entry) /\ Len(pending') = Len(pending) + 1
        /\ \A i \in 1..Len(pending) : pending'[i] = pending[i]
        /\ pending'[Len(pending) + 1] = e
    BY <1>1, <1>2, PendingType, AppendProperties
  <1>4. DOMAIN pending' = 1..(Len(pending) + 1)
    BY <1>3, LenProperties
  <1> QED
    BY <1>3, <1>4, PendingType DEF e

\* A request without an entry and an Identifier that is not in use keep the
\* entries distinct.
LEMMA EnqueueDistinct ==
    ASSUME Inv, NEW r \in Req, NEW id \in Ids, NEW rnd \in 0..MaxRounds,
           Enqueue(r, id, rnd), id \notin PendingIds,
           \A i \in DOMAIN pending : pending[i].req # r
    PROVE  PendingIdsDistinct' /\ PendingReqsDistinct'
  <1>1. TypeOK
    BY DEF Inv
  <1>2. \A i \in DOMAIN pending : pending[i].id # id
    BY DEF PendingIds
  <1> DEFINE n == Len(pending) + 1
             e == [id |-> id, req |-> r, round |-> rnd, retries |-> 0, age |-> 0]
  <1>3. /\ DOMAIN pending' = DOMAIN pending \union {n}
        /\ \A i \in DOMAIN pending : pending'[i] = pending[i]
        /\ pending'[n] = e
    BY <1>1, EnqueueFacts
  <1>4. e.id = id /\ e.req = r
    OBVIOUS
  <1> HIDE DEF n, e
  <1>5. PendingIdsDistinct'
    BY <1>2, <1>3, <1>4 DEF Inv, PendingIdsDistinct
  <1>6. PendingReqsDistinct'
    BY <1>3, <1>4 DEF Inv, PendingReqsDistinct
  <1> QED
    BY <1>5, <1>6

\* If the new entry is current and the old ones still are, all are.
LEMMA EnqueuedCurrent ==
    ASSUME Inv, NEW r \in Req, NEW id \in Ids, NEW rnd \in 0..MaxRounds,
           Enqueue(r, id, rnd),
           \A p \in Current : p \in Current',
           [id |-> id, req |-> r, round |-> rnd, retries |-> 0, age |-> 0] \in Current'
    PROVE  PendingCurrent'
  <1> DEFINE n == Len(pending) + 1
             e == [id |-> id, req |-> r, round |-> rnd, retries |-> 0, age |-> 0]
  <1>1. /\ DOMAIN pending' = DOMAIN pending \union {n}
        /\ \A i \in DOMAIN pending : pending'[i] = pending[i]
        /\ pending'[n] = e
    BY EnqueueFacts DEF Inv
  <1>2. \A i \in DOMAIN pending : pending[i] \in Current
    BY DEF Inv, PendingCurrent
  <1> HIDE DEF n, e
  <1>3. e \in Current'
    BY DEF e
  <1> QED
    BY <1>1, <1>2, <1>3 DEF PendingCurrent

\* Entries that are kept, perhaps with other retries and age, stay distinct.
LEMMA KeptDistinct ==
    ASSUME Inv, NEW f,
           \A i \in DOMAIN pending' :
               /\ f[i] \in DOMAIN pending
               /\ pending'[i].id = pending[f[i]].id
               /\ pending'[i].req = pending[f[i]].req,
           \A i, j \in DOMAIN pending' : i # j => f[i] # f[j]
    PROVE  PendingIdsDistinct' /\ PendingReqsDistinct'
  BY DEF Inv, PendingIdsDistinct, PendingReqsDistinct

\* The entries are entries of requests.
LEMMA CurrentFacts ==
    ASSUME Inv
    PROVE  \A i \in DOMAIN pending : pending[i] \in Current /\ pending[i] \in Entry
                                     /\ pending[i].req \in Req
  <1>1. \A p \in Current : p \in Entry /\ p.req \in Req
    BY DEF Current, Entry
  <1> QED
    BY <1>1 DEF Inv, PendingCurrent

LEMMA InvInit == Init => Inv
  <1> SUFFICES ASSUME Init PROVE Inv
    OBVIOUS
  <1>1. TypeOK
    BY ConstantFacts DEF Init, TypeOK, Futures, Ids
  <1>2. DOMAIN pending = {}
    BY DEF Init
  <1>3. PendingIdsDistinct /\ PendingReqsDistinct /\ PendingCurrent
    BY <1>2 DEF PendingIdsDistinct, PendingReqsDistinct, PendingCurrent
  <1>4. FuturesOfSent /\ SweptWhileOpen /\ ResolvedByOwnReply /\ TimeoutAfterAllRetries
    BY DEF Init, FuturesOfSent, SweptWhileOpen, ResolvedByOwnReply, TimeoutAfterAllRetries
  <1> QED
    BY <1>1, <1>3, <1>4 DEF Inv

\* A packet is created, or its creation or sending is refused.
LEMMA StatusStep ==
    ASSUME Inv, NEW r \in Req, Create(r) \/ CreateRefused(r) \/ SendRefused(r)
    PROVE  Inv'
  <1>1. PICK x \in {"created", "refused"} : status' = [status EXCEPT ![r] = x]
    BY DEF Create, CreateRefused, SendRefused
  <1>2. UNCHANGED <<pending, round, inner, outer, callbacks, open, sweeper, nap, wire, sends, got>>
    BY DEF Create, CreateRefused, SendRefused
  <1>3. status[r] \in {"new", "created"}
    BY DEF Create, CreateRefused, SendRefused
  <1>4. TypeOK'
    <2>1. packetId' \in Ids /\ ident' \in [Req -> Ids]
      BY NextIdIsFree, ZenonT(30) DEF Create, CreateRefused, SendRefused, Inv, TypeOK
    <2> QED
      BY <1>1, <1>2, <2>1 DEF Inv, TypeOK
  <1>5. inner[r] = "none"
    BY <1>3 DEF Inv, FuturesOfSent
  <1>6. PendingCurrent'
    <2> SUFFICES ASSUME NEW p \in Current PROVE p \in Current'
      BY <1>2 DEF Inv, PendingCurrent
    <2>1. p \in Entry /\ IsCurrent(p) /\ p.req \in Req
      BY DEF Current, Entry
    <2>2. p.req # r
      BY <1>3, <2>1 DEF IsCurrent
    <2>3. status'[p.req] = status[p.req]
      BY <1>1, <2>1, <2>2 DEF Inv, TypeOK
    <2> QED
      BY <1>2, <2>1, <2>3 DEF Current, IsCurrent
  <1>7. FuturesOfSent'
    BY <1>1, <1>2, <1>5 DEF Inv, FuturesOfSent, TypeOK
  <1>8. PendingIdsDistinct' /\ PendingReqsDistinct' /\ SweptWhileOpen'
        /\ ResolvedByOwnReply' /\ TimeoutAfterAllRetries'
    BY <1>2 DEF Inv, PendingIdsDistinct, PendingReqsDistinct, SweptWhileOpen,
        ResolvedByOwnReply, TimeoutAfterAllRetries
  <1> QED
    BY <1>4, <1>6, <1>7, <1>8 DEF Inv

\* A request without a future and without an entry is registered.
LEMMA SendStep ==
    ASSUME Inv, NEW r \in Req, Send(r) \/ SendFails(r)
    PROVE  Inv'
  <1>1. /\ status[r] = "created" /\ Enqueue(r, ident[r], round[r])
        /\ ident[r] \notin PendingIds
        /\ UNCHANGED <<packetId, ident, round, callbacks, open, sweeper, nap, got>>
    BY DEF Send, SendFails, IdInUse
  <1>2. ident[r] \in Ids /\ round[r] \in 0..MaxRounds /\ TypeOK
    BY DEF Inv, TypeOK
  <1>3. inner[r] = "none"
    BY <1>1 DEF Inv, FuturesOfSent
  <1>4. \A p \in Current : p \in Entry /\ p.req \in Req /\ p.req # r
    BY <1>1 DEF Current, IsCurrent, Entry
  <1>5. \A i \in DOMAIN pending : pending[i].req # r
    BY <1>4, CurrentFacts
  <1>6. PendingIdsDistinct' /\ PendingReqsDistinct'
    BY <1>1, <1>2, <1>5, EnqueueDistinct
  <1>7. PICK x \in {"sent", "refused"}, y \in {"none", "waiting"}, z \in 0..1 :
            /\ status' = [status EXCEPT ![r] = x]
            /\ inner' = [inner EXCEPT ![r] = y]
            /\ sends' = [sends EXCEPT ![r] = IF z = 1 THEN 1 ELSE @]
            /\ y # "none" => x = "sent"
            /\ sweeper = "asleep" => z = 1
    <2>1. CASE Send(r)
      <3>1. /\ status' = [status EXCEPT ![r] = "sent"]
            /\ inner' = [inner EXCEPT ![r] = "waiting"]
            /\ sends' = [sends EXCEPT ![r] = IF 1 = 1 THEN 1 ELSE @]
        BY <2>1 DEF Send, Transmit
      <3> QED
        BY <3>1
    <2>2. CASE SendFails(r)
      <3>1. /\ status' = [status EXCEPT ![r] = "refused"]
            /\ inner' = [inner EXCEPT ![r] = "none"]
            /\ sends' = [sends EXCEPT ![r] = IF 0 = 1 THEN 1 ELSE @]
        BY <1>3, <2>2 DEF SendFails, Inv, TypeOK
      <3>2. sweeper # "asleep"
        BY <2>2 DEF SendFails, Inv, SweptWhileOpen
      <3> QED
        BY <3>1, <3>2
    <2> QED
      BY <2>1, <2>2
  <1>8. TypeOK'
    <2>1. pending' \in Seq([id: Ids, req: Req, round: 0..MaxRounds,
                            retries: 0..Retries, age: 0..MaxAge])
      BY <1>1, <1>2, EnqueueFacts DEF Entry
    <2>2. wire' \subseteq Msg
      BY <1>2 DEF Send, SendFails, Transmit, TypeOK, Msg
    <2>3. outer' \in [Req -> Futures]
      BY <1>2 DEF Send, SendFails, TypeOK, Futures
    <2>4. status' \in [Req -> {"new", "created", "sent", "refused"}] /\ inner' \in [Req -> Futures]
      BY <1>2, <1>7 DEF TypeOK, Futures
    <2>5. sends' \in [Req -> 0..(Retries + 1)]
      BY <1>2, <1>7, ConstantFacts DEF TypeOK
    <2> QED
      BY <1>1, <1>2, <2>1, <2>2, <2>3, <2>4, <2>5 DEF TypeOK
  <1>9. PendingCurrent'
    <2>1. ASSUME NEW p \in Current PROVE p \in Current'
      <3>1. /\ status'[p.req] = status[p.req] /\ inner'[p.req] = inner[p.req]
            /\ sends'[p.req] = sends[p.req]
        BY <1>2, <1>4, <1>7 DEF TypeOK
      <3> QED
        BY <1>1, <3>1 DEF Current, IsCurrent
    <2>2. /\ round'[r] = round[r] /\ status'[r] \in {"sent", "refused"}
          /\ inner'[r] \in {"none", "waiting"}
          /\ sweeper' = "asleep" => sends'[r] = 1
      BY <1>1, <1>2, <1>7 DEF TypeOK
    <2> DEFINE e == [id |-> ident[r], req |-> r, round |-> round[r], retries |-> 0, age |-> 0]
    <2>3. e \in Entry /\ e.req = r /\ e.round = round[r] /\ e.retries = 0
      BY <1>2, ConstantFacts DEF Entry
    <2> HIDE DEF e
    <2>4. e \in Current'
      BY <2>2, <2>3 DEF Current, IsCurrent
    <2> QED
      BY <1>1, <1>2, <2>1, <2>4, EnqueuedCurrent DEF e
  <1>10. FuturesOfSent' /\ SweptWhileOpen' /\ ResolvedByOwnReply' /\ TimeoutAfterAllRetries'
    <2>1. ASSUME NEW q \in Req, q # r
          PROVE  /\ status'[q] = status[q] /\ inner'[q] = inner[q] /\ sends'[q] = sends[q]
                 /\ round'[q] = round[q] /\ got'[q] = got[q]
      BY <1>1, <1>2, <1>7, <2>1 DEF TypeOK
    <2>2. inner'[r] \in {"none", "waiting"} /\ (inner'[r] # "none" => status'[r] = "sent")
      BY <1>2, <1>7 DEF TypeOK
    <2> QED
      BY <1>1, <2>1, <2>2
      DEF Inv, FuturesOfSent, SweptWhileOpen, ResolvedByOwnReply, TimeoutAfterAllRetries
  <1> QED
    BY <1>6, <1>8, <1>9, <1>10 DEF Inv

\* A reply resolves the future of the one request it answers.
LEMMA ReceiveStep ==
    ASSUME Inv, NEW m \in wire, NEW kind \in {"answered", "challenged"},
           kind = "challenged" => m.round < MaxRounds, Receive(m, kind)
    PROVE  Inv'
  <1>1. PICK i \in DOMAIN pending :
            /\ VerifyReply(pending[i], m)
            /\ inner[pending[i].req] = "waiting"
            /\ inner' = [inner EXCEPT ![pending[i].req] = kind]
            /\ pending' = RemoveAt(pending, i)
            /\ callbacks' = IF pending[i].req \in Auth
                            THEN callbacks \union {pending[i].req} ELSE callbacks
            /\ got' = [got EXCEPT ![pending[i].req] = m]
    BY DEF Receive
  <1>2. UNCHANGED <<packetId, ident, round, status, outer, open, sweeper, nap, wire, sends>>
    BY DEF Receive
  <1> DEFINE r == pending[i].req
             f == [n \in DOMAIN pending' |-> IF n < i THEN n ELSE n + 1]
  <1>3. r \in Req /\ m.req = r /\ m.round = round[r] /\ status[r] = "sent"
    BY <1>1, CurrentFacts DEF VerifyReply, Current, IsCurrent, Inv, FuturesOfSent
  <1>4. TypeOK /\ pending \in Seq(Entry) /\ i \in 1..Len(pending) /\ Len(pending) \in Nat
    BY PendingType DEF Inv
  <1>5. /\ pending' \in Seq(Entry)
        /\ DOMAIN pending' = 1..(Len(pending) - 1)
        /\ \A n \in DOMAIN pending' :
              pending'[n] = pending[f[n]] /\ f[n] \in DOMAIN pending /\ f[n] # i
        /\ \A n, k \in DOMAIN pending' : n # k => f[n] # f[k]
    <2>1. /\ pending' \in Seq(Entry)
          /\ Len(pending') = Len(pending) - 1
          /\ \A n \in 1..(Len(pending) - 1) :
                pending'[n] = pending[IF n < i THEN n ELSE n + 1]
      BY <1>1, <1>4, RemoveAtFacts
    <2>2. DOMAIN pending' = 1..(Len(pending) - 1)
      BY <2>1, LenProperties
    <2> QED
      BY <1>4, <2>1, <2>2, PendingType
  <1>6. PendingIdsDistinct' /\ PendingReqsDistinct'
    <2>1. \A n \in DOMAIN pending' :
              /\ f[n] \in DOMAIN pending
              /\ pending'[n].id = pending[f[n]].id
              /\ pending'[n].req = pending[f[n]].req
      BY <1>5
    <2> HIDE DEF f
    <2> QED
      BY <1>5, <2>1, KeptDistinct
  <1>7. \A n \in DOMAIN pending' : pending'[n] \in Current /\ pending'[n].req # r
    BY <1>5, CurrentFacts DEF Inv, PendingReqsDistinct
  <1> HIDE DEF r, f
  <1>8. /\ inner' = [inner EXCEPT ![r] = kind]
        /\ got' = [got EXCEPT ![r] = m]
    BY <1>1 DEF r
  <1>9. TypeOK'
    <2>1. callbacks' \subseteq Auth
      BY <1>1, <1>4 DEF TypeOK
    <2>2. inner' \in [Req -> Futures] /\ got' \in [Req -> Msg \union {Nobody}]
      BY <1>4, <1>8 DEF TypeOK, Futures
    <2> QED
      BY <1>2, <1>4, <1>5, <2>1, <2>2 DEF TypeOK, Entry
  <1>10. PendingCurrent'
    <2> SUFFICES ASSUME NEW p \in Current, p.req # r PROVE p \in Current'
      BY <1>7 DEF PendingCurrent
    <2>1. p.req \in Req
      BY DEF Current, Entry
    <2>2. inner'[p.req] = inner[p.req]
      BY <1>4, <1>8, <2>1 DEF TypeOK
    <2> QED
      BY <1>2, <2>2 DEF Current, IsCurrent
  <1>11. FuturesOfSent' /\ SweptWhileOpen' /\ ResolvedByOwnReply' /\ TimeoutAfterAllRetries'
    <2>1. \A q \in Req : q # r => inner'[q] = inner[q] /\ got'[q] = got[q]
      BY <1>4, <1>8 DEF TypeOK
    <2>2. inner'[r] = kind /\ got'[r] = m
      BY <1>3, <1>4, <1>8 DEF TypeOK
    <2> QED
      BY <1>2, <1>3, <2>1, <2>2
      DEF Inv, FuturesOfSent, SweptWhileOpen, ResolvedByOwnReply, TimeoutAfterAllRetries
  <1> QED
    BY <1>6, <1>9, <1>10, <1>11 DEF Inv

\* The steps that leave the pending requests and the transport's futures alone.
LEMMA OuterStep ==
    ASSUME Inv,
           \/ \E r \in Req : OnReplyEnds(r) \/ OnReplyFails(r) \/ OnReplyExhausted(r)
           \/ \E r \in Auth : Cancel(r)
           \/ Close
    PROVE  Inv'
  <1>1. UNCHANGED <<packetId, pending, ident, round, status, inner, nap, wire, sends, got>>
    BY DEF OnReplyEnds, OnReplyFails, OnReplyExhausted, Cancel, Close
  <1>2. sweeper' \in {"asleep", "dead", "cancelled"} /\ open' \in BOOLEAN
        /\ (sweeper' = "asleep" => sweeper = "asleep" /\ open')
    BY DEF OnReplyEnds, OnReplyFails, OnReplyExhausted, Cancel, Close, Inv, TypeOK, SweptWhileOpen
  <1>3. callbacks' \subseteq Auth
    BY DEF OnReplyEnds, OnReplyFails, OnReplyExhausted, Cancel, Close, Inv, TypeOK
  <1>4. outer' \in [Req -> Futures]
    <2>1. \/ outer' = outer
          \/ \E r \in Req, x \in Futures : outer' = [outer EXCEPT ![r] = x]
      <3>1. \A r \in Req : inner[r] \in Futures
        BY DEF Inv, TypeOK
      <3>2. {"error", "cancelled"} \subseteq Futures /\ Auth \subseteq Req
        BY ClientAssumption DEF Futures
      <3>3. ASSUME NEW r \in Req, OnReplyEnds(r) \/ OnReplyFails(r) \/ OnReplyExhausted(r)
            PROVE  \/ outer' = outer
                   \/ \E x \in Futures : outer' = [outer EXCEPT ![r] = x]
        BY <3>1, <3>2, <3>3 DEF OnReplyEnds, OnReplyFails, OnReplyExhausted
      <3>4. ASSUME NEW r \in Auth, Cancel(r)
            PROVE  \E x \in Futures : outer' = [outer EXCEPT ![r] = x]
        BY <3>2, <3>4 DEF Cancel
      <3>5. CASE Close
        BY <3>5 DEF Close
      <3> QED
        BY <3>2, <3>3, <3>4, <3>5
    <2> QED
      BY <2>1 DEF Inv, TypeOK
  <1>5. TypeOK'
    BY <1>1, <1>2, <1>3, <1>4 DEF Inv, TypeOK
  <1>6. PendingCurrent'
    BY <1>1, <1>2 DEF Inv, PendingCurrent, Current, IsCurrent
  <1>7. PendingIdsDistinct' /\ PendingReqsDistinct' /\ FuturesOfSent' /\ SweptWhileOpen'
        /\ ResolvedByOwnReply' /\ TimeoutAfterAllRetries'
    BY <1>1, <1>2 DEF Inv, PendingIdsDistinct, PendingReqsDistinct, FuturesOfSent,
        SweptWhileOpen, ResolvedByOwnReply, TimeoutAfterAllRetries
  <1> QED
    BY <1>5, <1>6, <1>7 DEF Inv

\* The caller of a plain request cancels the future the transport holds.
LEMMA CancelStep ==
    ASSUME Inv, NEW r \in Req, r \notin Auth, Cancel(r)
    PROVE  Inv'
  <1>1. /\ UNCHANGED <<packetId, pending, ident, round, status, outer, callbacks, open,
                       sweeper, nap, wire, sends, got>>
        /\ inner' = [inner EXCEPT ![r] = "cancelled"]
        /\ inner[r] = "waiting"
    BY DEF Cancel, CallerFuture
  <1>2. TypeOK
    BY DEF Inv
  <1>3. inner'[r] = "cancelled" /\ \A q \in Req : q # r => inner'[q] = inner[q]
    BY <1>1, <1>2 DEF TypeOK
  <1>4. TypeOK'
    BY <1>1, <1>2 DEF TypeOK, Futures
  <1>5. PendingCurrent'
    <2> SUFFICES ASSUME NEW p \in Current PROVE p \in Current'
      BY <1>1 DEF Inv, PendingCurrent
    <2>1. p.req \in Req
      BY DEF Current, Entry
    <2> QED
      BY <1>1, <1>3, <2>1 DEF Current, IsCurrent
  <1>6. PendingIdsDistinct' /\ PendingReqsDistinct' /\ FuturesOfSent' /\ SweptWhileOpen'
        /\ ResolvedByOwnReply' /\ TimeoutAfterAllRetries'
    BY <1>1, <1>3 DEF Inv, PendingIdsDistinct, PendingReqsDistinct, FuturesOfSent,
        SweptWhileOpen, ResolvedByOwnReply, TimeoutAfterAllRetries
  <1> QED
    BY <1>4, <1>5, <1>6 DEF Inv

\* The next round of an EAP conversation: its packet has a new Identifier, and
\* the entry of the round before is gone.
LEMMA NextRoundStep ==
    ASSUME Inv, NEW r \in Req, OnReplyNextRound(r)
    PROVE  Inv'
  <1>1. /\ inner[r] = "challenged" /\ FreeIds # {}
        /\ callbacks' = callbacks \ {r}
        /\ packetId' = NextId
        /\ ident' = [ident EXCEPT ![r] = NextId]
        /\ round' = [round EXCEPT ![r] = @ + 1]
        /\ inner' = [inner EXCEPT ![r] = "waiting"]
        /\ Enqueue(r, NextId, round[r] + 1)
        /\ UNCHANGED <<status, outer, open, sweeper, nap, got>>
    BY DEF OnReplyNextRound
  <1>2. TypeOK /\ status[r] = "sent" /\ round[r] + 1 \in 0..MaxRounds
    BY <1>1, ConstantFacts, SMTT(30) DEF Inv, TypeOK, FuturesOfSent
  <1>3. NextId \in Ids /\ NextId \notin PendingIds
    BY <1>1, <1>2, NextIdIsFree
  <1>4. \A p \in Current : p \in Entry /\ p.req \in Req /\ p.req # r
    BY <1>1 DEF Current, IsCurrent, Entry
  <1>5. \A i \in DOMAIN pending : pending[i].req # r
    BY <1>4, CurrentFacts
  <1>6. PendingIdsDistinct' /\ PendingReqsDistinct'
    BY <1>1, <1>2, <1>3, <1>5, EnqueueDistinct
  <1>7. PICK x \in 0..(Retries + 1) :
            /\ sends' = [sends EXCEPT ![r] = x]
            /\ sweeper = "asleep" => x = 1
    <2>1. CASE open
      <3>1. sends' = [sends EXCEPT ![r] = 1]
        BY <2>1 DEF OnReplyNextRound, Transmit
      <3>2. 1 \in 0..(Retries + 1)
        BY ConstantFacts
      <3> QED
        BY <3>1, <3>2, Zenon
    <2>2. CASE ~open
      <3>1. sends' = [sends EXCEPT ![r] = sends[r]]
        BY <1>2, <2>2 DEF OnReplyNextRound, TypeOK
      <3>2. sends[r] \in 0..(Retries + 1) /\ sweeper # "asleep"
        BY <1>2, <2>2 DEF TypeOK, Inv, SweptWhileOpen
      <3> QED
        BY <3>1, <3>2
    <2> QED
      BY <2>1, <2>2
  <1>8. TypeOK'
    <2>1. pending' \in Seq([id: Ids, req: Req, round: 0..MaxRounds,
                            retries: 0..Retries, age: 0..MaxAge])
      BY <1>1, <1>2, <1>3, EnqueueFacts DEF Entry
    <2>2. wire' \subseteq Msg
      BY <1>2, <1>3 DEF OnReplyNextRound, Transmit, TypeOK, Msg
    <2>3. round' \in [Req -> 0..MaxRounds] /\ inner' \in [Req -> Futures]
      BY <1>1, <1>2 DEF TypeOK, Futures
    <2>4. sends' \in [Req -> 0..(Retries + 1)]
      BY <1>2, <1>7 DEF TypeOK
    <2> QED
      BY <1>1, <1>2, <1>3, <2>1, <2>2, <2>3, <2>4 DEF TypeOK
  <1>9. PendingCurrent'
    <2>1. ASSUME NEW p \in Current PROVE p \in Current'
      <3>1. /\ round'[p.req] = round[p.req] /\ inner'[p.req] = inner[p.req]
            /\ sends'[p.req] = sends[p.req]
        BY <1>1, <1>2, <1>4, <1>7 DEF TypeOK
      <3> QED
        BY <1>1, <3>1 DEF Current, IsCurrent
    <2>2. /\ round'[r] = round[r] + 1 /\ status'[r] = "sent"
          /\ inner'[r] = "waiting"
          /\ sweeper' = "asleep" => sends'[r] = 1
      BY <1>1, <1>2, <1>7 DEF TypeOK
    <2> DEFINE e == [id |-> NextId, req |-> r, round |-> round[r] + 1, retries |-> 0, age |-> 0]
    <2>3. e \in Entry /\ e.req = r /\ e.round = round[r] + 1 /\ e.retries = 0
      BY <1>2, <1>3, ConstantFacts DEF Entry
    <2> HIDE DEF e
    <2>4. e \in Current'
      BY <2>2, <2>3 DEF Current, IsCurrent
    <2> QED
      BY <1>1, <1>2, <1>3, <2>1, <2>4, EnqueuedCurrent DEF e
  <1>10. FuturesOfSent' /\ SweptWhileOpen' /\ ResolvedByOwnReply' /\ TimeoutAfterAllRetries'
    <2>1. ASSUME NEW q \in Req, q # r
          PROVE  /\ status'[q] = status[q] /\ inner'[q] = inner[q] /\ sends'[q] = sends[q]
                 /\ round'[q] = round[q] /\ got'[q] = got[q]
      BY <1>1, <1>2, <1>7, <2>1 DEF TypeOK
    <2>2. inner'[r] = "waiting" /\ status'[r] = "sent"
      BY <1>1, <1>2 DEF TypeOK
    <2> QED
      BY <1>1, <2>1, <2>2
      DEF Inv, FuturesOfSent, SweptWhileOpen, ResolvedByOwnReply, TimeoutAfterAllRetries
  <1> QED
    BY <1>6, <1>8, <1>9, <1>10 DEF Inv

LEMMA TickStep ==
    ASSUME Inv, Tick
    PROVE  Inv'
  <1>1. /\ UNCHANGED <<packetId, ident, round, status, inner, outer, callbacks, open,
                       sweeper, wire, sends, got>>
        /\ pending' = [i \in DOMAIN pending |-> Older(pending[i])]
        /\ nap' = Max({0, nap - 1})
    BY DEF Tick
  <1>2. TypeOK
    BY DEF Inv
  <1>3. ASSUME NEW p \in Entry
        PROVE  /\ Older(p) \in Entry /\ Older(p).id = p.id /\ Older(p).req = p.req
               /\ Older(p).round = p.round /\ Older(p).retries = p.retries
    <2>1. p.age + 1 \in Int /\ MaxAge \in Int /\ p.age \in 0..MaxAge
      BY ConstantFacts DEF Entry
    <2> DEFINE a == Min({p.age + 1, MaxAge})
    <2>2. a \in {p.age + 1, MaxAge} /\ a <= MaxAge
      BY <2>1, MinOfTwo
    <2>3. Older(p) = [p EXCEPT !.age = a]
      BY DEF Older
    <2> HIDE DEF a
    <2>4. a \in 0..MaxAge
      BY <2>1, <2>2, ConstantFacts
    <2> QED
      BY <2>3, <2>4 DEF Entry
  <1>4. /\ DOMAIN pending' = DOMAIN pending
        /\ \A i \in DOMAIN pending : pending'[i] = Older(pending[i])
    BY <1>1
  <1>5. pending' \in Seq(Entry)
    <2>1. pending' = [i \in 1..Len(pending) |-> Older(pending[i])]
      BY <1>1, <1>2, PendingType
    <2>2. \A i \in 1..Len(pending) : Older(pending[i]) \in Entry
      BY <1>2, <1>3, PendingType
    <2> QED
      BY <1>2, <2>1, <2>2, PendingType, IsASeq
  <1>6. TypeOK'
    <2>1. nap - 1 \in Int /\ nap \in 0..Timeout
      BY <1>2, ConstantFacts DEF TypeOK
    <2>2. nap' \in {0, nap - 1} /\ nap' >= 0
      <3>1. Max({0, nap - 1}) \in {0, nap - 1} /\ Max({0, nap - 1}) >= 0
        BY <2>1, MaxOfTwo
      <3> QED
        BY <1>1, <3>1, Zenon
    <2>3. nap' \in 0..Timeout
      BY <2>1, <2>2, ConstantFacts
    <2> QED
      BY <1>1, <1>2, <1>5, <2>3 DEF TypeOK, Entry
  <1>7. PendingIdsDistinct' /\ PendingReqsDistinct'
    <2> DEFINE f == [i \in DOMAIN pending |-> i]
    <2>1. \A i \in DOMAIN pending' :
              /\ f[i] \in DOMAIN pending
              /\ pending'[i].id = pending[f[i]].id
              /\ pending'[i].req = pending[f[i]].req
      BY <1>2, <1>3, <1>4, PendingType
    <2>2. \A i, j \in DOMAIN pending' : i # j => f[i] # f[j]
      BY <1>4
    <2> HIDE DEF f
    <2> QED
      BY <2>1, <2>2, KeptDistinct
  <1>8. PendingCurrent'
    <2>1. ASSUME NEW p \in Current PROVE Older(p) \in Current'
      BY <1>1, <1>3 DEF Current, IsCurrent
    <2> QED
      BY <1>4, <2>1, CurrentFacts DEF PendingCurrent
  <1>9. FuturesOfSent' /\ SweptWhileOpen' /\ ResolvedByOwnReply' /\ TimeoutAfterAllRetries'
    BY <1>1 DEF Inv, FuturesOfSent, SweptWhileOpen, ResolvedByOwnReply, TimeoutAfterAllRetries
  <1> QED
    BY <1>6, <1>7, <1>8, <1>9 DEF Inv

-----------------------------------------------------------------------------
(* A pass of the timeout task. *)

\* Survivors keeps, in a sequence, the entries at the other positions, each
\* once.
LEMMA SurvivorsFacts ==
    ASSUME NEW S, NEW s \in Seq(S), NEW I
    PROVE  \E f : /\ Survivors(s, I) \in Seq(S)
                  /\ \A n \in DOMAIN Survivors(s, I) :
                        f[n] \in DOMAIN s \ I /\ Survivors(s, I)[n] = s[f[n]]
                  /\ \A n, k \in DOMAIN Survivors(s, I) : n # k => f[n] # f[k]
  <1> DEFINE kept == DOMAIN s \ I
             Rank(i) == Cardinality({j \in kept : j <= i})
             nth(n) == CHOOSE i \in kept : Rank(i) = n
             c == Cardinality(kept)
             f == [n \in 1..c |-> nth(n)]
  <1>1. Len(s) \in Nat /\ DOMAIN s = 1..Len(s) /\ \A i \in DOMAIN s : s[i] \in S
    BY LenProperties, ElementOfSeq
  <1>2. kept \subseteq Nat /\ IsFiniteSet(kept)
    <2>1. IsFiniteSet(1..Len(s))
      BY <1>1, FS_Interval
    <2> QED
      BY <1>1, <2>1, FS_Subset
  <1>3. c \in Nat
    BY <1>2, FS_CardinalityType
  <1>4. \A n \in 1..c : nth(n) \in kept /\ Rank(nth(n)) = n
    <2> SUFFICES ASSUME NEW n \in 1..c PROVE nth(n) \in kept /\ Rank(nth(n)) = n
      OBVIOUS
    <2>1. \E i \in kept : Rank(i) = n
      BY <1>2, NthExists
    <2> HIDE DEF Rank, kept
    <2> QED
      BY <2>1
  <1>5. Survivors(s, I) = [n \in 1..c |-> s[nth(n)]]
    BY DEF Survivors
  <1> HIDE DEF nth, Rank, c
  <1>6. \A n \in 1..c : s[nth(n)] \in S
    BY <1>1, <1>4
  <1>7. Survivors(s, I) \in Seq(S) /\ DOMAIN Survivors(s, I) = 1..c
    BY <1>3, <1>5, <1>6, IsASeq
  <1>8. \A n \in 1..c : f[n] \in kept /\ Survivors(s, I)[n] = s[f[n]] /\ Rank(f[n]) = n
    BY <1>4, <1>5
  <1> HIDE DEF f
  <1>9. \A n, k \in 1..c : n # k => f[n] # f[k]
    BY <1>8
  <1> QED
    BY <1>7, <1>8, <1>9, ZenonT(30)

\* Whom a pass gives up and to whom it sends again, when it gets that far:
\* nobody is both, and the futures of the first are still waiting.
LEMMA PassFacts ==
    ASSUME Inv, NEW wait \in Draws
    PROVE  /\ TimedOut(wait) \subseteq DOMAIN pending
           /\ Resent(wait) \subseteq DOMAIN pending
           /\ \A i \in TimedOut(wait) : /\ Exhausted(pending[i])
                                        /\ inner[pending[i].req] = "waiting"
                                        /\ i \notin Resent(wait)
           /\ \A i \in Resent(wait) : ~Exhausted(pending[i])
           /\ Breaks(wait) = {} => TimedOut(wait) = GiveUp(wait)
  <1>1. TypeOK /\ DOMAIN pending = 1..Len(pending) /\ Len(pending) \in Nat
    BY PendingType DEF Inv
  <1>2. /\ GiveUp(wait) \subseteq DOMAIN pending
        /\ \A i \in GiveUp(wait) : Exhausted(pending[i])
        /\ \A i \in GiveUp(wait) : i \notin Breaks(wait) => inner[pending[i].req] = "waiting"
    BY DEF GiveUp, Due, Breaks
  <1>3. Breaks(wait) \subseteq Nat /\ Breaks(wait) \subseteq DOMAIN pending
    BY <1>1, <1>2 DEF Breaks
  <1>4. ASSUME Breaks(wait) # {}
        PROVE  /\ Min(Breaks(wait)) \in DOMAIN pending
               /\ \A i \in Breaks(wait) : Min(Breaks(wait)) <= i
    BY <1>3, <1>4, MinOfNaturals
  <1>5. Visited(wait) \subseteq DOMAIN pending /\ Visited(wait) \intersect Breaks(wait) = {}
    <2>1. CASE Breaks(wait) = {}
      BY <2>1 DEF Visited
    <2>2. CASE Breaks(wait) # {}
      <3> DEFINE b == Min(Breaks(wait))
      <3>1. Visited(wait) = 1..(b - 1)
        BY <2>2 DEF Visited
      <3>2. b \in 1..Len(pending) /\ \A i \in Breaks(wait) : b <= i
        BY <1>1, <1>4, <2>2
      <3> HIDE DEF b
      <3> QED
        BY <1>1, <1>3, <3>1, <3>2
    <2> QED
      BY <2>1, <2>2
  <1>6. /\ TimedOut(wait) \subseteq GiveUp(wait) /\ TimedOut(wait) \subseteq Visited(wait)
        /\ Resent(wait) \subseteq Due(wait) \ GiveUp(wait)
        /\ Breaks(wait) = {} => TimedOut(wait) = GiveUp(wait)
    BY <1>2 DEF TimedOut, Resent, Visited
  <1>7. \A i \in Due(wait) : i \in DOMAIN pending /\ (i \notin GiveUp(wait) => ~Exhausted(pending[i]))
    BY DEF Due, GiveUp
  <1> QED
    BY <1>2, <1>5, <1>6, <1>7

\* Each entry after the pass: sent again or as it was.
LEMMA AfterPassFacts ==
    ASSUME Inv, NEW wait \in Draws
    PROVE  /\ AfterPass(wait) \in Seq(Entry)
           /\ DOMAIN AfterPass(wait) = DOMAIN pending
           /\ \A i \in DOMAIN pending :
                 /\ AfterPass(wait)[i].id = pending[i].id
                 /\ AfterPass(wait)[i].req = pending[i].req
                 /\ AfterPass(wait)[i].round = pending[i].round
                 /\ i \in Resent(wait) =>
                       AfterPass(wait)[i].retries = pending[i].retries + 1
                       /\ AfterPass(wait)[i].age = 0
                 /\ i \notin Resent(wait) => AfterPass(wait)[i] = pending[i]
  <1>1. TypeOK /\ DOMAIN pending = 1..Len(pending) /\ Len(pending) \in Nat
        /\ \A i \in DOMAIN pending : pending[i] \in Entry
    BY PendingType DEF Inv
  <1>2. ASSUME NEW p \in Entry, ~Exhausted(p)
        PROVE  /\ ResendEffect(p) \in Entry
               /\ ResendEffect(p).id = p.id /\ ResendEffect(p).req = p.req
               /\ ResendEffect(p).round = p.round
               /\ ResendEffect(p).retries = p.retries + 1
               /\ ResendEffect(p).age = 0
    <2>1. p.retries \in 0..Retries /\ ~(p.retries >= Retries)
      BY <1>2 DEF Entry, Exhausted
    <2>2. p.retries + 1 \in 0..Retries /\ 0 \in 0..MaxAge
      BY <2>1, ConstantFacts
    <2> QED
      BY <2>2 DEF Entry, ResendEffect
  <1> DEFINE g(i) == IF i \in Resent(wait) THEN ResendEffect(pending[i]) ELSE pending[i]
  <1>3. AfterPass(wait) = [i \in 1..Len(pending) |-> g(i)]
    BY <1>1 DEF AfterPass
  <1>4. \A i \in Resent(wait) : i \in DOMAIN pending /\ ~Exhausted(pending[i])
    BY PassFacts
  <1>5. \A i \in 1..Len(pending) : g(i) \in Entry
    BY <1>1, <1>2, <1>4
  <1>6. AfterPass(wait) \in Seq(Entry)
    <2> HIDE DEF g
    <2> QED
      BY <1>1, <1>3, <1>5, IsASeq
  <1> QED
    BY <1>1, <1>2, <1>3, <1>4, <1>6

\* The next sleep is no longer than the base timeout, nor than what is left of
\* a wait that is not over.
LEMMA NextWakeUpFacts ==
    ASSUME Inv, NEW wait \in Draws
    PROVE  /\ NextWakeUp(wait) \in 0..Timeout
           /\ \A i \in DOMAIN pending \ Due(wait) : NextWakeUp(wait) <= wait[i] - pending[i].age
  <1> DEFINE S == {Timeout} \union {wait[i] - pending[i].age : i \in DOMAIN pending \ Due(wait)}
  <1>1. \A i \in DOMAIN pending : pending[i].age \in 0..MaxAge /\ wait[i] \in 0..MaxAge
    BY PendingType DEF Inv, Entry, Draws
  <1>2. \A i \in DOMAIN pending \ Due(wait) : wait[i] - pending[i].age \in Nat
    BY <1>1, ConstantFacts DEF Due
  <1>3. S \subseteq Nat /\ S # {}
    BY <1>2, ConstantFacts
  <1>4. Min(S) \in S /\ \A y \in S : Min(S) <= y
    BY <1>3, MinOfNaturals
  <1>5. NextWakeUp(wait) = Min(S)
    BY DEF NextWakeUp
  <1> DEFINE m == Min(S)
  <1>6. m \in Nat /\ m <= Timeout
    BY <1>3, <1>4
  <1>7. \A i \in DOMAIN pending \ Due(wait) : m <= wait[i] - pending[i].age
    BY <1>4
  <1> HIDE DEF m, S
  <1>8. NextWakeUp(wait) = m
    BY <1>5 DEF m
  <1> QED
    BY <1>6, <1>7, <1>8, ConstantFacts

\* The pass itself.
Pass(wait) ==
    LET out == ReqsOf(TimedOut(wait))
        again == ReqsOf(Resent(wait))
    IN  /\ inner' = [r \in Req |-> IF r \in out THEN "timeout" ELSE inner[r]]
        /\ callbacks' = callbacks \union (out \intersect Auth)
        /\ sends' = [r \in Req |-> IF r \in again THEN sends[r] + 1 ELSE sends[r]]
        /\ IF Breaks(wait) = {}
           THEN /\ pending' = Survivors(AfterPass(wait), TimedOut(wait))
                /\ nap' = NextWakeUp(wait)
                /\ UNCHANGED sweeper
           ELSE /\ pending' = AfterPass(wait)
                /\ sweeper' = "dead"
                /\ UNCHANGED nap

\* Where the entries come from, whether or not the pass breaks off.
LEMMA PassPending ==
    ASSUME Inv, NEW wait \in Draws, Pass(wait)
    PROVE  \E f : /\ pending' \in Seq(Entry)
                  /\ \A n \in DOMAIN pending' :
                        /\ f[n] \in DOMAIN pending
                        /\ pending'[n] = AfterPass(wait)[f[n]]
                        /\ f[n] \in TimedOut(wait) => Breaks(wait) # {}
                  /\ \A n, k \in DOMAIN pending' : n # k => f[n] # f[k]
  <1>1. AfterPass(wait) \in Seq(Entry) /\ DOMAIN AfterPass(wait) = DOMAIN pending
    BY AfterPassFacts
  <1>2. CASE Breaks(wait) = {}
    <2>1. pending' = Survivors(AfterPass(wait), TimedOut(wait))
      BY <1>2 DEF Pass
    <2> DEFINE a == AfterPass(wait)
               t == TimedOut(wait)
    <2>2. a \in Seq(Entry)
      BY <1>1
    <2> HIDE DEF a, t
    <2>3. PICK f : /\ Survivors(a, t) \in Seq(Entry)
                   /\ \A n \in DOMAIN Survivors(a, t) :
                         f[n] \in DOMAIN a \ t /\ Survivors(a, t)[n] = a[f[n]]
                   /\ \A n, k \in DOMAIN Survivors(a, t) : n # k => f[n] # f[k]
      BY <2>2, SurvivorsFacts
    <2>4. pending' = Survivors(a, t)
      BY <2>1 DEF a, t
    <2>5. /\ pending' \in Seq(Entry)
          /\ \A n \in DOMAIN pending' : f[n] \in DOMAIN a \ t /\ pending'[n] = a[f[n]]
          /\ \A n, k \in DOMAIN pending' : n # k => f[n] # f[k]
      BY <2>3, <2>4
    <2> QED
      BY <1>1, <2>5 DEF a, t
  <1>3. CASE Breaks(wait) # {}
    <2>1. pending' = AfterPass(wait)
      BY <1>3 DEF Pass
    <2> DEFINE f == [n \in DOMAIN pending |-> n]
    <2>2. /\ pending' \in Seq(Entry)
          /\ \A n \in DOMAIN pending' : f[n] \in DOMAIN pending /\ f[n] = n
      BY <1>1, <2>1
    <2> HIDE DEF f
    <2>3. /\ \A n \in DOMAIN pending' :
                /\ f[n] \in DOMAIN pending
                /\ pending'[n] = AfterPass(wait)[f[n]]
                /\ f[n] \in TimedOut(wait) => Breaks(wait) # {}
          /\ \A n, k \in DOMAIN pending' : n # k => f[n] # f[k]
      BY <1>3, <2>1, <2>2
    <2> QED
      BY <2>2, <2>3
  <1> QED
    BY <1>2, <1>3

LEMMA SweepStep ==
    ASSUME Inv, Sweep
    PROVE  Inv'
  <1>1. PICK wait \in Draws : Pass(wait)
    BY DEF Sweep, Pass
  <1>2. sweeper = "asleep" /\ UNCHANGED <<packetId, ident, round, status, outer, open, wire, got>>
    BY DEF Sweep
  <1> DEFINE T == TimedOut(wait)
             R == Resent(wait)
             out == ReqsOf(T)
             again == ReqsOf(R)
  <1>3. /\ T \subseteq DOMAIN pending /\ R \subseteq DOMAIN pending
        /\ \A i \in T : /\ pending[i].retries >= Retries
                        /\ inner[pending[i].req] = "waiting"
                        /\ i \notin R
        /\ \A i \in R : ~(pending[i].retries >= Retries)
    BY PassFacts DEF Exhausted
  <1>4. /\ inner' = [r \in Req |-> IF r \in out THEN "timeout" ELSE inner[r]]
        /\ callbacks' = callbacks \union (out \intersect Auth)
        /\ sends' = [r \in Req |-> IF r \in again THEN sends[r] + 1 ELSE sends[r]]
    BY <1>1 DEF Pass
  <1>5. /\ sweeper' \in {"asleep", "dead"}
        /\ sweeper' = "asleep" => Breaks(wait) = {}
        /\ nap' \in 0..Timeout
    BY <1>1, <1>2, NextWakeUpFacts DEF Pass, Inv, TypeOK
  <1> HIDE DEF T, R
  <1>6. \A i \in DOMAIN pending :
            /\ pending[i] \in Entry /\ pending[i].req \in Req
            /\ pending[i].retries \in 0..Retries
            /\ IsCurrent(pending[i]) /\ sends[pending[i].req] = pending[i].retries + 1
            /\ inner[pending[i].req] \notin {"answered", "challenged", "timeout"}
            /\ pending[i].req \in out <=> i \in T
            /\ pending[i].req \in again <=> i \in R
    <2>1. \A i \in DOMAIN pending :
              /\ pending[i] \in Entry /\ pending[i].req \in Req
              /\ pending[i].retries \in 0..Retries /\ IsCurrent(pending[i])
      BY CurrentFacts DEF Current, Entry
    <2>2. \A i \in DOMAIN pending : /\ pending[i].req \in out <=> i \in T
                                    /\ pending[i].req \in again <=> i \in R
      BY <1>3 DEF ReqsOf, Inv, PendingReqsDistinct
    <2> QED
      BY <1>2, <2>1, <2>2 DEF IsCurrent
  <1>7. \A r \in out : \E i \in T : r = pending[i].req
    BY DEF ReqsOf
  <1>8. \A r \in again : \E i \in R : r = pending[i].req
    BY DEF ReqsOf
  <1> HIDE DEF out, again
  <1>9. TypeOK
    BY DEF Inv
  <1>10. PICK f : /\ pending' \in Seq(Entry)
                  /\ \A n \in DOMAIN pending' :
                        /\ f[n] \in DOMAIN pending
                        /\ pending'[n] = AfterPass(wait)[f[n]]
                        /\ f[n] \in T => Breaks(wait) # {}
                  /\ \A n, k \in DOMAIN pending' : n # k => f[n] # f[k]
    BY <1>1, PassPending DEF T
  <1>11. \A i \in DOMAIN pending :
            /\ AfterPass(wait)[i].id = pending[i].id
            /\ AfterPass(wait)[i].req = pending[i].req
            /\ AfterPass(wait)[i].round = pending[i].round
            /\ i \in R => AfterPass(wait)[i].retries = pending[i].retries + 1
            /\ i \notin R => AfterPass(wait)[i].retries = pending[i].retries
    BY AfterPassFacts DEF R
  <1>12. TypeOK'
    <2>1. inner' \in [Req -> Futures]
      BY <1>4, <1>9 DEF TypeOK, Futures
    <2>2. sends' \in [Req -> 0..(Retries + 1)]
      <3> SUFFICES ASSUME NEW r \in again PROVE sends[r] + 1 \in 0..(Retries + 1)
        BY <1>4, <1>9 DEF TypeOK
      <3>1. PICK i \in R : r = pending[i].req
        BY <1>8
      <3>2. sends[r] = pending[i].retries + 1 /\ pending[i].retries \in 0..Retries
            /\ ~(pending[i].retries >= Retries)
        BY <1>3, <1>6, <3>1
      <3> QED
        BY <3>2, ConstantFacts
    <2>3. callbacks' \subseteq Auth
      BY <1>4, <1>9 DEF TypeOK
    <2>4. pending' \in Seq([id: Ids, req: Req, round: 0..MaxRounds,
                            retries: 0..Retries, age: 0..MaxAge])
      BY <1>10 DEF Entry
    <2> QED
      BY <1>2, <1>5, <1>9, <2>1, <2>2, <2>3, <2>4 DEF TypeOK
  <1>13. PendingIdsDistinct' /\ PendingReqsDistinct'
    <2>1. \A n \in DOMAIN pending' :
              /\ f[n] \in DOMAIN pending
              /\ pending'[n].id = pending[f[n]].id
              /\ pending'[n].req = pending[f[n]].req
      BY <1>10, <1>11
    <2> QED
      BY <1>10, <2>1, KeptDistinct
  <1>14. PendingCurrent'
    <2> SUFFICES ASSUME NEW n \in DOMAIN pending' PROVE pending'[n] \in Current'
      BY DEF PendingCurrent
    <2> DEFINE i == f[n]
               p == pending'[n]
    <2>1. /\ i \in DOMAIN pending /\ (i \in T => Breaks(wait) # {})
          /\ p.req = pending[i].req /\ p.round = pending[i].round
          /\ p.retries = IF i \in R THEN pending[i].retries + 1 ELSE pending[i].retries
      BY <1>10, <1>11
    <2>2. p \in Entry
      BY <1>10, ElementOfSeq, LenProperties
    <2> HIDE DEF i, p
    <2>3. /\ p.req \in Req /\ p.round = round[p.req] /\ status[p.req] \in {"sent", "refused"}
          /\ inner[p.req] \notin {"answered", "challenged", "timeout"}
          /\ sends[p.req] = pending[i].retries + 1
          /\ pending[i].retries \in 0..Retries
          /\ p.req \in out <=> i \in T
          /\ p.req \in again <=> i \in R
      BY <1>6, <2>1 DEF IsCurrent
    <2>4. /\ inner'[p.req] \notin {"answered", "challenged"}
          /\ i \notin T => inner'[p.req] # "timeout"
          /\ sends'[p.req] = IF i \in R THEN sends[p.req] + 1 ELSE sends[p.req]
      BY <1>4, <2>3
    <2>5. sends'[p.req] = p.retries + 1
      BY <2>1, <2>3, <2>4, ConstantFacts
    <2>6. p \in Current'
      BY <1>2, <1>5, <2>1, <2>2, <2>3, <2>4, <2>5 DEF Current, IsCurrent
    <2> QED
      BY <2>6 DEF p
  <1>15. FuturesOfSent' /\ ResolvedByOwnReply'
    <2>1. \A r \in Req : inner'[r] = inner[r] \/ (inner'[r] = "timeout" /\ inner[r] = "waiting")
      BY <1>3, <1>4, <1>7
    <2> QED
      BY <1>2, <2>1 DEF Inv, FuturesOfSent, ResolvedByOwnReply
  <1>16. TimeoutAfterAllRetries'
    <2> SUFFICES ASSUME NEW r \in Req, inner'[r] = "timeout" PROVE sends'[r] = Retries + 1
      BY DEF TimeoutAfterAllRetries
    <2>1. CASE r \in out
      <3>1. PICK i \in T : r = pending[i].req
        BY <1>7, <2>1
      <3>2. sends[r] = pending[i].retries + 1 /\ pending[i].retries \in 0..Retries
            /\ pending[i].retries >= Retries /\ r \notin again
        BY <1>3, <1>6, <3>1
      <3>3. sends[r] = Retries + 1
        BY <3>2, ConstantFacts
      <3> QED
        BY <1>4, <3>2, <3>3
    <2>2. CASE r \notin out
      <3>1. inner[r] = "timeout"
        BY <1>4, <2>2
      <3>2. r \notin again
        BY <1>3, <1>6, <1>8, <3>1
      <3> QED
        BY <1>4, <3>1, <3>2 DEF Inv, TimeoutAfterAllRetries
    <2> QED
      BY <2>1, <2>2
  <1>17. SweptWhileOpen'
    BY <1>2, <1>5 DEF Inv, SweptWhileOpen
  <1> QED
    BY <1>12, <1>13, <1>14, <1>15, <1>16, <1>17 DEF Inv

LEMMA InvStep == Inv /\ [Next]_vars => Inv'
  <1> SUFFICES ASSUME Inv, [Next]_vars PROVE Inv'
    OBVIOUS
  <1>1. Auth \subseteq Req /\ Cancellable \subseteq Req
    BY ClientAssumption
  <1>2. CASE UNCHANGED vars
    <2>1. Current' = Current
      BY <1>2 DEF vars, Current, IsCurrent
    <2> QED
      BY <1>2, <2>1 DEF vars, Inv, TypeOK, PendingIdsDistinct, PendingReqsDistinct,
          PendingCurrent, FuturesOfSent, SweptWhileOpen, ResolvedByOwnReply, TimeoutAfterAllRetries
  <1>3. ASSUME NEW r \in Req, Create(r) \/ CreateRefused(r) \/ SendRefused(r) PROVE Inv'
    BY <1>3, StatusStep
  <1>4. ASSUME NEW r \in Req, Send(r) \/ SendFails(r) PROVE Inv'
    BY <1>4, SendStep
  <1>5. ASSUME NEW m \in wire, Receive(m, "answered") PROVE Inv'
    BY <1>5, ReceiveStep
  <1>6. ASSUME NEW m \in wire, m.round < MaxRounds, Receive(m, "challenged") PROVE Inv'
    BY <1>6, ReceiveStep
  <1>7. ASSUME NEW r \in Auth, OnReply(r) PROVE Inv'
    BY <1>1, <1>7, OuterStep, NextRoundStep DEF OnReply
  <1>8. ASSUME NEW r \in Cancellable, Cancel(r) PROVE Inv'
    BY <1>1, <1>8, OuterStep, CancelStep
  <1>9. CASE Sweep
    BY <1>9, SweepStep
  <1>10. CASE Tick
    BY <1>10, TickStep
  <1>11. CASE Close
    BY <1>11, OuterStep
  <1> QED
    BY <1>2, <1>3, <1>4, <1>5, <1>6, <1>7, <1>8, <1>9, <1>10, <1>11 DEF Next

LEMMA ClientInvariant == Spec => []Inv
  BY InvInit, InvStep, PTL DEF Spec

-----------------------------------------------------------------------------
(* The theorems. *)

\* Every variable keeps its type: packet_id stays an Identifier, no request is
\* transmitted more than 1 + retries times in a round, the timeout task never
\* sleeps longer than the base timeout.
THEOREM ClientTypeCorrect == Spec => []TypeOK
  <1>1. Inv => TypeOK
    BY DEF Inv
  <1> QED
    BY <1>1, ClientInvariant, PTL

\* pending_requests never holds two requests under one Identifier, although
\* create_id reserves nothing and packets are sent long after they were made.
THEOREM ClientPendingIdsDistinct == Spec => []PendingIdsDistinct
  <1>1. Inv => PendingIdsDistinct
    BY DEF Inv
  <1> QED
    BY <1>1, ClientInvariant, PTL

\* However often replies are delayed, duplicated and reordered and Identifiers
\* reused, datagram_received resolves a future only with the reply to its own
\* request in its current round.
THEOREM ClientResolvedByOwnReply == Spec => []ResolvedByOwnReply
  <1>1. Inv => ResolvedByOwnReply
    BY DEF Inv
  <1> QED
    BY <1>1, ClientInvariant, PTL

\* __timeout_handler__ raises TimeoutError after exactly 1 + retries
\* transmissions, whatever was cancelled, answered or closed meanwhile.
THEOREM ClientTimeoutAfterAllRetries == Spec => []TimeoutAfterAllRetries
  <1>1. Inv => TimeoutAfterAllRetries
    BY DEF Inv
  <1> QED
    BY <1>1, ClientInvariant, PTL

-----------------------------------------------------------------------------
(* When the timeout task wakes up. *)

Longest(attempt) == Max(WaitFor(attempt))

\* A sleep of n ends before the longest wait of p is over, or at once.
InTime(n, p) == n = 0 \/ n + p.age <= Longest(p.retries)

\* The longest wait is the upper end of what wait_for can return, and unless
\* max_wait cuts it off it is at least the base timeout.
LEMMA LongestWait ==
    ASSUME Timeout <= MaxWait, NEW a \in 0..Retries
    PROVE  /\ Longest(a) \in Int
           /\ Longest(a) >= Timeout
           /\ \A w \in WaitFor(a) : w <= Longest(a)
  <1>1. /\ Timeout \in Nat /\ Timeout > 0 /\ MaxWait \in Nat /\ JitterPct \in 0..100
        /\ Backoff \in Nat \ {0} /\ a \in Nat
    BY PolicyAssumption
  <1>2. Backoff ^ a \in Int /\ Backoff ^ a >= 1
    <2>1. Backoff ^ a \in Int
      BY <1>1
    <2>2. Backoff ^ a >= 1
      BY BackoffAssumption, Zenon
    <2> QED
      BY <2>1, <2>2, Zenon
  <1> DEFINE t == Timeout * (Backoff ^ a)
             b == BaseWait(a)
             s == Spread(a)
  <1>3. t \in Int /\ t >= Timeout
    <2>1. ASSUME NEW x \in Int, x >= 1 PROVE Timeout * x \in Int /\ Timeout * x >= Timeout
      BY <1>1, <2>1
    <2> QED
      BY <1>2, <2>1
  <1> HIDE DEF t
  <1>4. b = Min({t, MaxWait})
    BY DEF b, BaseWait, t
  <1>5. b \in Int /\ b >= Timeout
    <2>1. Min({t, MaxWait}) \in {t, MaxWait}
      <3>1. t \in Int /\ MaxWait \in Int
        BY <1>1, <1>3
      <3> QED
        BY <3>1, MinOfTwo, Zenon
    <2> QED
      BY <1>1, <1>3, <1>4, <2>1
  <1> HIDE DEF b
  <1>6. s \in Nat
    <2>1. s = (b * JitterPct) \div 100
      BY DEF s, Spread, b
    <2>2. b * JitterPct \in Nat
      BY <1>1, <1>5
    <2> QED
      BY <2>1, <2>2
  <1> HIDE DEF s
  <1>7. Max({0, b - s}) \in {0, b - s}
    <2>1. 0 \in Int /\ b - s \in Int
      BY <1>5, <1>6
    <2> QED
      BY <2>1, MaxOfTwo, Zenon
  <1>8. Max({0, b - s}) \in Int /\ b + s \in Int /\ Max({0, b - s}) <= b + s
    BY <1>1, <1>5, <1>6, <1>7
  <1>9. WaitFor(a) = Max({0, b - s}) .. (b + s)
    BY DEF WaitFor, b, s
  <1>10. Longest(a) = b + s
    BY <1>8, <1>9, MaxOfInterval DEF Longest
  <1>11. \A w \in WaitFor(a) : w <= b + s
    BY <1>8, <1>9
  <1> QED
    BY <1>1, <1>5, <1>6, <1>10, <1>11

\* What WakesInTime says of one pending request.
LEMMA InTimeMeans ==
    ASSUME Timeout <= MaxWait, NEW n \in Nat, NEW p \in Entry
    PROVE  n <= Max({0, Max(WaitFor(p.retries)) - p.age}) <=> InTime(n, p)
  <1>1. p.age \in Nat /\ p.retries \in 0..Retries
    BY ConstantFacts DEF Entry
  <1> DEFINE l == Max(WaitFor(p.retries))
  <1>2. l \in Int /\ l = Longest(p.retries)
    BY <1>1, LongestWait DEF Longest
  <1> HIDE DEF l
  <1>3. /\ Max({0, l - p.age}) \in {0, l - p.age}
        /\ Max({0, l - p.age}) >= 0
        /\ Max({0, l - p.age}) >= l - p.age
    <2>1. 0 \in Int /\ l - p.age \in Int
      BY <1>1, <1>2
    <2> QED
      BY <2>1, MaxOfTwo, Zenon
  <1>4. n <= Max({0, l - p.age}) <=> n = 0 \/ n + p.age <= l
    BY <1>1, <1>2, <1>3
  <1> QED
    BY <1>2, <1>4 DEF InTime, l

\* The steps that neither add an entry nor let time pass.
LEMMA InTimeKept ==
    ASSUME NEW f, \A n \in DOMAIN pending' : f[n] \in DOMAIN pending /\ pending'[n] = pending[f[n]],
           nap' = nap, \A i \in DOMAIN pending : InTime(nap, pending[i])
    PROVE  \A n \in DOMAIN pending' : InTime(nap', pending'[n])
  OBVIOUS

\* A request that is registered while the task sleeps.
LEMMA InTimeEnqueued ==
    ASSUME Timeout <= MaxWait, Inv, NEW r \in Req, NEW id \in Ids, NEW rnd \in 0..MaxRounds,
           Enqueue(r, id, rnd), nap' = nap, \A i \in DOMAIN pending : InTime(nap, pending[i])
    PROVE  \A n \in DOMAIN pending' : InTime(nap', pending'[n])
  <1> DEFINE e == [id |-> id, req |-> r, round |-> rnd, retries |-> 0, age |-> 0]
             k == Len(pending) + 1
  <1>1. /\ DOMAIN pending' = DOMAIN pending \union {k}
        /\ \A i \in DOMAIN pending : pending'[i] = pending[i]
        /\ pending'[k] = e
    BY EnqueueFacts DEF Inv
  <1>2. e.age = 0 /\ e.retries = 0
    OBVIOUS
  <1> HIDE DEF e, k
  <1>3. InTime(nap, e)
    <2>1. Longest(0) \in Int /\ Longest(0) >= Timeout
      BY LongestWait, ConstantFacts
    <2>2. nap \in 0..Timeout
      BY DEF Inv, TypeOK
    <2> QED
      BY <1>2, <2>1, <2>2, ConstantFacts DEF InTime
  <1> QED
    BY <1>1, <1>3

\* A tick shortens the sleep as it shortens what is left of each wait.
LEMMA InTimeTick ==
    ASSUME Timeout <= MaxWait, Inv, Tick, \A i \in DOMAIN pending : InTime(nap, pending[i])
    PROVE  \A n \in DOMAIN pending' : InTime(nap', pending'[n])
  <1> SUFFICES ASSUME NEW n \in DOMAIN pending PROVE InTime(nap', Older(pending[n]))
    BY DEF Tick
  <1>1. /\ pending[n] \in Entry /\ nap \in Nat
        /\ nap' = Max({0, nap - 1})
    <2>1. pending[n] \in Entry
      BY PendingType DEF Inv
    <2>2. nap \in 0..Timeout
      BY DEF Inv, TypeOK
    <2>3. nap' = Max({0, nap - 1})
      BY DEF Tick
    <2> QED
      BY <2>1, <2>2, <2>3, ConstantFacts
  <1>2. pending[n].age \in Nat /\ pending[n].retries \in 0..Retries
    BY <1>1, ConstantFacts DEF Entry
  <1>3. nap' \in {0, nap - 1} /\ nap' >= 0
    <2>1. 0 \in Int /\ nap - 1 \in Int
      BY <1>1
    <2>2. Max({0, nap - 1}) \in {0, nap - 1} /\ Max({0, nap - 1}) >= 0
      BY <2>1, MaxOfTwo, Zenon
    <2> QED
      BY <1>1, <2>2, Zenon
  <1> DEFINE a == Min({pending[n].age + 1, MaxAge})
             q == Older(pending[n])
  <1>4. a \in Int /\ a <= pending[n].age + 1
    <2>1. pending[n].age + 1 \in Int /\ MaxAge \in Int
      BY <1>2, ConstantFacts
    <2>2. a \in {pending[n].age + 1, MaxAge} /\ a <= pending[n].age + 1
      BY <2>1, MinOfTwo, Zenon
    <2> QED
      BY <2>1, <2>2
  <1>5. q = [pending[n] EXCEPT !.age = a]
    BY DEF Older
  <1> HIDE DEF a, q
  <1>6. q.age = a /\ q.retries = pending[n].retries
    BY <1>1, <1>5 DEF Entry
  <1>7. Longest(pending[n].retries) \in Int
    BY <1>2, LongestWait
  <1>8. InTime(nap', q)
    BY <1>1, <1>2, <1>3, <1>4, <1>6, <1>7 DEF InTime
  <1> QED
    BY <1>8 DEF q

\* A pass that is not broken off looks at every request: those whose wait is
\* over leave or begin a new wait, for the others it wakes up in time.
LEMMA InTimeSweep ==
    ASSUME Timeout <= MaxWait, Inv, Sweep, sweeper' = "asleep"
    PROVE  \A n \in DOMAIN pending' : InTime(nap', pending'[n])
  <1>1. PICK wait \in Draws : Pass(wait)
    BY DEF Sweep, Pass
  <1>2. Breaks(wait) = {} /\ nap' = NextWakeUp(wait)
    BY <1>1 DEF Pass
  <1>3. PICK f : \A n \in DOMAIN pending' :
                    /\ f[n] \in DOMAIN pending
                    /\ pending'[n] = AfterPass(wait)[f[n]]
                    /\ f[n] \notin TimedOut(wait)
    BY <1>1, <1>2, PassPending
  <1> SUFFICES ASSUME NEW i \in DOMAIN pending \ TimedOut(wait)
               PROVE  InTime(nap', AfterPass(wait)[i])
    BY <1>3
  <1> DEFINE q == AfterPass(wait)[i]
  <1>4. pending[i] \in Entry /\ q \in Entry
    BY PendingType, AfterPassFacts, ElementOfSeq, LenProperties DEF Inv
  <1>5. pending[i].age \in Nat /\ q.retries \in 0..Retries /\ pending[i].retries \in 0..Retries
    BY <1>4, ConstantFacts DEF Entry
  <1>6. nap' \in 0..Timeout
    BY <1>2, NextWakeUpFacts
  <1>7. CASE i \in Resent(wait)
    <2>1. q.age = 0
      BY <1>7, AfterPassFacts
    <2>2. Longest(q.retries) \in Int /\ Longest(q.retries) >= Timeout
      BY <1>5, LongestWait
    <2> QED
      BY <1>6, <2>1, <2>2, ConstantFacts DEF InTime
  <1>8. CASE i \notin Resent(wait)
    <2>1. q = pending[i]
      BY <1>8, AfterPassFacts
    <2>2. i \notin Due(wait)
      BY <1>2, <1>8 DEF Resent, TimedOut, Visited
    <2>3. nap' <= wait[i] - pending[i].age
      BY <1>2, <2>2, NextWakeUpFacts
    <2>4. wait[i] \in WaitFor(pending[i].retries) /\ wait[i] \in 0..MaxAge
      BY DEF Draws
    <2>5. Longest(pending[i].retries) \in Int /\ wait[i] <= Longest(pending[i].retries)
      BY <1>5, <2>4, LongestWait
    <2>6. nap' + pending[i].age <= Longest(pending[i].retries)
      BY <1>5, <1>6, <2>3, <2>4, <2>5, ConstantFacts
    <2> QED
      BY <2>1, <2>6 DEF InTime
  <1> QED
    BY <1>7, <1>8

\* With a base timeout that max_wait allows, __timeout_handler__ sleeps past
\* the longest wait of no pending request, nor of one sent in its sleep.
THEOREM ClientWakesInTime ==
    ASSUME Timeout <= MaxWait
    PROVE  Spec => []WakesInTime
  <1> DEFINE AllInTime == sweeper = "asleep" => \A i \in DOMAIN pending : InTime(nap, pending[i])
  <1>1. Inv => (AllInTime <=> WakesInTime)
    <2> SUFFICES ASSUME Inv, NEW i \in DOMAIN pending
                 PROVE  nap <= Max({0, Max(WaitFor(pending[i].retries)) - pending[i].age})
                            <=> InTime(nap, pending[i])
      BY DEF WakesInTime
    <2>1. pending[i] \in Entry /\ nap \in Nat
      <3>1. pending[i] \in Entry
        BY PendingType DEF Inv
      <3>2. nap \in 0..Timeout
        BY DEF Inv, TypeOK
      <3> QED
        BY <3>1, <3>2, ConstantFacts
    <2> QED
      BY <2>1, InTimeMeans
  <1>2. Init => AllInTime
    <2>1. Init => DOMAIN pending = {}
      BY DEF Init
    <2> QED
      BY <2>1
  <1>3. Inv /\ AllInTime /\ [Next]_vars => AllInTime'
    <2> SUFFICES ASSUME Inv, AllInTime, [Next]_vars, sweeper' = "asleep"
                 PROVE  \A n \in DOMAIN pending' : InTime(nap', pending'[n])
      OBVIOUS
    <2>1. CASE \/ UNCHANGED vars \/ \E r \in Req : Create(r) \/ CreateRefused(r) \/ SendRefused(r)
               \/ \E r \in Auth : OnReplyEnds(r) \/ OnReplyFails(r) \/ OnReplyExhausted(r)
               \/ \E r \in Cancellable : Cancel(r)
      BY <2>1 DEF vars, Create, CreateRefused, SendRefused, OnReplyEnds, OnReplyFails,
          OnReplyExhausted, Cancel
    <2>2. ASSUME NEW r \in Req, Send(r) \/ SendFails(r)
          PROVE  \A n \in DOMAIN pending' : InTime(nap', pending'[n])
      <3>1. ident[r] \in Ids /\ round[r] \in 0..MaxRounds
        BY DEF Inv, TypeOK
      <3>2. Enqueue(r, ident[r], round[r]) /\ nap' = nap /\ sweeper' = sweeper
        BY <2>2 DEF Send, SendFails
      <3> QED
        BY <3>1, <3>2, InTimeEnqueued
    <2>3. ASSUME NEW r \in Auth, OnReplyNextRound(r)
          PROVE  \A n \in DOMAIN pending' : InTime(nap', pending'[n])
      <3>1. r \in Req /\ inner[r] = "challenged" /\ FreeIds # {}
        BY <2>3, ClientAssumption DEF OnReplyNextRound
      <3>2. NextId \in Ids /\ round[r] + 1 \in 0..MaxRounds
        <4>1. TypeOK /\ FuturesOfSent
          BY DEF Inv
        <4>2. NextId \in Ids
          BY <3>1, <4>1, NextIdIsFree
        <4>3. round[r] \in 0..MaxRounds /\ round[r] < MaxRounds
          BY <3>1, <4>1 DEF TypeOK, FuturesOfSent
        <4> QED
          BY <4>2, <4>3, ConstantFacts
      <3>3. Enqueue(r, NextId, round[r] + 1) /\ nap' = nap /\ sweeper' = sweeper
        BY <2>3 DEF OnReplyNextRound
      <3> QED
        BY <3>1, <3>2, <3>3, InTimeEnqueued
    <2>4. ASSUME NEW m \in wire, NEW kind, Receive(m, kind)
          PROVE  \A n \in DOMAIN pending' : InTime(nap', pending'[n])
      <3>1. PICK i \in DOMAIN pending :
                pending' = RemoveAt(pending, i) /\ nap' = nap /\ sweeper' = sweeper
        BY <2>4 DEF Receive
      <3>2. pending \in Seq(Entry) /\ i \in 1..Len(pending) /\ Len(pending) \in Nat
            /\ DOMAIN pending = 1..Len(pending)
        BY PendingType DEF Inv
      <3> DEFINE f == [n \in 1..(Len(pending) - 1) |-> IF n < i THEN n ELSE n + 1]
      <3>3. /\ pending' \in Seq(Entry)
            /\ Len(pending') = Len(pending) - 1
            /\ \A n \in 1..(Len(pending) - 1) :
                  pending'[n] = pending[IF n < i THEN n ELSE n + 1]
        BY <3>1, <3>2, RemoveAtFacts
      <3>4. DOMAIN pending' = 1..(Len(pending) - 1)
        BY <3>3, LenProperties
      <3>5. \A n \in DOMAIN pending' : f[n] \in DOMAIN pending /\ pending'[n] = pending[f[n]]
        BY <3>2, <3>3, <3>4
      <3> HIDE DEF f
      <3> QED
        BY <3>1, <3>5, InTimeKept
    <2>5. CASE Sweep
      BY <2>5, InTimeSweep
    <2>6. CASE Tick
      BY <2>6, InTimeTick DEF Tick
    <2>7. CASE Close
      BY <2>7 DEF Close
    <2> QED
      BY <2>1, <2>2, <2>3, <2>4, <2>5, <2>6, <2>7 DEF Next, OnReply
  <1> QED
    BY <1>1, <1>2, <1>3, ClientInvariant, PTL DEF Spec

=============================================================================
