--------------------------- MODULE ExchangeProofs ---------------------------
(***************************************************************************)
(* Theorems about an exchange between a pyrad2 client and a pyrad2 server: *)
(* for every retry policy, cache, delay of the network and number of EAP   *)
(* rounds.                                                                 *)
(***************************************************************************)
EXTENDS Exchange, ResponseCacheLemmas

\* A cache keeps replies under any Identifier and authenticator, as the
\* dictionary of ResponseCache does.
Correlators == Nat \X DelayLists
HoldsAllReplies ==
    /\ Correlators \subseteq Key
    /\ [key: Correlators, round: Rounds] \subseteq Raw

\* dedup_ttl is longer than a request and its retransmissions can be under way,
\* and dedup_max_entries has room for one reply per round.
RepliesOutliveRequests ==
    /\ Retries * MaxWait + MaxDelay < TTL
    /\ MaxRounds + 2 <= MaxEntries

-----------------------------------------------------------------------------
(* The inductive invariant. *)

\* The client does not change the request between transmissions of a round;
\* KeyOf(n) is then the one correlator of round n.
Steady == client = "async" \/ kind = "eap"
KeyOf(n) == Correlator(n, original)

\* Only a retransmission of Client changes the packet, and only in a call, for
\* which it has kept what the application put there.
PacketKept ==
    /\ phase # "waiting" \/ Steady => delay = original
    /\ phase = "waiting" /\ ~Steady => saved = original

\* A call begins with its first attempt.  Nothing is under way before the only
\* call of a client that does not change its packet; an Accounting-Request has
\* a single round.
NothingBeforeStart ==
    phase = "idle" =>
        /\ attempt = 0
        /\ Steady => net = {} /\ \A n \in Rounds : handled[n] = 0
OneAccountingRound == kind = "acct" => round = 0

\* Requests, replies and handler runs belong to rounds that have begun, and
\* carry the correlator of their round.
OfRound(key, n) == /\ key \in Correlators
                   /\ n \in 0..round
                   /\ Steady => key = KeyOf(n)
RoundsTraced ==
    /\ \A m \in net : OfRound(m.key, m.round)
    /\ \A rep \in replies : OfRound(rep.key, rep.round)
    /\ \A i \in DOMAIN cached : OfRound(cached[i].key, cached[i].raw.round)
                             /\ cached[i].raw.key = cached[i].key
    /\ \A n \in Rounds : n > round => handled[n] = 0

\* Client keeps one correlator for all EAP rounds and cannot tell them apart.
RoundsAnswered == <<client, kind>> # <<"sync", "eap">> => AnswersThisRound

\* The client is prompt, its wait is bounded, and so is the delay of a copy.
Timely ==
    /\ attempt <= Retries
    /\ phase = "waiting" => now <= deadline
    /\ deadline <= now + MaxWait
    /\ \A m \in net : m.until <= now + MaxDelay

Inv ==
    /\ TypeOK
    /\ Unique(cached)
    /\ PacketKept
    /\ NothingBeforeStart
    /\ OneAccountingRound
    /\ RoundsTraced
    /\ RoundsAnswered
    /\ Timely

\* The end of the life of the last copy this round can put into the network.
LastCopy == deadline + (Retries - attempt) * MaxWait - MaxWait + MaxDelay

\* The cache answers round n up to time u, or u is past.
Covered(n, u) ==
    u < now \/ \E i \in DOMAIN cached : cached[i].key = KeyOf(n) /\ cached[i].exp > u

\* Once a round has been handled, the cache answers every copy of its request,
\* those the client has yet to send included.
HandledCovered ==
    Steady =>
        /\ \A m \in net : handled[m.round] > 0 => Covered(m.round, m.until)
        /\ phase = "waiting" /\ handled[round] > 0 => Covered(round, LastCopy)

-----------------------------------------------------------------------------
(* Lemmas. *)

\* What the assumptions say of the constants.
LEMMA ConstantFacts ==
    /\ Retries \in Nat /\ MaxWait \in Nat /\ MaxDelay \in Nat /\ MaxRounds \in Nat
    /\ TTL \in Nat /\ TTL > 0 /\ MaxNow \in Nat
  BY PolicyAssumption, ExchangeAssumption, CacheAssumption

\* A wait is a time, and max_wait bounds it.
LEMMA BaseWaitFacts ==
    ASSUME NEW a \in 0..Retries
    PROVE  BaseWait(a) \in Nat /\ BaseWait(a) <= MaxWait
  <1>1. Timeout \in Nat /\ MaxWait \in Nat /\ Backoff \in Nat \ {0} /\ a \in Nat
    BY PolicyAssumption
  <1>2. Backoff ^ a \in Int /\ Backoff ^ a >= 1
    <2>1. Backoff ^ a \in Int
      BY <1>1
    <2>2. Backoff ^ a >= 1
      BY BackoffAssumption, Zenon
    <2> QED
      BY <2>1, <2>2, Zenon
  <1> DEFINE t == Timeout * (Backoff ^ a)
  <1>3. t \in Nat
    <2>1. ASSUME NEW x \in Int, x >= 1 PROVE Timeout * x \in Nat
      BY <1>1, <2>1
    <2> QED
      BY <1>2, <2>1
  <1> HIDE DEF t
  <1>4. BaseWait(a) = Min({t, MaxWait})
    BY DEF BaseWait, t
  <1>5. Min({t, MaxWait}) \in {t, MaxWait} /\ Min({t, MaxWait}) <= MaxWait
    <2>1. t \in Int /\ MaxWait \in Int
      BY <1>1, <1>3
    <2> QED
      BY <2>1, MinOfTwo, Zenon
  <1> QED
    BY <1>1, <1>3, <1>4, <1>5

\* A correlator is an Identifier and an authenticator.
LEMMA CorrelatorType ==
    ASSUME NEW n \in Nat, NEW d \in DelayLists
    PROVE  Correlator(n, d) \in Correlators
  <1>1. Absent \in DelayLists /\ 0 \in Nat
    BY DEF DelayLists
  <1> HIDE DEF DelayLists
  <1> QED
    BY <1>1 DEF Correlator, Correlators

\* Client changes its packets exactly where they are not steady.
LEMMA SteadyOrBumped ==
    ASSUME TypeOK
    PROVE  Steady <=> ~BumpsDelay
  BY ExchangeAssumption DEF TypeOK, Steady, BumpsDelay

\* The application's values are a list of Acct-Delay-Time, or none.
LEMMA DelaysAreLists == Delays \subseteq DelayLists /\ Absent \in DelayLists
  BY ExchangeAssumption DEF DelayLists

\* A retransmission leaves a list of values.
LEMMA BumpType ==
    ASSUME NEW d \in DelayLists, NEW a \in 0..Retries
    PROVE  Bump(d, a) \in DelayLists
  <1>1. BaseWait(a) \in Nat
    BY BaseWaitFacts
  <1> DEFINE v == (IF d = Absent THEN 0 ELSE d[1]) + BaseWait(a)
  <1>2. v \in Nat
    <2>1. CASE d = Absent
      BY <1>1, <2>1
    <2>2. CASE d # Absent
      <3>1. d \in Seq(Nat) /\ d # <<>>
        BY <2>2 DEF DelayLists
      <3>2. d[1] \in Nat
        BY <3>1
      <3> QED
        BY <1>1, <2>2, <3>2
    <2> QED
      BY <2>1, <2>2
  <1> HIDE DEF v
  <1>3. <<v>> \in DelayLists
    BY <1>2 DEF DelayLists
  <1> QED
    BY <1>3 DEF Bump, v

\* The finally clause undoes what the retries did, for whatever they left.
LEMMA RestoredFacts ==
    ASSUME Inv, phase = "waiting", NEW d, Steady => d = delay
    PROVE  Restored(d) = original
  <1>1. Steady <=> ~BumpsDelay
    BY SteadyOrBumped DEF Inv
  <1>2. CASE Steady
    BY <1>1, <1>2 DEF Restored, Inv, PacketKept
  <1>3. CASE ~Steady
    BY <1>1, <1>3 DEF Restored, Inv, PacketKept
  <1> QED
    BY <1>2, <1>3

\* What the steps below need of a typed state.
LEMMA TypeFacts ==
    ASSUME TypeOK
    PROVE  /\ CacheTypeOK /\ cached \in Seq(Entry)
           /\ now \in Nat /\ deadline \in Nat /\ attempt \in Nat
           /\ round \in Rounds /\ Rounds \subseteq Nat
           /\ delay \in DelayLists /\ original \in DelayLists
           /\ \A m \in net : m.key \in Key /\ m.round \in Rounds /\ m.until \in Nat
           /\ \A i \in DOMAIN cached : cached[i] \in Entry
  <1>1. CacheTypeOK /\ cached \in Seq(Entry)
    BY DEF TypeOK, CacheTypeOK
  <1>2. \A i \in DOMAIN cached : cached[i] \in Entry
    BY <1>1, LenProperties, ElementOfSeq
  <1>3. now \in Nat
    BY <1>1, ConstantFacts DEF CacheTypeOK
  <1>4. attempt \in Nat /\ Rounds \subseteq Nat
    BY ConstantFacts DEF TypeOK, Rounds
  <1>5. original \in DelayLists
    BY DelaysAreLists DEF TypeOK
  <1> QED
    BY <1>1, <1>2, <1>3, <1>4, <1>5 DEF TypeOK

\* A transmission puts one copy into the network and starts a wait.
LEMMA TransmitFacts ==
    ASSUME HoldsAllReplies, Inv, NEW n \in Rounds, NEW d \in DelayLists,
           NEW a \in 0..Retries, Transmit(n, d, a)
    PROVE  /\ net' \subseteq [key: Key, round: Rounds, until: Nat]
           /\ \A m \in net' : m \in net \/ /\ m.key = Correlator(n, d)
                                           /\ m.round = n
                                           /\ m.until = now + MaxDelay
           /\ deadline' \in Nat /\ now <= deadline' /\ deadline' <= now + MaxWait
  <1> DEFINE c == [key |-> Correlator(n, d), round |-> n, until |-> now + MaxDelay]
  <1>1. TypeOK
    BY DEF Inv
  <1>2. now \in Nat /\ n \in Nat
    BY <1>1, TypeFacts
  <1>3. Correlator(n, d) \in Key
    BY <1>2, CorrelatorType DEF HoldsAllReplies
  <1>4. c \in [key: Key, round: Rounds, until: Nat]
    BY <1>2, <1>3, ConstantFacts
  <1>5. net' = net \union {c} /\ deadline' = now + BaseWait(a)
    BY DEF Transmit
  <1>6. BaseWait(a) \in Nat /\ BaseWait(a) <= MaxWait
    BY BaseWaitFacts
  <1>7. net' \subseteq [key: Key, round: Rounds, until: Nat]
    BY <1>1, <1>4, <1>5 DEF TypeOK
  <1>8. deadline' \in Nat /\ now <= deadline' /\ deadline' <= now + MaxWait
    BY <1>2, <1>5, <1>6, ConstantFacts
  <1> QED
    BY <1>5, <1>7, <1>8

\* A reply that verifies answers the current round, unless one correlator
\* serves all rounds.
LEMMA VerifiedAnswers ==
    ASSUME Inv, NEW rep \in replies, phase = "waiting", Verifies(rep),
           <<client, kind>> # <<"sync", "eap">>
    PROVE  rep.round = round
  <1>1. OfRound(rep.key, rep.round) /\ rep.key = Correlator(round, delay)
    BY DEF Inv, RoundsTraced, Verifies, Mine
  <1>2. round \in Nat /\ client \in {"sync", "async"} /\ kind \in {"acct", "eap"}
    BY TypeFacts, ExchangeAssumption DEF Inv, TypeOK
  <1>3. CASE kind = "acct"
    BY <1>1, <1>2, <1>3 DEF OfRound, Inv, OneAccountingRound
  <1>4. CASE kind = "eap"
    <2>1. client = "async" /\ rep.key = KeyOf(rep.round) /\ rep.round \in Nat
      BY <1>1, <1>2, <1>4 DEF OfRound, Steady
    <2>2. KeyOf(rep.round) = <<rep.round, Absent>> /\ Correlator(round, delay) = <<round, Absent>>
      BY <1>4, <2>1 DEF KeyOf, Correlator
    <2>3. <<rep.round, Absent>> = <<round, Absent>>
      BY <1>1, <2>1, <2>2, Zenon
    <2> QED
      BY <2>3
  <1> QED
    BY <1>2, <1>3, <1>4

-----------------------------------------------------------------------------
(* The invariant is inductive. *)

\* A client that has not sent anything satisfies the invariant.
LEMMA InvInit == Init => Inv
  <1> SUFFICES ASSUME Init PROVE Inv
    OBVIOUS
  <1>1. cached = <<>> /\ inFlight = {} /\ now = 0 /\ net = {} /\ replies = {} /\ accepted = {}
    BY DEF Init, CacheInit
  <1>2. CacheTypeOK
    BY <1>1, ConstantFacts, EmptySeq DEF CacheTypeOK
  <1>3. <<client, kind>> \in Scenarios
    <2>1. PICK s \in Scenarios : client = s[1] /\ kind = s[2]
      BY DEF Init
    <2>2. s \in {"sync", "async"} \X {"acct", "eap"}
      BY ExchangeAssumption
    <2> QED
      BY <2>1, <2>2
  <1>4. TypeOK
    <2>1. delay \in DelayLists /\ saved \in DelayLists /\ original \in Delays /\ sends \in Nat
      BY DelaysAreLists DEF Init
    <2> QED
      BY <1>1, <1>2, <1>3, <2>1, ConstantFacts DEF Init, TypeOK, Rounds
  <1>5. Unique(cached)
    BY <1>1 DEF Unique
  <1>6. RoundsTraced
    BY <1>1 DEF Init, RoundsTraced
  <1>7. Timely
    BY <1>1, ConstantFacts DEF Init, Timely
  <1> QED
    BY <1>1, <1>4, <1>5, <1>6, <1>7
        DEF Init, Inv, PacketKept, NothingBeforeStart, OneAccountingRound, RoundsAnswered,
            AnswersThisRound

\* send_packet up to its first wait.
LEMMA StartStep ==
    ASSUME HoldsAllReplies, Inv, Start
    PROVE  Inv'
  <1>1. /\ TypeOK /\ phase = "idle" /\ UNCHANGED <<inFlight, cached, now>>
        /\ UNCHANGED <<client, kind, round, attempt, delay, original, replies, handled, accepted>>
        /\ saved' = (IF BumpsDelay THEN delay ELSE Absent) /\ sends' = sends + 1
    BY DEF Inv, Start, cacheVars
  <1>2. attempt = 0 /\ delay = original /\ (~Steady => saved' = original)
    BY <1>1, SteadyOrBumped DEF Inv, NothingBeforeStart, PacketKept
  <1>3. saved' \in DelayLists /\ sends' \in Nat
    BY <1>1, DelaysAreLists DEF TypeOK
  <1>4. CASE phase' = "failed" /\ UNCHANGED <<net, deadline>>
    <2>1. TypeOK'
      BY <1>1, <1>3, <1>4 DEF TypeOK, CacheTypeOK
    <2> QED
      BY <1>1, <1>2, <1>4, <2>1
          DEF Inv, PacketKept, Steady, NothingBeforeStart, OneAccountingRound, RoundsTraced,
              OfRound, KeyOf, Correlator, RoundsAnswered, AnswersThisRound, Timely, Unique
  <1>5. CASE phase' = "waiting" /\ Transmit(round, delay, 0)
    <2>1. round \in Rounds /\ delay \in DelayLists /\ 0 \in 0..Retries /\ now \in Nat
          /\ round \in Nat
      BY <1>1, TypeFacts, ConstantFacts
    <2>2. /\ net' \subseteq [key: Key, round: Rounds, until: Nat]
          /\ \A m \in net' : m \in net \/ /\ m.key = Correlator(round, delay)
                                          /\ m.round = round
                                          /\ m.until = now + MaxDelay
          /\ deadline' \in Nat /\ now <= deadline' /\ deadline' <= now + MaxWait
      BY <1>5, <2>1, TransmitFacts
    <2>3. TypeOK'
      BY <1>1, <1>3, <1>5, <2>2 DEF TypeOK, CacheTypeOK
    <2>4. RoundsTraced'
      <3>1. Correlator(round, delay) \in Correlators
        BY <2>1, CorrelatorType
      <3>2. ASSUME NEW m \in net' PROVE OfRound(m.key, m.round)'
        <4>1. CASE m \in net
          BY <1>1, <4>1 DEF Inv, RoundsTraced, OfRound, Steady, KeyOf, Correlator
        <4>2. CASE m \notin net
          <5>1. m.key \in Correlators /\ m.round \in 0..round' /\ m.key = Correlator(m.round, original)
            BY <1>1, <1>2, <2>1, <2>2, <3>1, <4>2
          <5> QED
            BY <1>1, <5>1 DEF OfRound, KeyOf, Correlator
        <4> QED
          BY <4>1, <4>2
      <3> QED
        BY <1>1, <3>2 DEF Inv, RoundsTraced, OfRound, Steady, KeyOf, Correlator
    <2>5. Timely'
      BY <1>1, <1>2, <1>5, <2>1, <2>2, ConstantFacts DEF Inv, Timely
    <2>6. PacketKept'
      BY <1>1, <1>2, <1>5 DEF PacketKept, Steady
    <2> QED
      BY <1>1, <1>5, <2>3, <2>4, <2>5, <2>6
          DEF Inv, NothingBeforeStart, OneAccountingRound, RoundsAnswered, AnswersThisRound,
              Unique
  <1> QED
    BY <1>4, <1>5 DEF Start

\* A retransmission, which may change an Accounting-Request of Client.
LEMMA RetransmitStep ==
    ASSUME HoldsAllReplies, Inv, Retransmit
    PROVE  Inv'
  <1>1. /\ TypeOK /\ phase = "waiting" /\ now >= deadline /\ attempt + 1 < Transmissions
        /\ attempt' = attempt + 1 /\ delay' = Bump(delay, attempt)
        /\ Transmit(round, delay', attempt + 1)
        /\ UNCHANGED <<inFlight, cached, now>>
        /\ UNCHANGED <<client, kind, phase, round, saved, original, sends, replies, handled, accepted>>
    BY DEF Inv, Retransmit, cacheVars
  <1>2. round \in Rounds /\ round \in Nat /\ delay \in DelayLists /\ now \in Nat
    BY <1>1, TypeFacts
  <1>3. attempt \in 0..Retries /\ attempt + 1 \in 0..Retries
    BY <1>1, TypeFacts, ConstantFacts DEF Transmissions
  <1>4. Steady => delay' = delay
    BY <1>1, SteadyOrBumped DEF Bump
  <1>5. delay' \in DelayLists
    BY <1>1, <1>2, <1>3, BumpType
  <1>6. /\ net' \subseteq [key: Key, round: Rounds, until: Nat]
        /\ \A m \in net' : m \in net \/ /\ m.key = Correlator(round, delay')
                                        /\ m.round = round
                                        /\ m.until = now + MaxDelay
        /\ deadline' \in Nat /\ now <= deadline' /\ deadline' <= now + MaxWait
    <2>1. ASSUME NEW d \in DelayLists, d = delay'
          PROVE  /\ net' \subseteq [key: Key, round: Rounds, until: Nat]
                 /\ \A m \in net' : m \in net \/ /\ m.key = Correlator(round, d)
                                                 /\ m.round = round
                                                 /\ m.until = now + MaxDelay
                 /\ deadline' \in Nat /\ now <= deadline' /\ deadline' <= now + MaxWait
      <3>1. Transmit(round, d, attempt + 1)
        BY <1>1, <2>1 DEF Transmit
      <3> QED
        BY <1>2, <1>3, <3>1, TransmitFacts
    <2> QED
      BY <1>5, <2>1
  <1>7. TypeOK'
    BY <1>1, <1>3, <1>5, <1>6, ConstantFacts DEF TypeOK, CacheTypeOK
  <1>8. PacketKept'
    BY <1>1, <1>4 DEF Inv, PacketKept, Steady
  <1>9. RoundsTraced'
    <2>1. ASSUME NEW m \in net' PROVE OfRound(m.key, m.round)'
      <3>1. CASE m \in net
        BY <1>1, <3>1 DEF Inv, RoundsTraced, OfRound, Steady, KeyOf, Correlator
      <3>2. CASE m \notin net
        <4>1. m.key = Correlator(round, delay') /\ m.round = round
          BY <1>6, <3>2
        <4>2. Steady => delay' = original
          BY <1>4 DEF Inv, PacketKept
        <4>3. m.key \in Correlators
          BY <1>2, <1>5, <4>1, CorrelatorType
        <4> QED
          BY <1>1, <1>2, <4>1, <4>2, <4>3 DEF OfRound, Steady, KeyOf, Correlator
      <3> QED
        BY <3>1, <3>2
    <2> QED
      BY <1>1, <2>1 DEF Inv, RoundsTraced, OfRound, Steady, KeyOf, Correlator
  <1>10. Timely'
    BY <1>1, <1>2, <1>3, <1>6, ConstantFacts DEF Inv, Timely
  <1> QED
    BY <1>1, <1>7, <1>8, <1>9, <1>10
        DEF Inv, NothingBeforeStart, OneAccountingRound, RoundsAnswered, AnswersThisRound, Unique

\* The call ends, with a timeout, an exception or a reply.
LEMMA EndStep ==
    ASSUME Inv, GiveUp \/ RetransmitRaises \/ \E rep \in replies : AcceptFinal(rep)
    PROVE  Inv'
  <1>1. /\ TypeOK /\ phase = "waiting" /\ phase' \in {"failed", "done"} /\ delay' = original
        /\ UNCHANGED <<inFlight, cached, now>>
        /\ UNCHANGED <<client, kind, round, attempt, saved, original, sends, deadline, net,
                       replies, handled>>
    <2>1. /\ TypeOK /\ phase = "waiting" /\ phase' \in {"failed", "done"}
          /\ UNCHANGED <<inFlight, cached, now>>
          /\ UNCHANGED <<client, kind, round, attempt, saved, original, sends, deadline, net,
                         replies, handled>>
      BY DEF Inv, GiveUp, RetransmitRaises, AcceptFinal, cacheVars
    <2>2. delay' = Restored(delay) \/ delay' = Restored(Bump(delay, attempt))
      BY DEF GiveUp, RetransmitRaises, AcceptFinal
    <2>3. Steady => Bump(delay, attempt) = delay
      BY <2>1, SteadyOrBumped DEF Bump
    <2>4. Restored(delay) = original /\ Restored(Bump(delay, attempt)) = original
      BY <2>1, <2>3, RestoredFacts
    <2> QED
      BY <2>1, <2>2, <2>4
  <1>2. \A a \in accepted' : \/ a \in accepted
                             \/ \E rep \in replies : /\ Verifies(rep)
                                                     /\ a = [mine |-> round, answers |-> rep.round]
    BY DEF GiveUp, RetransmitRaises, AcceptFinal
  <1>3. \A rep \in replies : rep.round \in Rounds
    <2>1. round \in Rounds
      BY <1>1, TypeFacts
    <2>2. \A rep \in replies : rep.round \in 0..round
      BY DEF Inv, RoundsTraced, OfRound
    <2> QED
      BY <2>1, <2>2, ConstantFacts DEF Rounds
  <1>4. TypeOK'
    <2>1. accepted' \subseteq [mine: Rounds, answers: Rounds]
      BY <1>1, <1>2, <1>3 DEF TypeOK
    <2>2. delay' \in DelayLists
      BY <1>1, TypeFacts
    <2> QED
      BY <1>1, <2>1, <2>2 DEF TypeOK, CacheTypeOK
  <1>5. RoundsAnswered'
    BY <1>1, <1>2, VerifiedAnswers DEF Inv, RoundsAnswered, AnswersThisRound
  <1>6. PacketKept' /\ NothingBeforeStart' /\ OneAccountingRound' /\ Unique(cached)'
    BY <1>1 DEF Inv, PacketKept, NothingBeforeStart, OneAccountingRound, Unique
  <1>7. RoundsTraced' /\ Timely'
    BY <1>1 DEF Inv, RoundsTraced, OfRound, Steady, KeyOf, Correlator, Timely
  <1> QED
    BY <1>4, <1>5, <1>6, <1>7 DEF Inv

\* The application sends its Accounting-Request again.
LEMMA SendAgainStep ==
    ASSUME Inv, SendAgain
    PROVE  Inv' /\ ~Steady
  <1>1. /\ TypeOK /\ phase \in {"done", "failed"} /\ BumpsDelay /\ phase' = "idle" /\ attempt' = 0
        /\ UNCHANGED <<inFlight, cached, now>>
        /\ UNCHANGED <<client, kind, round, delay, saved, original, sends, deadline, net, replies,
                       handled, accepted>>
    BY DEF Inv, SendAgain, cacheVars
  <1>2. ~Steady /\ delay = original
    BY <1>1, SteadyOrBumped DEF Inv, PacketKept
  <1>3. TypeOK'
    BY <1>1, ConstantFacts DEF TypeOK, CacheTypeOK
  <1>4. RoundsTraced' /\ Timely'
    BY <1>1, ConstantFacts DEF Inv, RoundsTraced, OfRound, Steady, KeyOf, Correlator, Timely
  <1> QED
    BY <1>1, <1>2, <1>3, <1>4
        DEF Inv, PacketKept, Steady, NothingBeforeStart, OneAccountingRound, RoundsAnswered,
            AnswersThisRound, Unique

\* A challenge is answered by a new round.
LEMMA ChallengeStep ==
    ASSUME HoldsAllReplies, Inv, NEW rep \in replies, AcceptChallenge(rep)
    PROVE  Inv'
  <1>1. /\ TypeOK /\ phase = "waiting" /\ Verifies(rep) /\ kind = "eap" /\ round <= MaxRounds
        /\ round' = round + 1 /\ attempt' = 0 /\ Transmit(round + 1, delay, 0)
        /\ accepted' = accepted \union {[mine |-> round, answers |-> rep.round]}
        /\ UNCHANGED <<inFlight, cached, now>>
        /\ UNCHANGED <<client, kind, phase, delay, saved, original, sends, replies, handled>>
    BY DEF Inv, AcceptChallenge, IsChallenge, cacheVars
  <1>2. /\ round \in Rounds /\ round \in Nat /\ now \in Nat /\ 0 \in 0..Retries
        /\ delay \in DelayLists /\ delay = original /\ Steady
    BY <1>1, TypeFacts, ConstantFacts DEF Inv, PacketKept, Steady
  <1>3. round + 1 \in Rounds
    BY <1>1, <1>2, ConstantFacts DEF Rounds
  <1>4. /\ net' \subseteq [key: Key, round: Rounds, until: Nat]
        /\ \A m \in net' : m \in net \/ /\ m.key = Correlator(round + 1, delay)
                                        /\ m.round = round + 1
                                        /\ m.until = now + MaxDelay
        /\ deadline' \in Nat /\ now <= deadline' /\ deadline' <= now + MaxWait
    BY <1>1, <1>2, <1>3, TransmitFacts
  <1>5. rep.round \in Rounds
    <2>1. rep.round \in 0..round
      BY DEF Inv, RoundsTraced, OfRound
    <2> QED
      BY <1>2, <2>1, ConstantFacts DEF Rounds
  <1>6. TypeOK'
    BY <1>1, <1>2, <1>3, <1>4, <1>5, ConstantFacts DEF TypeOK, CacheTypeOK
  <1>7. RoundsAnswered'
    BY <1>1, VerifiedAnswers DEF Inv, RoundsAnswered, AnswersThisRound
  <1>8. RoundsTraced'
    <2>1. ASSUME NEW k, NEW n, OfRound(k, n) PROVE OfRound(k, n)'
      BY <1>1, <1>2, <2>1 DEF OfRound, Steady, KeyOf, Correlator
    <2>2. ASSUME NEW k, NEW n, k = Correlator(round + 1, delay), n = round + 1
          PROVE  OfRound(k, n)'
      <3>1. n \in 0..round' /\ k = Correlator(n, original) /\ k \in Correlators
        BY <1>1, <1>2, <2>2, CorrelatorType
      <3> QED
        BY <1>1, <3>1 DEF OfRound, KeyOf, Correlator
    <2>3. ASSUME NEW m \in net' PROVE OfRound(m.key, m.round)'
      <3>1. CASE m \in net
        BY <2>1, <3>1 DEF Inv, RoundsTraced
      <3>2. CASE m \notin net
        BY <1>4, <2>2, <3>2
      <3> QED
        BY <3>1, <3>2
    <2>4. ASSUME NEW n \in Rounds, n > round' PROVE handled'[n] = 0
      <3>1. n \in Nat
        BY <1>1, TypeFacts
      <3>2. n > round
        BY <1>1, <1>2, <2>4, <3>1
      <3> QED
        BY <1>1, <3>2 DEF Inv, RoundsTraced
    <2> QED
      BY <1>1, <2>1, <2>3, <2>4 DEF Inv, RoundsTraced
  <1>9. Timely'
    BY <1>1, <1>2, <1>4, ConstantFacts DEF Inv, Timely
  <1> QED
    BY <1>1, <1>2, <1>6, <1>7, <1>8, <1>9
        DEF Inv, PacketKept, NothingBeforeStart, OneAccountingRound, Unique, Steady

\* A duplicate is answered from the cache.
LEMMA ServeDuplicateStep ==
    ASSUME Inv, NEW m \in net, ServeDuplicate(m)
    PROVE  Inv'
  <1>1. /\ TypeOK /\ Hit(m.key) /\ LookupEffect(m.key)
        /\ replies' = replies \union {LookupResult(m.key)}
        /\ UNCHANGED <<inFlight, now>>
        /\ UNCHANGED <<client, kind, phase, round, attempt, delay, saved, original, sends,
                       deadline, net, handled, accepted>>
    BY DEF Inv, ServeDuplicate, LookupEffect, clientVars
  <1>2. CacheTypeOK /\ Unique(cached) /\ \A i \in DOMAIN cached : cached[i] \in Entry
    BY <1>1, TypeFacts DEF Inv
  <1>3. cached' \in Seq(Entry) /\ Within(cached', cached) /\ Unique(cached')
    BY <1>1, <1>2, LookupEffectFacts
  <1>4. PICK i \in DOMAIN cached : LookupResult(m.key) = cached[i].raw
    <2>1. Has(cached, m.key)
      BY <1>1, <1>2, LookupResultType
    <2> QED
      BY <1>1, <2>1, IndexOfFacts DEF LookupResult
  <1>5. cached[i].raw \in Raw
    BY <1>2 DEF Entry
  <1>6. TypeOK'
    BY <1>1, <1>3, <1>4, <1>5 DEF TypeOK, CacheTypeOK
  <1>7. RoundsTraced'
    <2>1. ASSUME NEW k, NEW n PROVE OfRound(k, n)' <=> OfRound(k, n)
      BY <1>1 DEF OfRound, Steady, KeyOf, Correlator
    <2>2. ASSUME NEW rep \in replies' PROVE OfRound(rep.key, rep.round)
      BY <1>1, <1>4 DEF Inv, RoundsTraced
    <2>3. ASSUME NEW n \in DOMAIN cached'
          PROVE  /\ OfRound(cached'[n].key, cached'[n].raw.round)
                 /\ cached'[n].raw.key = cached'[n].key
      BY <1>3 DEF Within, Inv, RoundsTraced
    <2>4. \A n \in DOMAIN cached' : /\ OfRound(cached[n].key, cached[n].raw.round)'
                                    /\ cached'[n].raw.key = cached'[n].key
      BY <1>1, <2>3 DEF OfRound, Steady, KeyOf, Correlator
    <2> QED
      BY <1>1, <2>1, <2>2, <2>4 DEF Inv, RoundsTraced
  <1> QED
    BY <1>1, <1>3, <1>6, <1>7
        DEF Inv, PacketKept, Steady, NothingBeforeStart, OneAccountingRound, RoundsAnswered,
            AnswersThisRound, Timely

\* The handler runs, and its reply is recorded.
LEMMA ServeFreshStep ==
    ASSUME HoldsAllReplies, Inv, NEW m \in net, ServeFresh(m)
    PROVE  Inv'
  <1> DEFINE r == [key |-> m.key, round |-> m.round]
             e == [key |-> m.key, raw |-> r, exp |-> now + TTL]
  <1>1. /\ TypeOK /\ RecordReply(m.key, r, now + TTL) /\ now' = now
        /\ inFlight' = inFlight \ {m.key}
        /\ replies' = replies \union {r} /\ handled' = [handled EXCEPT ![m.round] = @ + 1]
        /\ UNCHANGED <<client, kind, phase, round, attempt, delay, saved, original, sends,
                       deadline, net, accepted>>
    BY DEF Inv, ServeFresh, RecordReply, clientVars
  <1>2. /\ CacheTypeOK /\ Unique(cached) /\ now + TTL \in Nat
        /\ m.key \in Key /\ m.round \in Rounds /\ round \in Nat
    BY <1>1, TypeFacts, ConstantFacts DEF Inv
  <1>3. OfRound(m.key, m.round)
    BY DEF Inv, RoundsTraced
  <1>4. r \in Raw
    <2>1. r \in [key: Correlators, round: Rounds]
      BY <1>2, <1>3 DEF OfRound
    <2> QED
      BY <2>1 DEF HoldsAllReplies
  <1>5. r.key = m.key /\ r.round = m.round /\ e.key = m.key /\ e.raw = r
    OBVIOUS
  <1> HIDE DEF r
  <1>6. /\ cached' \in Seq(Entry) /\ Unique(cached')
        /\ \A i \in DOMAIN cached' : cached'[i] = e \/ \E j \in DOMAIN cached : cached'[i] = cached[j]
    <2>1. cached' \in Seq(Entry) /\ Unique(cached')
      BY <1>1, <1>2, <1>4, RecordReplyFacts
    <2>2. \A i \in DOMAIN cached' : \/ cached'[i] = e
                                   \/ \E j \in DOMAIN cached : cached'[i] = cached[j]
      <3>1. \A i \in DOMAIN cached' :
                \/ cached'[i] = [key |-> m.key, raw |-> r, exp |-> now + TTL]
                \/ cached'[i].key # m.key /\ \E j \in DOMAIN cached : cached'[i] = cached[j]
        BY <1>1, <1>2, <1>4, RecordReplyEntries
      <3> QED
        BY <3>1, Zenon
    <2> QED
      BY <2>1, <2>2
  <1> HIDE DEF e
  <1>7. TypeOK'
    <2>1. CacheTypeOK'
      BY <1>1, <1>2, <1>6 DEF CacheTypeOK
    <2>2. handled' \in [Rounds -> Nat]
      <3>1. handled \in [Rounds -> Nat]
        BY <1>1 DEF TypeOK
      <3>2. handled[m.round] + 1 \in Nat
        BY <1>2, <3>1
      <3> QED
        BY <1>1, <3>1, <3>2
    <2> QED
      BY <1>1, <1>4, <2>1, <2>2 DEF TypeOK
  <1>8. RoundsTraced'
    <2>1. ASSUME NEW k, NEW n PROVE OfRound(k, n)' <=> OfRound(k, n)
      BY <1>1 DEF OfRound, Steady, KeyOf, Correlator
    <2>2. ASSUME NEW rep \in replies' PROVE OfRound(rep.key, rep.round)
      BY <1>1, <1>3, <1>5 DEF Inv, RoundsTraced
    <2>3. ASSUME NEW n \in DOMAIN cached'
          PROVE  /\ OfRound(cached'[n].key, cached'[n].raw.round)
                 /\ cached'[n].raw.key = cached'[n].key
      BY <1>3, <1>5, <1>6 DEF Inv, RoundsTraced
    <2>4. \A n \in DOMAIN cached' : /\ OfRound(cached[n].key, cached[n].raw.round)'
                                    /\ cached'[n].raw.key = cached'[n].key
      BY <1>1, <2>3 DEF OfRound, Steady, KeyOf, Correlator
    <2>5. ASSUME NEW n \in Rounds, n > round' PROVE handled'[n] = 0
      <3>1. m.round \in 0..round /\ n # m.round
        BY <1>1, <1>2, <1>3, <2>5 DEF OfRound
      <3>2. handled'[n] = handled[n]
        BY <1>1, <3>1 DEF TypeOK
      <3> QED
        BY <1>1, <2>5, <3>2 DEF Inv, RoundsTraced
    <2> QED
      BY <1>1, <2>1, <2>2, <2>4, <2>5 DEF Inv, RoundsTraced
  <1> QED
    BY <1>1, <1>6, <1>7, <1>8
        DEF Inv, PacketKept, Steady, NothingBeforeStart, OneAccountingRound, RoundsAnswered,
            AnswersThisRound, Timely

\* Time passes.
LEMMA ElapseStep ==
    ASSUME Inv, Elapse
    PROVE  Inv'
  <1>1. /\ TypeOK /\ phase # "idle" /\ ~(phase = "waiting" /\ now >= deadline)
        /\ now < MaxNow /\ now' = now + 1 /\ UNCHANGED <<inFlight, cached>>
        /\ UNCHANGED <<client, kind, phase, round, attempt, delay, saved, original, sends,
                       deadline, net, replies, handled, accepted>>
    BY DEF Inv, Elapse, Tick, clientVars
  <1>2. now \in Nat /\ deadline \in Nat /\ \A m \in net : m.until \in Nat
    BY <1>1, TypeFacts
  <1>3. TypeOK'
    BY <1>1, <1>2, ConstantFacts DEF TypeOK, CacheTypeOK
  <1>4. Timely'
    BY <1>1, <1>2, ConstantFacts DEF Inv, Timely
  <1>5. RoundsTraced'
    BY <1>1 DEF Inv, RoundsTraced, OfRound, Steady, KeyOf, Correlator
  <1> QED
    BY <1>1, <1>3, <1>4, <1>5
        DEF Inv, PacketKept, Steady, NothingBeforeStart, OneAccountingRound, RoundsAnswered,
            AnswersThisRound, Unique

\* Every step keeps the invariant.
LEMMA InvStep ==
    ASSUME HoldsAllReplies, Inv, [Next]_vars
    PROVE  Inv'
  <1>1. CASE UNCHANGED vars
    BY <1>1 DEF vars, Inv, TypeOK, CacheTypeOK, Unique, PacketKept, Steady, NothingBeforeStart,
        OneAccountingRound, RoundsTraced, OfRound, KeyOf, Correlator, RoundsAnswered,
        AnswersThisRound, Timely
  <1> QED
    BY <1>1, StartStep, RetransmitStep, EndStep, SendAgainStep, ChallengeStep, ServeDuplicateStep,
       ServeFreshStep, ElapseStep DEF Next

\* The invariant holds of every state of an exchange.
LEMMA ExchangeInvariant ==
    ASSUME HoldsAllReplies
    PROVE  Spec => []Inv
  BY InvInit, InvStep, PTL DEF Spec

-----------------------------------------------------------------------------
(* The handler runs once. *)

\* The waits that are left to a round.
LEMMA WaitsLeft ==
    ASSUME NEW b \in Nat, NEW a \in 0..b, NEW w \in Nat
    PROVE  /\ (b - a) * w \in Int
           /\ (b - a) * w <= b * w
           /\ (b - (a + 1)) * w = (b - a) * w - w
           /\ a < b => w <= (b - a) * w
  OBVIOUS

\* What a round can still put into the network is gone before a reply that is
\* recorded now; the next transmission is among it.
LEMMA LastCopyFacts ==
    ASSUME RepliesOutliveRequests, Inv
    PROVE  /\ LastCopy \in Int
           /\ LastCopy < now + TTL
           /\ attempt < Retries => deadline + MaxDelay <= LastCopy
           /\ \A m \in net : m.until < now + TTL
  <1>1. /\ now \in Nat /\ deadline \in Nat /\ attempt \in 0..Retries
        /\ \A m \in net : m.until \in Nat /\ m.until <= now + MaxDelay
        /\ deadline <= now + MaxWait
    BY TypeFacts DEF Inv, Timely
  <1> DEFINE left == (Retries - attempt) * MaxWait
             whole == Retries * MaxWait
  <1>2. left \in Int /\ whole \in Nat /\ left <= whole /\ (attempt < Retries => MaxWait <= left)
    BY <1>1, WaitsLeft, ConstantFacts
  <1>3. LastCopy = deadline + left - MaxWait + MaxDelay
    BY DEF LastCopy
  <1>4. whole + MaxDelay < TTL
    BY DEF RepliesOutliveRequests
  <1> HIDE DEF left, whole
  <1> QED
    BY <1>1, <1>2, <1>3, <1>4, ConstantFacts

\* A dictionary with one entry per round fits into the cache.
LEMMA EntriesFit ==
    ASSUME RepliesOutliveRequests, NEW d \in Seq(Entry), Unique(d),
           \A i \in DOMAIN d : \E n \in Rounds : d[i].key = KeyOf(n)
    PROVE  Len(d) <= MaxEntries
  <1>1. Len(d) \in Nat /\ DOMAIN d = 1..Len(d)
    BY LenProperties
  <1>2. MaxRounds + 2 \in Nat /\ MaxRounds + 2 <= MaxEntries /\ MaxEntries \in Nat
    BY ConstantFacts, CacheAssumption DEF RepliesOutliveRequests
  <1>3. IsFiniteSet(Rounds) /\ Cardinality(Rounds) = MaxRounds + 2
    BY ConstantFacts, FS_Interval DEF Rounds
  <1>4. IsFiniteSet(1..Len(d)) /\ Cardinality(1..Len(d)) = Len(d)
    <2>1. PICK k \in Nat : k = Len(d)
      BY <1>1
    <2>2. IsFiniteSet(1..k) /\ Cardinality(1..k) = IF 1 > k THEN 0 ELSE k - 1 + 1
      BY FS_Interval
    <2> QED
      BY <2>1, <2>2
  <1> SUFFICES ASSUME Len(d) > MaxEntries PROVE FALSE
    BY <1>1, <1>2
  <1> DEFINE f == [i \in 1..Len(d) |-> CHOOSE n \in Rounds : d[i].key = KeyOf(n)]
  <1>5. \A i \in 1..Len(d) : f[i] \in Rounds /\ d[i].key = KeyOf(f[i])
    BY <1>1, Zenon
  <1>6. f \in [1..Len(d) -> Rounds]
    BY <1>5
  <1> HIDE DEF f
  <1>7. Cardinality(Rounds) < Cardinality(1..Len(d))
    BY <1>1, <1>2, <1>3, <1>4
  <1>8. PICK x, y \in 1..Len(d) : x # y /\ f[x] = f[y]
    BY <1>3, <1>4, <1>6, <1>7, FS_PigeonHole
  <1>9. d[x].key = d[y].key
    BY <1>5, <1>8
  <1> QED
    BY <1>1, <1>8, <1>9 DEF Unique

\* What the cache covers stays covered when it keeps its entries.
LEMMA CoveredKept ==
    ASSUME TypeOK, NEW n, NEW u \in Int, NEW v \in Int, v <= u, Covered(n, u),
           UNCHANGED <<client, kind, original>>, now' \in {now, now + 1},
           \A i \in DOMAIN cached : \E j \in DOMAIN cached' : cached'[j] = cached[i]
    PROVE  Covered(n, v)'
  <1>1. now \in Nat /\ \A i \in DOMAIN cached : cached[i] \in Entry
    BY TypeFacts
  <1>2. KeyOf(n)' = KeyOf(n)
    BY DEF KeyOf, Correlator
  <1>3. CASE u < now
    BY <1>1, <1>3 DEF Covered
  <1>4. CASE \E i \in DOMAIN cached : cached[i].key = KeyOf(n) /\ cached[i].exp > u
    <2>1. PICK i \in DOMAIN cached : cached[i].key = KeyOf(n) /\ cached[i].exp > u
      BY <1>4
    <2>2. PICK j \in DOMAIN cached' : cached'[j] = cached[i]
      OBVIOUS
    <2>3. cached[i].exp \in Nat
      BY <1>1 DEF Entry
    <2>4. cached'[j].key = KeyOf(n)' /\ cached'[j].exp > v
      BY <1>2, <2>1, <2>2, <2>3
    <2> QED
      BY <2>4 DEF Covered
  <1> QED
    BY <1>3, <1>4 DEF Covered

\* A copy or a wait that the client adds is covered by what covered its round.
LEMMA CoveredByClient ==
    ASSUME HoldsAllReplies, RepliesOutliveRequests, Inv, HandledCovered,
           Start \/ Retransmit \/ RetransmitRaises \/ GiveUp \/ SendAgain
           \/ \E rep \in replies : AcceptFinal(rep) \/ AcceptChallenge(rep)
    PROVE  HandledCovered' /\ handled' = handled
  <1>1. /\ UNCHANGED <<inFlight, cached, now>> /\ UNCHANGED <<client, kind, original, handled>>
        /\ TypeOK /\ now \in Nat /\ round \in Nat /\ Rounds \subseteq Nat /\ round \in Rounds
        /\ delay \in DelayLists
    BY TypeFacts DEF Start, Retransmit, RetransmitRaises, GiveUp, SendAgain, AcceptFinal,
        AcceptChallenge, Inv, cacheVars
  <1> SUFFICES ASSUME Steady'
               PROVE  /\ \A m \in net' : handled[m.round] > 0 => Covered(m.round, m.until)'
                      /\ phase' = "waiting" /\ handled[round'] > 0 =>
                            \A n \in Rounds : n = round' => Covered(n, LastCopy)'
    <2>1. round' \in Rounds
      BY <1>1, InvStep DEF Next, Inv, TypeOK
    <2> QED
      BY <1>1, <2>1 DEF HandledCovered, Covered, KeyOf, Correlator
  <1>2. Steady
    BY <1>1 DEF Steady
  <1>3. ASSUME NEW n, NEW u \in Int, NEW v \in Int, v <= u, Covered(n, u) PROVE Covered(n, v)'
    BY <1>1, <1>3, CoveredKept
  <1>4. LastCopy \in Int /\ (attempt < Retries => deadline + MaxDelay <= LastCopy)
    BY LastCopyFacts
  <1>5. \A m \in net : m.until \in Int /\ (handled[m.round] > 0 => Covered(m.round, m.until))
    BY <1>1, <1>2, TypeFacts DEF HandledCovered
  <1>6. ASSUME NEW m \in net, handled[m.round] > 0 PROVE Covered(m.round, m.until)'
    BY <1>3, <1>5, <1>6
  <1>7. CASE Start
    <2>1. (\A n \in Rounds : handled[n] = 0) /\ round' = round
      BY <1>2, <1>7 DEF Inv, Start, NothingBeforeStart
    <2>2. \A m \in net' : m.round \in Rounds
      BY <1>7, StartStep DEF Inv, TypeOK
    <2>3. \A n \in Rounds : ~(handled[n] > 0)
      BY <2>1
    <2> QED
      BY <1>1, <2>1, <2>2, <2>3, Zenon
  <1>8. CASE Retransmit
    <2>1. /\ phase = "waiting" /\ now >= deadline /\ attempt + 1 < Transmissions
          /\ attempt' = attempt + 1 /\ round' = round
          /\ Transmit(round, delay', attempt + 1)
      BY <1>8 DEF Retransmit
    <2>2. /\ attempt \in 0..Retries /\ attempt < Retries /\ attempt + 1 \in 0..Retries
          /\ deadline \in Nat /\ now = deadline
      BY <1>1, <2>1, TypeFacts, ConstantFacts DEF Inv, Timely, Transmissions
    <2>3. deadline' \in Nat /\ deadline' <= deadline + MaxWait
      BY <1>1, <1>8, <2>2, RetransmitStep DEF Inv, TypeOK, Timely
    <2>4. handled[round] > 0 => Covered(round, LastCopy)
      BY <1>2, <2>1 DEF HandledCovered
    <2>5. ASSUME NEW m \in net', handled[m.round] > 0 PROVE Covered(m.round, m.until)'
      <3>1. CASE m \in net
        BY <1>6, <2>5, <3>1
      <3>2. CASE m \notin net
        <4>1. m.round = round /\ m.until = now + MaxDelay
          BY <2>1, <3>2 DEF Transmit
        <4>2. m.until \in Int /\ m.until <= LastCopy
          BY <1>1, <1>4, <2>2, <4>1, ConstantFacts
        <4> QED
          BY <1>3, <1>4, <2>4, <2>5, <4>1, <4>2
      <3> QED
        BY <3>1, <3>2
    <2>6. ASSUME handled[round] > 0, NEW v, v = LastCopy' PROVE Covered(round, v)'
      <3> DEFINE left == (Retries - attempt) * MaxWait
                 less == (Retries - (attempt + 1)) * MaxWait
      <3>1. left \in Int /\ less = left - MaxWait
        BY <2>2, WaitsLeft, ConstantFacts
      <3>2. LastCopy = deadline + left - MaxWait + MaxDelay
            /\ v = deadline' + less - MaxWait + MaxDelay
        BY <2>1, <2>6 DEF LastCopy
      <3> HIDE DEF left, less
      <3>3. v \in Int /\ v <= LastCopy
        <4>1. v - LastCopy = deadline' - deadline - MaxWait
          BY <2>2, <2>3, <3>1, <3>2, ConstantFacts
        <4>2. v \in Int
          BY <2>2, <2>3, <3>1, <3>2, ConstantFacts
        <4>3. deadline' - deadline - MaxWait <= 0
          <5>1. \A x, y, w \in Nat : x <= y + w => x - y - w <= 0
            OBVIOUS
          <5>2. deadline' \in Nat /\ deadline \in Nat /\ MaxWait \in Nat /\ deadline' <= deadline + MaxWait
            BY <2>2, <2>3, ConstantFacts
          <5> QED
            BY <5>1, <5>2
        <4>4. LastCopy \in Int
          BY <1>4
        <4> QED
          BY <4>1, <4>2, <4>3, <4>4
      <3> QED
        BY <1>3, <1>4, <2>1, <2>4, <2>6, <3>3
    <2> QED
      BY <2>1, <2>5, <2>6 DEF Covered
  <1>9. CASE GiveUp \/ RetransmitRaises \/ \E rep \in replies : AcceptFinal(rep)
    BY <1>6, <1>9 DEF GiveUp, RetransmitRaises, AcceptFinal
  <1>10. ASSUME NEW rep \in replies, AcceptChallenge(rep)
         PROVE  /\ \A m \in net' : handled[m.round] > 0 => Covered(m.round, m.until)'
                /\ handled[round'] = 0
    <2>1. round' = round + 1 /\ round + 1 \in Rounds /\ Transmit(round + 1, delay, 0)
      BY <1>1, <1>10, ConstantFacts DEF AcceptChallenge, Rounds
    <2>2. handled[round + 1] = 0
      BY <1>1, <2>1 DEF Inv, RoundsTraced
    <2>3. ASSUME NEW m \in net', handled[m.round] > 0 PROVE m \in net
      BY <2>1, <2>2, <2>3 DEF Transmit
    <2> QED
      BY <1>6, <2>1, <2>2, <2>3
  <1>11. CASE SendAgain
    BY <1>2, <1>11, SendAgainStep
  <1> QED
    BY <1>7, <1>8, <1>9, <1>10, <1>11

\* Answering a duplicate and the passing of time uncover nothing.
LEMMA CoveredByServer ==
    ASSUME RepliesOutliveRequests, Inv, HandledCovered,
           UNCHANGED vars \/ Elapse \/ \E m \in net : ServeDuplicate(m)
    PROVE  HandledCovered' /\ handled' = handled
  <1>1. /\ UNCHANGED <<client, kind, original, handled, net, phase, round, attempt, deadline>>
        /\ now' \in {now, now + 1}
    BY DEF vars, Elapse, ServeDuplicate, LookupEffect, Tick, clientVars
  <1>2. /\ TypeOK /\ CacheTypeOK /\ cached \in Seq(Entry) /\ Unique(cached)
        /\ \A m \in net : m.until \in Int
    BY TypeFacts DEF Inv
  <1>3. \A i \in DOMAIN cached : \E j \in DOMAIN cached' : cached'[j] = cached[i]
    <2>1. CASE UNCHANGED cached
      BY <2>1
    <2>2. ASSUME NEW m \in net, ServeDuplicate(m) PROVE Within(cached, cached')
      <3>1. Hit(m.key) /\ cached' = MoveToEnd(cached, m.key)
        BY <2>2 DEF ServeDuplicate, LookupEffect
      <3>2. Has(cached, m.key)
        BY <1>2, <3>1, LookupResultType
      <3> QED
        BY <1>2, <3>1, <3>2, MoveToEndKeeps
    <2> QED
      BY <2>1, <2>2 DEF Within, vars, Elapse, Tick
  <1>4. ASSUME NEW n, NEW u \in Int, Covered(n, u) PROVE Covered(n, u)'
    BY <1>1, <1>2, <1>3, <1>4, CoveredKept
  <1>5. LastCopy \in Int /\ LastCopy' = LastCopy
    BY <1>1, LastCopyFacts DEF LastCopy
  <1> SUFFICES ASSUME Steady' PROVE HandledCovered'
    BY <1>1 DEF HandledCovered
  <1>6. Steady
    BY <1>1 DEF Steady
  <1>7. ASSUME NEW m \in net', handled'[m.round] > 0 PROVE Covered(m.round, m.until)'
    BY <1>1, <1>2, <1>4, <1>6, <1>7 DEF HandledCovered
  <1>8. ASSUME phase' = "waiting", handled'[round'] > 0 PROVE Covered(round, LastCopy)'
    <2>1. ASSUME NEW n, n = round, NEW u, u = LastCopy PROVE Covered(n, u)'
      <3>1. Covered(n, u)
        BY <1>1, <1>6, <1>8, <2>1 DEF HandledCovered
      <3> QED
        BY <1>4, <1>5, <2>1, <3>1
    <2> QED
      BY <1>1, <1>5, <2>1 DEF Covered
  <1> QED
    BY <1>7, <1>8 DEF HandledCovered

\* The handler runs only for a round that has not been handled, and its reply
\* covers all that can come of the rounds so far; no reply that lives makes way.
LEMMA CoveredByHandler ==
    ASSUME HoldsAllReplies, RepliesOutliveRequests, Inv, HandledCovered, Steady,
           NEW m \in net, ServeFresh(m)
    PROVE  HandledCovered' /\ handled[m.round] = 0
  <1> DEFINE r == [key |-> m.key, round |-> m.round]
             e == [key |-> m.key, raw |-> r, exp |-> now + TTL]
             p == PutAtEnd(cached, m.key, e)
  <1>1. /\ RecordReply(m.key, r, now + TTL) /\ now' = now /\ ~Hit(m.key) /\ now <= m.until
        /\ UNCHANGED <<client, kind, phase, round, attempt, original, deadline, net>>
    BY DEF ServeFresh, RecordReply, clientVars
  <1>2. /\ TypeOK /\ CacheTypeOK /\ cached \in Seq(Entry) /\ Unique(cached)
        /\ now \in Nat /\ now + TTL \in Nat /\ now + TTL > now
        /\ m.key \in Key /\ m.round \in Rounds /\ m.until \in Nat /\ round \in Rounds
        /\ \A i \in DOMAIN cached : cached[i] \in Entry
    BY TypeFacts, ConstantFacts DEF Inv
  <1>3. OfRound(m.key, m.round) /\ m.key = KeyOf(m.round)
    BY DEF Inv, RoundsTraced, OfRound
  <1>4. handled[m.round] = 0
    <2> SUFFICES ASSUME handled[m.round] # 0 PROVE FALSE
      OBVIOUS
    <2>1. handled[m.round] > 0
      BY <1>2 DEF TypeOK
    <2>2. Covered(m.round, m.until)
      BY <2>1 DEF HandledCovered
    <2>3. PICK i \in DOMAIN cached : cached[i].key = m.key /\ cached[i].exp > m.until
      BY <1>1, <1>2, <1>3, <2>2 DEF Covered
    <2>4. cached[i].exp \in Nat
      BY <1>2 DEF Entry
    <2> QED
      BY <1>1, <1>2, <2>3, <2>4 DEF Hit
  <1>5. r \in Raw /\ e \in Entry /\ e.key = m.key /\ e.exp = now + TTL
    <2>1. r \in [key: Correlators, round: Rounds]
      BY <1>2, <1>3 DEF OfRound
    <2> QED
      BY <1>2, <2>1 DEF HoldsAllReplies, Entry
  <1> HIDE DEF r, e
  <1>6. Len(p) <= MaxEntries
    <2>1. p \in Seq(Entry) /\ Within(p, Append(cached, e)) /\ Unique(p)
      BY <1>2, <1>5, PutAtEndFacts
    <2>2. ASSUME NEW i \in DOMAIN Append(cached, e)
          PROVE  \E n \in Rounds : Append(cached, e)[i].key = KeyOf(n)
      <3>1. /\ Len(cached) \in Nat /\ DOMAIN cached = 1..Len(cached)
            /\ DOMAIN Append(cached, e) = 1..(Len(cached) + 1)
            /\ \A n \in 1..Len(cached) : Append(cached, e)[n] = cached[n]
            /\ Append(cached, e)[Len(cached) + 1] = e
        BY <1>2, <1>5, AppendProperties, LenProperties
      <3>2. CASE i = Len(cached) + 1
        BY <1>2, <1>3, <1>5, <3>1, <3>2
      <3>3. CASE i # Len(cached) + 1
        <4>1. i \in DOMAIN cached /\ Append(cached, e)[i] = cached[i]
          BY <3>1, <3>3
        <4>2. OfRound(cached[i].key, cached[i].raw.round)
          BY <4>1 DEF Inv, RoundsTraced
        <4>3. cached[i].raw.round \in Rounds
          BY <1>2, <4>2, ConstantFacts DEF OfRound, Rounds
        <4> QED
          BY <4>1, <4>2, <4>3 DEF OfRound
      <3> QED
        BY <3>2, <3>3
    <2>3. \A i \in DOMAIN p : \E n \in Rounds : p[i].key = KeyOf(n)
      BY <2>1, <2>2 DEF Within
    <2> HIDE DEF p
    <2> QED
      BY <2>1, <2>3, EntriesFit
  <1>7. /\ \E i \in DOMAIN cached' : cached'[i] = e
        /\ \A j \in DOMAIN cached : cached[j].key # m.key /\ cached[j].exp > now =>
              \E i \in DOMAIN cached' : cached'[i] = cached[j]
    BY <1>1, <1>2, <1>5, <1>6, RecordReplyKeeps DEF e
  <1> HIDE DEF p
  <1>8. \A n : KeyOf(n)' = KeyOf(n)
    BY <1>1 DEF KeyOf, Correlator
  <1>9. ASSUME NEW n, NEW u \in Int, u < now + TTL, Covered(n, u) \/ n = m.round
        PROVE  Covered(n, u)'
    <2>1. CASE u < now
      BY <1>1, <2>1 DEF Covered
    <2>2. CASE m.key = KeyOf(n)
      BY <1>5, <1>7, <1>8, <1>9, <2>2 DEF Covered
    <2>3. CASE u >= now /\ m.key # KeyOf(n)
      <3>1. PICK j \in DOMAIN cached : cached[j].key = KeyOf(n) /\ cached[j].exp > u
        BY <1>2, <1>3, <1>9, <2>3 DEF Covered
      <3>2. cached[j].exp \in Nat
        BY <1>2 DEF Entry
      <3>3. \E i \in DOMAIN cached' : cached'[i] = cached[j]
        BY <1>2, <1>7, <2>3, <3>1, <3>2
      <3> QED
        BY <1>8, <3>1, <3>3 DEF Covered
    <2> QED
      BY <1>2, <2>1, <2>2, <2>3
  <1>10. LastCopy \in Int /\ LastCopy' = LastCopy /\ LastCopy < now + TTL
    BY <1>1, LastCopyFacts DEF LastCopy
  <1>11. \A n \in Rounds : handled'[n] > 0 => handled[n] > 0 \/ n = m.round
    BY <1>2 DEF ServeFresh, TypeOK
  <1>12. ASSUME NEW c \in net', handled'[c.round] > 0 PROVE Covered(c.round, c.until)'
    <2>1. c \in net /\ c.until \in Int /\ c.until < now + TTL /\ c.round \in Rounds
      BY <1>1, <1>2, LastCopyFacts, TypeFacts
    <2> QED
      BY <1>9, <1>11, <1>12, <2>1 DEF HandledCovered
  <1>13. ASSUME phase' = "waiting", handled'[round'] > 0 PROVE Covered(round, LastCopy)'
    <2>1. ASSUME NEW n, n = round, NEW u, u = LastCopy PROVE Covered(n, u)'
      <3>1. Covered(n, u) \/ n = m.round
        BY <1>1, <1>2, <1>11, <1>13, <2>1 DEF HandledCovered
      <3> QED
        BY <1>9, <1>10, <2>1, <3>1
    <2> QED
      BY <1>1, <1>10, <2>1 DEF Covered
  <1> QED
    BY <1>4, <1>12, <1>13 DEF HandledCovered

-----------------------------------------------------------------------------
(* Theorems. *)

\* The cache, the packet, the network and the histories stay within their types.
THEOREM ExchangeTypeCorrect ==
    ASSUME HoldsAllReplies
    PROVE  Spec => []TypeOK
  <1>1. Inv => TypeOK
    BY DEF Inv
  <1> QED
    BY <1>1, ExchangeInvariant, PTL

\* However often the application sends its packet, and however the retries of
\* each call end - by a reply, a timeout or an exception - the packet has after
\* the call the Acct-Delay-Time the application gave it: the snapshot that
\* send_packet took is put back, or the attribute the retries made is deleted.
THEOREM ExchangeRestoresPacket ==
    ASSUME HoldsAllReplies
    PROVE  Spec => []CallerPacketRestored
  <1>1. Inv => CallerPacketRestored
    BY DEF Inv, PacketKept, CallerPacketRestored
  <1> QED
    BY <1>1, ExchangeInvariant, PTL

\* A client that renews its correlator in every EAP round, as ClientAsync does,
\* takes no reply of an earlier round for the answer to this one.
THEOREM ExchangeAnswersThisRound ==
    ASSUME HoldsAllReplies, <<"sync", "eap">> \notin Scenarios
    PROVE  Spec => []AnswersThisRound
  <1>1. Inv => AnswersThisRound
    BY DEF Inv, TypeOK, RoundsAnswered
  <1> QED
    BY <1>1, ExchangeInvariant, PTL

\* "Your handler runs exactly once": a cache whose replies outlive the copies of
\* their requests, and has room for them, lets the handler run at most once
\* per round, whatever is lost, duplicated, delayed or sent again.
THEOREM ExchangeHandledOnce ==
    ASSUME HoldsAllReplies, RepliesOutliveRequests
    PROVE  Spec => []HandledOnce
  <1>1. Init => HandledCovered /\ HandledOnce
    BY DEF Init, HandledCovered, HandledOnce
  <1>2. Inv /\ HandledCovered /\ HandledOnce /\ [Next]_vars => HandledCovered' /\ HandledOnce'
    <2> SUFFICES ASSUME Inv, HandledCovered, HandledOnce, [Next]_vars
                 PROVE  HandledCovered' /\ HandledOnce'
      OBVIOUS
    <2>1. UNCHANGED <<client, kind>>
      BY DEF Next, vars, Start, Retransmit, RetransmitRaises, GiveUp, SendAgain, AcceptFinal,
          AcceptChallenge, ServeDuplicate, ServeFresh, Elapse, clientVars
    <2>2. CASE \/ UNCHANGED vars \/ Start \/ Retransmit \/ RetransmitRaises \/ GiveUp
               \/ SendAgain \/ Elapse
               \/ \E rep \in replies : AcceptFinal(rep) \/ AcceptChallenge(rep)
               \/ \E m \in net : ServeDuplicate(m)
      <3>1. HandledCovered' /\ handled' = handled
        BY <2>2, CoveredByClient, CoveredByServer
      <3> QED
        BY <2>1, <3>1 DEF HandledOnce
    <2>3. ASSUME NEW m \in net, ServeFresh(m)
          PROVE  HandledCovered' /\ HandledOnce'
      <3>1. CASE ~Steady
        BY <2>1, <3>1 DEF Steady, HandledCovered, HandledOnce
      <3>2. CASE Steady
        <4>1. HandledCovered' /\ handled[m.round] = 0
          BY <2>3, <3>2, CoveredByHandler
        <4>2. handled' = [handled EXCEPT ![m.round] = @ + 1] /\ handled \in [Rounds -> Nat]
          BY <2>3 DEF ServeFresh, Inv, TypeOK
        <4>3. \A n \in Rounds : handled'[n] <= 1
          BY <3>2, <4>1, <4>2 DEF HandledOnce, Steady
        <4> QED
          BY <4>1, <4>3 DEF HandledOnce
      <3> QED
        BY <3>1, <3>2
    <2> QED
      BY <2>2, <2>3 DEF Next
  <1> QED
    BY <1>1, <1>2, ExchangeInvariant, PTL DEF Spec

=============================================================================
