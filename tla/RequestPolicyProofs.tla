------------------------ MODULE RequestPolicyProofs ------------------------
(***************************************************************************)
(* Theorems about what the servers do with a datagram and the client with  *)
(* the reply: the properties of RequestPolicy hold for every combination   *)
(* of flags, whichever of the two servers there are.                       *)
(***************************************************************************)
EXTENDS RequestPolicy, TLAPS

\* Before a datagram has arrived nothing has happened.
NothingBeforeArrival ==
    /\ stage = "arrived" <=> dgram # NoDatagram
    /\ stage = "arrived" => dgram \in Datagram
    /\ \A s \in Servers : outcome[s] # "none" => stage = "arrived"

\* What a sender with the secret can have sent: a request of a pyrad2 client.
SentByClient ==
    stage = "arrived" /\ dgram.secret =>
        /\ dgram.code \in RequestCode
        /\ dgram.ma \in {"none", RequestMac(dgram.code)}
        /\ cfg.enforce /\ dgram.code = "AccessRequest" => dgram.ma # "none"
        /\ dgram.eap => dgram.code = "AccessRequest"

\* Each server's outcome is a function of datagram, flags and listener.
Passes == dgram.shape = "ok" /\ VerifyRequest(dgram) /\ MacPolicy(dgram)

OutcomeDetermined ==
    \A s \in Servers :
        /\ outcome[s] \in Handler =>
              Passes /\ outcome[s] \in Handlers(s, port, dgram.code)
        /\ outcome[s] = "status" =>
              dgram.shape = "ok" /\ IsStatus(dgram) /\ MacPolicy(dgram)
        /\ outcome[s] = "dropped" =>
              \/ dgram.shape # "ok"
              \/ ~MacPolicy(dgram)
              \/ ~IsStatus(dgram)
                    /\ (Handlers(s, port, dgram.code) = {} \/ ~VerifyRequest(dgram))

\* How a reply came about; only a keyed one is in the cache.
Produced(s, code, eap, byHand) ==
    /\ reply[s] = Encoded(dgram, code, eap, byHand)
    /\ \/ outcome[s] = "status" /\ code = StatusCode /\ ~byHand
       \/ outcome[s] \in Handler /\ code \in Answers(outcome[s])
    /\ eap => dgram.eap
    /\ cached[s] = IF Keyed(dgram.code, byHand) THEN {reply[s]} ELSE {}

RepliesProduced ==
    \A s \in Servers : reply[s] # NoReply =>
        \E code \in ReplyCode, eap, byHand \in BOOLEAN : Produced(s, code, eap, byHand)

NoReplyNoCache ==
    \A s \in Servers :
        /\ outcome[s] \in {"none", "dropped"} => reply[s] = NoReply
        /\ reply[s] = NoReply => cached[s] = {}

VerdictsExplained ==
    \A s \in Servers : verdict[s] = "ignored" =>
        stage = "arrived" /\ dgram.secret /\ reply[s] # NoReply /\ ~VerifyReply(reply[s])

Inv ==
    /\ TypeOK
    /\ NothingBeforeArrival
    /\ SentByClient
    /\ OutcomeDetermined
    /\ RepliesProduced
    /\ NoReplyNoCache
    /\ VerdictsExplained

-----------------------------------------------------------------------------

\* The codes are distinct strings, and no handler is an outcome of its own.
LEMMA Disjoint ==
    /\ {"none", "dropped", "status"} \intersect Handler = {}
    /\ "none" \notin RequestCode \union ReplyCode
    /\ NoDatagram \notin Datagram
    /\ NoReply \notin Reply
  <1>1. {"none", "dropped", "status"} \intersect Handler = {}
    BY DEF Handler
  <1>2. "none" \notin RequestCode \union ReplyCode
    BY DEF RequestCode, BodyMacRequest, ReplyCode, AccessReply
  <1>3. \A d \in Datagram : d.code # "none"
    BY <1>2 DEF Datagram
  <1>4. \A r \in Reply : r.code # "none"
    BY <1>2 DEF Reply
  <1>5. NoDatagram \notin Datagram
    BY <1>3 DEF NoDatagram
  <1>6. NoReply \notin Reply
    BY <1>4 DEF NoReply
  <1> QED
    BY <1>1, <1>2, <1>5, <1>6

\* An encoded reply is a reply.
LEMMA EncodedType ==
    ASSUME NEW d, NEW code \in ReplyCode, NEW eap \in BOOLEAN, NEW byHand \in BOOLEAN
    PROVE  Encoded(d, code, eap, byHand) \in Reply
  BY DEF Encoded, Reply, ReplyMac

\* Handlers are handlers, and their answers are replies.
LEMMA HandlersType ==
    ASSUME NEW s, NEW p, NEW code
    PROVE  Handlers(s, p, code) \subseteq Handler
  BY DEF Handlers, SyncHandlers, AsyncHandlers, Handler

LEMMA InvInit == Init => Inv
  <1> SUFFICES ASSUME Init PROVE Inv
    OBVIOUS
  <1>1. TypeOK
    BY DEF Init, TypeOK
  <1>2. NothingBeforeArrival /\ SentByClient
    BY DEF Init, NothingBeforeArrival, SentByClient
  <1>3. OutcomeDetermined
    BY DEF Init, OutcomeDetermined, Handler
  <1>4. RepliesProduced /\ NoReplyNoCache /\ VerdictsExplained
    BY DEF Init, RepliesProduced, NoReplyNoCache, VerdictsExplained
  <1> QED
    BY <1>1, <1>2, <1>3, <1>4 DEF Inv

\* The datagram arrives: nothing that Inv says of outcomes is touched.
LEMMA ArrivalStep ==
    ASSUME Inv, stage = "idle", stage' = "arrived", dgram' \in Datagram,
           UNCHANGED <<cfg, port, outcome, reply, cached, verdict>>, SentByClient'
    PROVE  Inv'
  <1>1. \A s \in Servers : outcome[s] = "none" /\ reply[s] = NoReply /\ verdict[s] # "ignored"
    BY DEF Inv, NothingBeforeArrival, NoReplyNoCache, VerdictsExplained
  <1>2. TypeOK'
    BY DEF Inv, TypeOK
  <1>3. NothingBeforeArrival'
    BY <1>1, Disjoint DEF NothingBeforeArrival
  <1>4. OutcomeDetermined'
    BY <1>1, Disjoint DEF OutcomeDetermined
  <1>5. RepliesProduced' /\ NoReplyNoCache' /\ VerdictsExplained'
    BY <1>1 DEF Inv, RepliesProduced, NoReplyNoCache, VerdictsExplained
  <1> QED
    BY <1>2, <1>3, <1>4, <1>5 DEF Inv

LEMMA ClientSendsStep ==
    ASSUME Inv, NEW code \in RequestCode, NEW eap \in BOOLEAN, NEW marked \in BOOLEAN,
           ClientSends(code, eap, marked)
    PROVE  Inv'
  <1>1. RequestMac(code) \in {"zeros", "own"}
    BY DEF RequestMac
  <1>2. dgram' \in Datagram
    BY <1>1 DEF ClientSends, Datagram
  <1>3. dgram'.code = code /\ dgram'.ma \in {"none", RequestMac(code)}
        /\ (RequestCarriesMac(code, eap, marked) => dgram'.ma = RequestMac(code))
    BY DEF ClientSends
  <1>4. SentByClient'
    BY <1>1, <1>3 DEF SentByClient, ClientSends, RequestCarriesMac, RequestCode, BodyMacRequest
  <1> QED
    BY <1>2, <1>4, ArrivalStep DEF ClientSends

LEMMA StrayStep ==
    ASSUME Inv, NEW d \in Datagram, StrayArrives(d)
    PROVE  Inv'
  BY ArrivalStep DEF StrayArrives, SentByClient

\* A server disposes of the datagram without a reply.
LEMMA DisposalStep ==
    ASSUME Inv, NEW s \in Servers, Dispatch(s) \/ DropDatagram(s)
    PROVE  Inv'
  <1>1. PICK x \in Handler \union {"dropped"} : outcome' = [outcome EXCEPT ![s] = x]
    BY HandlersType DEF Dispatch, DropDatagram
  <1>2. Waiting(s) /\ UNCHANGED <<cfg, port, dgram, stage, reply, cached, verdict>>
    BY DEF Dispatch, DropDatagram
  <1>3. TypeOK'
    BY <1>1, <1>2 DEF Inv, TypeOK
  <1>4. NothingBeforeArrival' /\ SentByClient'
    BY <1>1, <1>2 DEF Inv, TypeOK, NothingBeforeArrival, SentByClient, Waiting, RequestMac
  <1>5. OutcomeDetermined'
    <2>1. ASSUME NEW t \in Servers, t # s PROVE outcome'[t] = outcome[t]
      BY <1>1, <2>1 DEF Inv, TypeOK
    <2>2. outcome'[s] = x
      BY <1>1 DEF Inv, TypeOK
    <2>3. \A d : VerifyRequest(d)' = VerifyRequest(d) /\ MacPolicy(d)' = MacPolicy(d)
                 /\ IsStatus(d)' = IsStatus(d)
      BY <1>2 DEF VerifyRequest, MacPolicy, MacMissingAllowed, IsStatus
    <2>4. CASE Dispatch(s)
      BY <1>1, <1>2, <2>1, <2>2, <2>3, <2>4, Disjoint, HandlersType
      DEF OutcomeDetermined, Inv, Passes, Dispatch, TypeOK
    <2>5. CASE DropDatagram(s)
      BY <1>1, <1>2, <2>1, <2>2, <2>3, <2>5, Disjoint
      DEF OutcomeDetermined, Inv, Passes, DropDatagram, TypeOK
    <2> QED
      BY <2>4, <2>5
  <1>6. reply[s] = NoReply
    BY <1>2 DEF Inv, NoReplyNoCache, Waiting
  <1>7. RepliesProduced' /\ NoReplyNoCache' /\ VerdictsExplained'
    BY <1>1, <1>2, <1>6
    DEF RepliesProduced, NoReplyNoCache, VerdictsExplained, Inv, TypeOK, Produced, Encoded,
        ForcedMac, PreparedMac, StatusCode, VerifyReply, Keyed
  <1> QED
    BY <1>3, <1>4, <1>5, <1>7 DEF Inv

\* A reply is sent: the parts of Inv that do not depend on how it came about.
LEMMA ReplySent ==
    ASSUME Inv, NEW s \in Servers, NEW code \in ReplyCode, NEW eap \in BOOLEAN,
           NEW byHand \in BOOLEAN, eap => dgram.eap,
           reply[s] = NoReply, dgram # NoDatagram,
           SendResponse(s, Encoded(dgram, code, eap, byHand), Keyed(dgram.code, byHand)),
           UNCHANGED <<cfg, port, dgram, stage, verdict>>,
           outcome' \in [Servers -> Handler \union {"status"} \union {outcome[t] : t \in Servers}],
           \A t \in Servers \ {s} : outcome'[t] = outcome[t],
           \/ outcome'[s] = "status" /\ code = StatusCode /\ ~byHand
           \/ outcome'[s] \in Handler /\ code \in Answers(outcome'[s]),
           NothingBeforeArrival', OutcomeDetermined'
    PROVE  Inv'
  <1> DEFINE rep == Encoded(dgram, code, eap, byHand)
  <1>1. rep \in Reply
    BY EncodedType
  <1> HIDE DEF rep
  <1>2. /\ reply' = [reply EXCEPT ![s] = rep]
        /\ cached' = IF Keyed(dgram.code, byHand)
                     THEN [cached EXCEPT ![s] = @ \union {rep}] ELSE cached
    BY DEF SendResponse, rep
  <1>3. cached[s] = {}
    BY DEF Inv, NoReplyNoCache
  <1>4. /\ reply'[s] = rep
        /\ cached'[s] = IF Keyed(dgram.code, byHand) THEN {rep} ELSE {}
    BY <1>2, <1>3 DEF Inv, TypeOK
  <1>5. \A t \in Servers \ {s} : reply'[t] = reply[t] /\ cached'[t] = cached[t]
    BY <1>2 DEF Inv, TypeOK
  <1>6. TypeOK'
    <2>1. outcome' \in [Servers -> Handler \union {"none", "dropped", "status"}]
      BY DEF Inv, TypeOK
    <2>2. reply' \in [Servers -> Reply \union {NoReply}]
      BY <1>1, <1>2 DEF Inv, TypeOK
    <2>3. cached' \in [Servers -> SUBSET Reply]
      BY <1>1, <1>2 DEF Inv, TypeOK
    <2> QED
      BY <2>1, <2>2, <2>3 DEF Inv, TypeOK
  <1>7. SentByClient'
    BY DEF Inv, SentByClient
  <1>8. RepliesProduced'
    <2> SUFFICES ASSUME NEW t \in Servers, reply'[t] # NoReply
                 PROVE  (\E c \in ReplyCode, e, b \in BOOLEAN : Produced(t, c, e, b))'
      BY DEF RepliesProduced
    <2>1. \A c, e, b : Encoded(dgram, c, e, b)' = Encoded(dgram, c, e, b)
      BY DEF Encoded, ForcedMac, PreparedMac
    <2>2. CASE t = s
      <3>1. Produced(s, code, eap, byHand)'
        BY <1>4, <2>1 DEF Produced, StatusCode, rep
      <3> QED
        BY <3>1, <2>2
    <2>3. CASE t # s
      <3>1. PICK c \in ReplyCode, e \in BOOLEAN, b \in BOOLEAN : Produced(t, c, e, b)
        BY <1>5, <2>3 DEF Inv, RepliesProduced
      <3>2. Produced(t, c, e, b)'
        BY <1>5, <2>1, <2>3, <3>1 DEF Produced, StatusCode
      <3> QED
        BY <3>2
    <2> QED
      BY <2>2, <2>3
  <1>9. NoReplyNoCache'
    BY <1>1, <1>4, <1>5, Disjoint DEF Inv, NoReplyNoCache
  <1>10. VerdictsExplained'
    <2>1. verdict[s] # "ignored"
      BY DEF Inv, VerdictsExplained
    <2> QED
      BY <1>5, <2>1 DEF Inv, VerdictsExplained, VerifyReply
  <1> QED
    BY <1>6, <1>7, <1>8, <1>9, <1>10 DEF Inv

LEMMA AnswerStatusStep ==
    ASSUME Inv, NEW s \in Servers, AnswerStatus(s)
    PROVE  Inv'
  <1>1. StatusCode \in ReplyCode
    BY DEF StatusCode, ReplyCode, AccessReply
  <1>2. reply[s] = NoReply
    BY DEF AnswerStatus, Waiting, Inv, NoReplyNoCache
  <1>3. /\ outcome' = [outcome EXCEPT ![s] = "status"]
        /\ outcome'[s] = "status"
        /\ \A t \in Servers \ {s} : outcome'[t] = outcome[t]
        /\ outcome' \in [Servers -> Handler \union {"status"} \union {outcome[t] : t \in Servers}]
    BY DEF AnswerStatus, Inv, TypeOK
  <1>4. stage = "arrived" /\ dgram # NoDatagram
    BY DEF AnswerStatus, Waiting, Inv, NothingBeforeArrival
  <1>5. NothingBeforeArrival'
    BY <1>3, <1>4 DEF AnswerStatus, Inv, NothingBeforeArrival
  <1>6. OutcomeDetermined'
    <2>1. \A d : /\ VerifyRequest(d)' = VerifyRequest(d) /\ MacPolicy(d)' = MacPolicy(d)
                 /\ IsStatus(d)' = IsStatus(d)
      BY DEF AnswerStatus, VerifyRequest, MacPolicy, MacMissingAllowed, IsStatus
    <2> QED
      BY <1>3, <2>1, Disjoint DEF OutcomeDetermined, Inv, Passes, AnswerStatus
  <1> QED
    BY <1>1, <1>2, <1>3, <1>4, <1>5, <1>6, ReplySent DEF AnswerStatus

LEMMA HandlerRepliesStep ==
    ASSUME Inv, NEW s \in Servers, NEW code \in ReplyCode, NEW eap \in BOOLEAN,
           NEW byHand \in BOOLEAN, HandlerReplies(s, code, eap, byHand)
    PROVE  Inv'
  <1>1. outcome[s] \in Handler /\ dgram # NoDatagram
    BY Disjoint DEF HandlerReplies, Inv, NothingBeforeArrival
  <1>2. NothingBeforeArrival'
    BY DEF HandlerReplies, Inv, NothingBeforeArrival
  <1>3. OutcomeDetermined'
    <2>1. \A d : /\ VerifyRequest(d)' = VerifyRequest(d) /\ MacPolicy(d)' = MacPolicy(d)
                 /\ IsStatus(d)' = IsStatus(d)
      BY DEF HandlerReplies, VerifyRequest, MacPolicy, MacMissingAllowed, IsStatus
    <2> QED
      BY <2>1 DEF OutcomeDetermined, Inv, Passes, HandlerReplies
  <1>4. outcome' \in [Servers -> Handler \union {"status"} \union {outcome[t] : t \in Servers}]
    BY DEF HandlerReplies, Inv, TypeOK
  <1> QED
    BY <1>1, <1>2, <1>3, <1>4, ReplySent DEF HandlerReplies

LEMMA ClientReceivesStep ==
    ASSUME Inv, NEW s \in Servers, ClientReceives(s)
    PROVE  Inv'
  <1>1. PICK x \in {"accepted", "ignored"} :
            /\ verdict' = [verdict EXCEPT ![s] = x]
            /\ x = "ignored" => ~VerifyReply(reply[s])
    BY DEF ClientReceives
  <1>2. UNCHANGED <<cfg, port, dgram, stage, outcome, reply, cached>>
    BY DEF ClientReceives
  <1>3. stage = "arrived" /\ dgram.secret /\ reply[s] # NoReply
    BY DEF ClientReceives, Inv, NothingBeforeArrival, NoDatagram, TypeOK
  <1>4. TypeOK' /\ NothingBeforeArrival' /\ SentByClient' /\ NoReplyNoCache'
    BY <1>1, <1>2 DEF Inv, TypeOK, NothingBeforeArrival, SentByClient, NoReplyNoCache
  <1>5. OutcomeDetermined'
    BY <1>2 DEF Inv, OutcomeDetermined, Passes, VerifyRequest, MacPolicy, MacMissingAllowed, IsStatus
  <1>6. RepliesProduced'
    BY <1>2, SMTT(30) DEF Inv, RepliesProduced, Produced, Encoded, ForcedMac, PreparedMac, StatusCode
  <1>7. VerdictsExplained'
    BY <1>1, <1>2, <1>3 DEF Inv, VerdictsExplained, VerifyReply, TypeOK
  <1> QED
    BY <1>4, <1>5, <1>6, <1>7 DEF Inv

LEMMA InvStep == Inv /\ [Next]_vars => Inv'
  <1> SUFFICES ASSUME Inv, [Next]_vars PROVE Inv'
    OBVIOUS
  <1>1. CASE UNCHANGED vars
    BY <1>1 DEF vars, Inv, TypeOK, NothingBeforeArrival, SentByClient, OutcomeDetermined,
        Passes, VerifyRequest, MacPolicy, MacMissingAllowed, IsStatus, RepliesProduced,
        Produced, Encoded, ForcedMac, PreparedMac, StatusCode, NoReplyNoCache,
        VerdictsExplained, VerifyReply
  <1>2. ASSUME NEW code \in RequestCode, NEW eap \in BOOLEAN, NEW marked \in BOOLEAN,
               ClientSends(code, eap, marked)
        PROVE  Inv'
    BY <1>2, ClientSendsStep
  <1>3. ASSUME NEW d \in Datagram, StrayArrives(d) PROVE Inv'
    BY <1>3, StrayStep
  <1>4. ASSUME NEW s \in Servers, Dispatch(s) \/ DropDatagram(s) PROVE Inv'
    BY <1>4, DisposalStep
  <1>5. ASSUME NEW s \in Servers, AnswerStatus(s) PROVE Inv'
    BY <1>5, AnswerStatusStep
  <1>6. ASSUME NEW s \in Servers, ClientReceives(s) PROVE Inv'
    BY <1>6, ClientReceivesStep
  <1>7. ASSUME NEW s \in Servers, NEW code \in ReplyCode, NEW eap \in BOOLEAN,
               NEW byHand \in BOOLEAN, HandlerReplies(s, code, eap, byHand)
        PROVE  Inv'
    BY <1>7, HandlerRepliesStep
  <1> QED
    BY <1>1, <1>2, <1>3, <1>4, <1>5, <1>6, <1>7 DEF Next

-----------------------------------------------------------------------------
(* The theorems. *)

LEMMA PolicyInvariant == Spec => []Inv
  BY InvInit, InvStep, PTL DEF Spec

\* Every datagram, outcome, reply and verdict is of its kind, for every
\* configuration of client and server.
THEOREM PolicyTypeCorrect == Spec => []TypeOK
  <1>1. Inv => TypeOK
    BY DEF Inv
  <1> QED
    BY <1>1, PolicyInvariant, PTL

\* Server and ServerAsync cannot drift apart: whatever the datagram, the
\* listener and the flags, they do the same, Accounting-Responses on the
\* accounting port excepted.
THEOREM PolicyServersAgree == Spec => []ServersAgree
  <1>1. Inv => ServersAgree
    <2> SUFFICES ASSUME Inv, NEW s \in Servers, NEW t \in Servers,
                        outcome[s] # "none", outcome[t] # "none", outcome[s] # outcome[t],
                        ~(dgram.code = "AccountingResponse" /\ port = "acct")
                 PROVE  FALSE
      BY DEF ServersAgree
    <2>1. \A u \in Servers : Handlers(u, port, dgram.code) = AsyncHandlers(port, dgram.code)
      BY PolicyAssumption DEF Handlers, SyncHandlers, AsyncHandlers
    <2>2. \A x, y \in AsyncHandlers(port, dgram.code) : x = y
      BY DEF AsyncHandlers
    <2>3. IsStatus(dgram) => AsyncHandlers(port, dgram.code) = {}
      BY DEF IsStatus, AsyncHandlers
    <2>4. \A u \in Servers : outcome[u] \in Handler \union {"none", "dropped", "status"}
      BY DEF Inv, TypeOK
    <2> QED
      BY <2>1, <2>2, <2>3, <2>4 DEF Inv, OutcomeDetermined, Passes
  <1> QED
    BY <1>1, PolicyInvariant, PTL

\* With the default flags no handler of ServerAsync runs for a request whose
\* sender did not have the shared secret.
THEOREM PolicyAuthentic == Spec => []HandlersGetAuthenticRequests
  <1>1. Inv => HandlersGetAuthenticRequests
    <2> SUFFICES ASSUME Inv, cfg.verify, cfg.require, NEW s \in Servers \ {"sync"},
                        outcome[s] \in Handler
                 PROVE  dgram.secret
      BY DEF HandlersGetAuthenticRequests
    <2>1. VerifyRequest(dgram) /\ MacPolicy(dgram) /\ outcome[s] \in AsyncHandlers(port, dgram.code)
      BY DEF Inv, OutcomeDetermined, Passes, Handlers
    <2>2. dgram.code \in BodyMacRequest \union {"AccessRequest"}
      BY <2>1 DEF AsyncHandlers, BodyMacRequest
    <2>3. CASE dgram.code \in BodyMacRequest
      BY <2>1, <2>3 DEF VerifyRequest, BodyMacRequest
    <2>4. CASE dgram.code = "AccessRequest"
      BY <2>1, <2>4 DEF MacPolicy, MacMissingAllowed
    <2> QED
      BY <2>2, <2>3, <2>4
  <1> QED
    BY <1>1, PolicyInvariant, PTL

\* What one side computes of a Message-Authenticator the other side expects,
\* with the exceptions that RepliesVerify names.
THEOREM PolicyRepliesVerify == Spec => []RepliesVerify
  <1>1. Inv => RepliesVerify
    <2> SUFFICES ASSUME Inv, NEW s \in Servers, verdict[s] = "ignored"
                 PROVE  \/ cfg.enforce /\ ~cfg.require /\ cached[s] = {}
                        \/ /\ dgram.ma # "none"
                           /\ dgram.code \in {"CoARequest", "DisconnectRequest"}
      BY DEF RepliesVerify
    <2>1. /\ stage = "arrived" /\ dgram.secret /\ reply[s] # NoReply
          /\ ~VerifyReply(reply[s])
      BY DEF Inv, VerdictsExplained
    <2>2. PICK code \in ReplyCode, eap \in BOOLEAN, byHand \in BOOLEAN :
              Produced(s, code, eap, byHand)
      BY <2>1 DEF Inv, RepliesProduced
    <2>3. /\ dgram.code \in RequestCode /\ dgram.ma \in {"none", RequestMac(dgram.code)}
          /\ cfg.enforce /\ dgram.code = "AccessRequest" => dgram.ma # "none"
          /\ dgram.eap => dgram.code = "AccessRequest"
      BY <2>1 DEF Inv, SentByClient
    <2>4. /\ reply[s].code = code
          /\ reply[s].ma = IF ForcedMac(code, eap) \/ (~byHand /\ PreparedMac(dgram))
                           THEN ReplyMac(code, dgram.code) ELSE "none"
      BY <2>2 DEF Produced, Encoded
    <2>5. /\ dgram.code = "AccessRequest" => code \in AccessReply
          /\ code \in {"CoAACK", "CoANAK", "DisconnectACK", "DisconnectNAK"}
                => dgram.code \in {"CoARequest", "DisconnectRequest"}
      <3>1. CASE outcome[s] = "status"
        BY <2>2, <3>1, Disjoint DEF Produced, StatusCode, Inv, OutcomeDetermined, IsStatus
      <3>2. CASE outcome[s] \in Handler
        <4>1. outcome[s] \in Handlers(s, port, dgram.code)
          BY <3>2 DEF Inv, OutcomeDetermined
        <4>2. code \in Answers(outcome[s])
          BY <2>2, <3>2, Disjoint DEF Produced
        <4>3. /\ dgram.code = "AccessRequest" => outcome[s] = "auth"
              /\ outcome[s] \in {"coa", "disconnect"}
                    => dgram.code \in {"CoARequest", "DisconnectRequest"}
          BY <4>1 DEF Handlers, SyncHandlers, AsyncHandlers
        <4> QED
          BY <3>2, <4>2, <4>3 DEF Answers, Handler, AccessReply
      <3> QED
        BY <2>2, <3>1, <3>2 DEF Produced
    <2>6. CASE reply[s].ma = "none"
      <3>1. cfg.enforce /\ dgram.code = "AccessRequest"
        BY <2>1, <2>6 DEF VerifyReply
      <3>2. PreparedMac(dgram) /\ code \in AccessReply
        BY <2>3, <2>5, <3>1 DEF PreparedMac
      <3>3. ReplyMac(code, dgram.code) # "none"
        BY DEF ReplyMac
      <3>4. ~ForcedMac(code, eap) /\ byHand
        BY <2>4, <2>6, <3>2, <3>3
      <3> QED
        BY <2>2, <3>1, <3>2, <3>4 DEF ForcedMac, Produced, Keyed
    <2>7. CASE reply[s].ma # "none"
      <3>1. reply[s].ma = ReplyMac(code, dgram.code)
        BY <2>4, <2>7
      <3>2. ReplyMac(code, dgram.code) # ExpectedReplyMac(code, dgram.code)
        BY <2>1, <2>4, <2>7, <3>1 DEF VerifyReply
      <3>3. code \in {"CoAACK", "CoANAK", "DisconnectACK", "DisconnectNAK"}
        BY <3>2 DEF ReplyMac, ExpectedReplyMac, ReplyCode, AccessReply
      <3>4. dgram.code \in {"CoARequest", "DisconnectRequest"}
        BY <2>5, <3>3
      <3>5. ~dgram.eap /\ ~eap
        BY <2>2, <2>3, <3>4 DEF Produced
      <3>6. ForcedMac(code, eap) \/ PreparedMac(dgram)
        BY <2>4, <2>7
      <3> QED
        BY <3>3, <3>4, <3>5, <3>6 DEF ForcedMac, PreparedMac, AccessReply
    <2> QED
      BY <2>6, <2>7
  <1> QED
    BY <1>1, PolicyInvariant, PTL

\* Where the server requires it, every Access-Accept, -Reject and -Challenge
\* goes out with a Message-Authenticator over the Request Authenticator, and
\* every reply with EAP with one, also when a handler built it by hand.
THEOREM PolicyRepliesCarryMac == Spec => []AccessRepliesCarryMac
  <1>1. Inv => AccessRepliesCarryMac
    <2> SUFFICES ASSUME Inv, NEW s \in Servers
                 PROVE  /\ cfg.require /\ reply[s].code \in AccessReply => reply[s].ma = "request"
                        /\ cfg.requireEap /\ reply[s] # NoReply /\ reply[s].eap
                              => reply[s].ma # "none"
      BY DEF AccessRepliesCarryMac
    <2>1. CASE reply[s] = NoReply
      BY <2>1 DEF NoReply, AccessReply
    <2>2. CASE reply[s] # NoReply
      <3>1. PICK code \in ReplyCode, eap \in BOOLEAN, byHand \in BOOLEAN :
                Produced(s, code, eap, byHand)
        BY <2>2 DEF Inv, RepliesProduced
      <3>2. /\ reply[s].code = code /\ reply[s].eap = eap
            /\ ForcedMac(code, eap) => reply[s].ma = ReplyMac(code, dgram.code)
        BY <3>1 DEF Produced, Encoded
      <3> QED
        BY <2>2, <3>2 DEF ForcedMac, ReplyMac, AccessReply
    <2> QED
      BY <2>1, <2>2
  <1> QED
    BY <1>1, PolicyInvariant, PTL

=============================================================================
