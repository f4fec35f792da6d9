--------------------------- MODULE RequestPolicy ---------------------------
(***************************************************************************)
(* What happens to one datagram between a client and the handler of a UDP  *)
(* server, and to the reply on its way back: the policy of RequestRouter   *)
(* (router.py) as Server and ServerAsync call it, the Message-             *)
(* Authenticator rules of packet.py, and verify_reply in the client.       *)
(*                                                                         *)
(* Both servers get the same datagram, so that they can be compared.       *)
(*                                                                         *)
(* An HMAC is known by the authenticator it covers: sixteen zero bytes     *)
(* ("zeros"), the authenticator field of the packet itself ("own"), or the *)
(* authenticator of the request it answers ("request").  The MD5 of an     *)
(* authenticator field is known by whether its writer had the secret.      *)
(***************************************************************************)
EXTENDS FiniteSets

CONSTANT Servers    \* subset of {"sync", "async"}: Server and ServerAsync

ASSUME PolicyAssumption == Servers \subseteq {"sync", "async"}

VARIABLES
    cfg,        \* the flags of client and server
    port,       \* the listener the datagram arrives on
    dgram,      \* the datagram
    stage,      \* "idle" or "arrived"
    outcome,    \* outcome[s]: what server s did with it
    reply,      \* reply[s]: the reply it sent
    cached,     \* cached[s]: the replies it recorded for duplicates
    verdict     \* verdict[s]: what verify_reply made of the reply

vars == <<cfg, port, dgram, stage, outcome, reply, cached, verdict>>

Config == [enforce: BOOLEAN,      \* Client.enforce_ma
           require: BOOLEAN,      \* require_message_authenticator
           requireEap: BOOLEAN,   \* require_eap_message_authenticator
           verify: BOOLEAN]       \* enable_pkt_verify

BodyMacRequest == {"AccountingRequest", "CoARequest", "DisconnectRequest"}
RequestCode == BodyMacRequest \union {"AccessRequest", "StatusServer"}
AccessReply == {"AccessAccept", "AccessReject", "AccessChallenge"}
ReplyCode == AccessReply \union {"AccountingResponse", "CoAACK", "CoANAK",
                                 "DisconnectACK", "DisconnectNAK"}

Port == {"auth", "acct", "coa"}
Handler == {"auth", "acct", "coa", "disconnect"}

\* secret: its writer had the shared secret; zero: the authenticator field is
\* all zeros; shape: from an unknown host, malformed, or neither.
Datagram == [code: RequestCode \union ReplyCode, secret: BOOLEAN, zero: BOOLEAN,
             ma: {"none", "zeros", "own"}, eap: BOOLEAN,
             shape: {"ok", "unknown", "malformed"}]
Reply == [code: ReplyCode, ma: {"none", "zeros", "request"}, eap: BOOLEAN]

NoReply == [code |-> "none"]
NoDatagram == [code |-> "none"]

TypeOK ==
    /\ cfg \in Config
    /\ port \in Port
    /\ dgram \in Datagram \union {NoDatagram}
    /\ stage \in {"idle", "arrived"}
    /\ outcome \in [Servers -> Handler \union {"none", "dropped", "status"}]
    /\ reply \in [Servers -> Reply \union {NoReply}]
    /\ cached \in [Servers -> SUBSET Reply]
    /\ verdict \in [Servers -> {"none", "accepted", "ignored"}]

Init ==
    /\ cfg \in Config
    /\ port \in Port
    /\ dgram = NoDatagram
    /\ stage = "idle"
    /\ outcome = [s \in Servers |-> "none"]
    /\ reply = [s \in Servers |-> NoReply]
    /\ cached = [s \in Servers |-> {}]
    /\ verdict = [s \in Servers |-> "none"]

-----------------------------------------------------------------------------
(* Message-Authenticator: what it covers when written and when verified. *)

\* _refresh_message_authenticator; original is the code of the request that a
\* reply answers.  self.authenticator of a reply is the request's.
RequestMac(code) == IF code \in BodyMacRequest THEN "zeros" ELSE "own"
ReplyMacOwn(code, original) ==
    IF code = "AccountingResponse" /\ original # "StatusServer" THEN "zeros" ELSE "own"
ReplyMac(code, original) ==
    IF code = "AccountingResponse" /\ original # "StatusServer" THEN "zeros" ELSE "request"

\* verify_message_authenticator of a request, which has no original.
ExpectedRequestMac(code) ==
    IF code \in BodyMacRequest \union {"AccountingResponse"} THEN "zeros" ELSE "own"

\* verify_message_authenticator of a reply, with the request's authenticator
\* and code: every code without a case of its own takes the field of the
\* packet that is being verified.
ZerosForAccounting(code, original) ==
    IF code = "AccountingResponse" THEN "zeros"
    ELSE IF code \in AccessReply THEN "request"
    ELSE "own"
ExpectedReplyMac(code, original) ==
    IF code = "AccountingResponse" /\ original # "StatusServer" THEN "zeros"
    ELSE IF code \in AccessReply \union {"AccountingResponse"} THEN "request"
    ELSE "own"

-----------------------------------------------------------------------------
(* The client. *)

\* prepare_request_message_authenticator, on a packet the caller may have
\* built with message_authenticator=True (marked).
RequestCarriesMac(code, eap, marked) ==
    \/ marked
    \/ code = "StatusServer"
    \/ code = "AccessRequest" /\ (cfg.enforce \/ eap)

Listener(code) ==
    CASE code = "AccessRequest" -> {"auth"}
      [] code = "AccountingRequest" -> {"acct"}
      [] code = "StatusServer" -> {"auth", "acct"}
      [] OTHER -> {"coa"}

\* A pyrad2 client sends a request: Request Authenticators are random or
\* computed from the body, and Message-Authenticators are refreshed.
ClientSends(code, eap, marked) ==
    /\ stage = "idle"
    /\ port \in Listener(code)
    /\ eap => code = "AccessRequest"
    /\ dgram' = [code |-> code, secret |-> TRUE, zero |-> FALSE,
                 ma |-> IF RequestCarriesMac(code, eap, marked)
                        THEN RequestMac(code) ELSE "none",
                 eap |-> eap, shape |-> "ok"]
    /\ stage' = "arrived"
    /\ UNCHANGED <<cfg, port, outcome, reply, cached, verdict>>

\* Any other datagram, from a sender that does not have the secret.
StrayArrives(d) ==
    /\ stage = "idle"
    /\ ~d.secret
    /\ dgram' = d
    /\ stage' = "arrived"
    /\ UNCHANGED <<cfg, port, outcome, reply, cached, verdict>>

-----------------------------------------------------------------------------
(* The router. *)

\* verify_request: what a code's authenticator field allows to check.
VerifyRequest(d) ==
    \/ ~cfg.verify
    \/ d.code = "AccessRequest" /\ ~d.zero
    \/ d.code \in BodyMacRequest /\ d.secret
    \/ d.code \notin BodyMacRequest \union {"AccessRequest"}

MacMissingAllowed(d) ==
    /\ d.code # "StatusServer"
    /\ d.code = "AccessRequest" => ~cfg.require
    /\ d.eap => ~cfg.requireEap

\* validate_message_authenticator_policy.
PresenceOnly(d) == d.ma # "none" \/ MacMissingAllowed(d)
MacPolicy(d) ==
    IF d.ma = "none" THEN MacMissingAllowed(d)
    ELSE d.secret /\ d.ma = ExpectedRequestMac(d.code)

\* Server: _handle_auth_packet, _handle_acct_packet and _handle_coa_packet.
SyncHandlers(p, code) ==
    CASE p = "auth" /\ code = "AccessRequest" -> {"auth"}
      [] p = "acct" /\ code \in {"AccountingRequest", "AccountingResponse"} -> {"acct"}
      [] p = "coa" /\ code = "CoARequest" -> {"coa"}
      [] p = "coa" /\ code = "DisconnectRequest" -> {"disconnect"}
      [] OTHER -> {}

AsyncHandlersByPort(p, code) ==
    CASE p = "auth" /\ code = "AccessRequest" -> {"auth"}
      [] p = "acct" /\ code = "AccountingRequest" -> {"acct"}
      [] p = "coa" /\ code \in {"CoARequest", "DisconnectRequest"} -> {"coa"}
      [] OTHER -> {}

\* ServerAsync: reject_response_codes, gate_code and _select_handler.
AsyncHandlers(p, code) ==
    CASE p = "auth" /\ code = "AccessRequest" -> {"auth"}
      [] p = "acct" /\ code = "AccountingRequest" -> {"acct"}
      [] p = "coa" /\ code = "CoARequest" -> {"coa"}
      [] p = "coa" /\ code = "DisconnectRequest" -> {"disconnect"}
      [] OTHER -> {}

Handlers(s, p, code) ==
    IF s = "sync" THEN SyncHandlers(p, code) ELSE AsyncHandlers(p, code)

\* Both answer Status-Server before anything else is checked, but its MAC.
IsStatus(d) == d.code = "StatusServer" /\ port # "coa"

Waiting(s) == stage = "arrived" /\ outcome[s] = "none"

\* The request passes and its handler is entered (consult_cache: PROCESS).
Dispatch(s) ==
    /\ Waiting(s)
    /\ dgram.shape = "ok"
    /\ VerifyRequest(dgram)
    /\ MacPolicy(dgram)
    /\ \E h \in Handlers(s, port, dgram.code) : outcome' = [outcome EXCEPT ![s] = h]
    /\ UNCHANGED <<cfg, port, dgram, stage, reply, cached, verdict>>

\* An exception of the router: the datagram is dropped and logged.
DropDatagram(s) ==
    /\ Waiting(s)
    /\ \/ dgram.shape # "ok"
       \/ ~MacPolicy(dgram)
       \/ ~IsStatus(dgram) /\ (Handlers(s, port, dgram.code) = {} \/ ~VerifyRequest(dgram))
    /\ outcome' = [outcome EXCEPT ![s] = "dropped"]
    /\ UNCHANGED <<cfg, port, dgram, stage, reply, cached, verdict>>

-----------------------------------------------------------------------------
(* Replies. *)

\* create_reply_packet runs prepare_reply_message_authenticator; a handler
\* that calls pkt.create_reply itself (byHand) skips it.  Before the bytes go
\* out, force_reply_ma looks at the reply once more.
PreparedMac(d) ==
    \/ cfg.require /\ d.code = "AccessRequest"
    \/ d.ma # "none"
    \/ cfg.requireEap /\ d.eap
NeverForced(code, eap) == FALSE
ForcedMac(code, eap) ==
    \/ cfg.require /\ code \in AccessReply
    \/ cfg.requireEap /\ eap

Encoded(d, code, eap, byHand) ==
    [code |-> code, eap |-> eap,
     ma |-> IF ForcedMac(code, eap) \/ (~byHand /\ PreparedMac(d))
            THEN ReplyMac(code, d.code) ELSE "none"]

\* key_for and attach_dedup_key: the reply carries the key of its request if
\* the code is one that is de-duplicated and create_reply_packet made it.
Keyed(code, byHand) == ~byHand /\ code \in BodyMacRequest \union {"AccessRequest"}

\* send_reply_packet / send_response.
SendResponse(s, rep, keyed) ==
    /\ reply' = [reply EXCEPT ![s] = rep]
    /\ cached' = IF keyed THEN [cached EXCEPT ![s] = @ \union {rep}] ELSE cached

StatusCode == IF port = "acct" THEN "AccountingResponse" ELSE "AccessAccept"

\* _handle_status_packet / _handle_status_server.
AnswerStatus(s) ==
    /\ Waiting(s)
    /\ dgram.shape = "ok"
    /\ IsStatus(dgram)
    /\ MacPolicy(dgram)
    /\ outcome' = [outcome EXCEPT ![s] = "status"]
    /\ SendResponse(s, Encoded(dgram, StatusCode, FALSE, FALSE), Keyed(dgram.code, FALSE))
    /\ UNCHANGED <<cfg, port, dgram, stage, verdict>>

\* The codes a handler answers with; the default handlers of ServerAsync send
\* the NAK.
Answers(h) ==
    CASE h = "auth" -> AccessReply
      [] h = "acct" -> {"AccountingResponse"}
      [] h = "coa" -> {"CoAACK", "CoANAK"}
      [] h = "disconnect" -> {"DisconnectACK", "DisconnectNAK"}

HandlerReplies(s, code, eap, byHand) ==
    /\ outcome[s] \in Handler
    /\ reply[s] = NoReply
    /\ code \in Answers(outcome[s])
    /\ eap => dgram.eap
    /\ SendResponse(s, Encoded(dgram, code, eap, byHand), Keyed(dgram.code, byHand))
    /\ UNCHANGED <<cfg, port, dgram, stage, outcome, verdict>>

\* verify_reply; the Identifier and the Response Authenticator are right.
VerifyReply(rep) ==
    IF rep.ma # "none" THEN rep.ma = ExpectedReplyMac(rep.code, dgram.code)
    ELSE ~(cfg.enforce /\ dgram.code = "AccessRequest")

ClientReceives(s) ==
    /\ dgram.code # "none" /\ dgram.secret
    /\ reply[s] # NoReply
    /\ verdict[s] = "none"
    /\ verdict' = [verdict EXCEPT ![s] = IF VerifyReply(reply[s]) THEN "accepted" ELSE "ignored"]
    /\ UNCHANGED <<cfg, port, dgram, stage, outcome, reply, cached>>

Next ==
    \/ \E code \in RequestCode, eap, marked \in BOOLEAN : ClientSends(code, eap, marked)
    \/ \E d \in Datagram : StrayArrives(d)
    \/ \E s \in Servers :
        \/ Dispatch(s) \/ DropDatagram(s) \/ AnswerStatus(s) \/ ClientReceives(s)
        \/ \E code \in ReplyCode, eap, byHand \in BOOLEAN :
              HandlerReplies(s, code, eap, byHand)

Spec == Init /\ [][Next]_vars

-----------------------------------------------------------------------------
(* Properties. *)

\* "Both servers ... delegate per-packet policy to it so the two transports
\* can't drift apart": Server and ServerAsync do the same with every datagram,
\* except for an Accounting-Response on the accounting port, which only
\* Server hands to the handler.
ServersAgree ==
    \A s, t \in Servers :
        outcome[s] # "none" /\ outcome[t] # "none" /\ outcome[s] # outcome[t] =>
            dgram.code = "AccountingResponse" /\ port = "acct"

\* With the default flags a handler of ServerAsync runs only for a request
\* whose sender had the shared secret: between the Request Authenticator and
\* the Message-Authenticator no code is left unauthenticated.
HandlersGetAuthenticRequests ==
    cfg.verify /\ cfg.require =>
        \A s \in Servers \ {"sync"} : outcome[s] \in Handler => dgram.secret

\* A client accepts every reply that a handler makes with create_reply_packet
\* to the request it sent, whatever the flags of the two sides: what one side
\* computes and demands of a Message-Authenticator, the other provides.  The
\* exceptions are a reply built by hand (not keyed, so not cached) on a server
\* that does not require what the client enforces, and the reply to a CoA- or
\* Disconnect-Request with a Message-Authenticator, where the two sides take
\* different authenticators for the one the HMAC covers.
RepliesVerify ==
    \A s \in Servers :
        verdict[s] = "ignored" =>
            \/ cfg.enforce /\ ~cfg.require /\ cached[s] = {}
            \/ dgram.ma # "none" /\ dgram.code \in {"CoARequest", "DisconnectRequest"}

\* "Access replies automatically get Message-Authenticator before they go on
\* the wire", also those a handler builds itself, and replies with EAP.
AccessRepliesCarryMac ==
    \A s \in Servers :
        /\ cfg.require /\ reply[s].code \in AccessReply => reply[s].ma = "request"
        /\ cfg.requireEap /\ reply[s] # NoReply /\ reply[s].eap => reply[s].ma # "none"

=============================================================================
