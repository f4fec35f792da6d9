------------------------------- MODULE RadSec -------------------------------
(***************************************************************************)
(* RadSecClient (radsec/client.py) against RadSecServer (radsec/server.py) *)
(* over TLS connections.                                                   *)
(*                                                                         *)
(* Senders are tasks that call send_packet on one shared client, each with *)
(* a packet of its own.  A step of a sender runs to its next await.  The   *)
(* wait of writer.drain is part of the wait for the reply's header, which  *)
(* it precedes: the same timeout and the same errors end both.             *)
(*                                                                         *)
(* A reply travels as two units, its header and its body, because          *)
(* read_radius_packet reads them with two awaits.  Requests are only ever  *)
(* read by the server, whose reads are not interrupted, and travel whole.  *)
(***************************************************************************)
EXTENDS RadiusV11, EapMethods, SequencesExt

CONSTANTS
    Sender,          \* the tasks
    Configs,         \* configurations of the client and its callers
    ServerVersions,  \* values of the server's radius_versions, as sets
    Attempts,        \* max(1, retries)
    MaxPackets,      \* max_packets_per_connection
    TokenStarts,     \* bound: random first Tokens
    Slots            \* bound: connections that exist at one time

NONE == "none"
Kind == AuthType \union {"accounting", "status", "coa"}

\* kind: what each sender sends; backend: the EAP method of the server's
\* handler; reuse: reuse_connection; versions: radius_versions; trust: whether
\* the certificate fingerprints of the two ends are allowed; server: the server's
\* radius_versions and newest TLS version; faults: bounds on cancellations, on
\* calls of close and on restarts of the server.
Config == [kind: [Sender -> Kind], backend: Method, password: {Password, "wrong", NoPassword},
           reuse: BOOLEAN, versions: (SUBSET RadiusVersion) \ {{}},
           trust: {"both", "noServer", "noClient"},
           server: [versions: (SUBSET RadiusVersion) \ {{}}, tls: TlsVersion],
           faults: [cancels: Nat, closes: Nat, restarts: Nat]]

ASSUME RadSecAssumption ==
    /\ Configs \subseteq Config
    /\ ServerVersions \subseteq ((SUBSET RadiusVersion) \ {{}})
    /\ Attempts \in Nat \ {0} /\ MaxPackets \in Nat \ {0}
    /\ TokenStarts \subseteq 0..(TokenSpace - 1)
    /\ IsFiniteSet(Sender)
    /\ IsFiniteSet(Slots) /\ Slots = 1..Cardinality(Slots)

VARIABLES
    conf,      \* the configuration
    srv,       \* the server's versions and newest TLS; change on a restart
    sessions,  \* EAP sessions of its handler, by State cookie
    fresh,     \* the next cookie
    conns,     \* the TLS connections
    cli,       \* _reader/_writer, _negotiated_version and _token_counter
    queue,     \* _io_lock: its holder, then the tasks that wait for it
    pc,        \* where each sender is
    pkt,       \* its packet
    mem,       \* what its EAP method remembers
    at,        \* its attempt, local reader/writer and reply header
    result,    \* what send_packet returned
    lastError, \* last_error
    round,     \* history: EAP round of the packet
    served,    \* history: <<sender, round>> handled once, handled again
    used       \* budget spent: cancellations, user closes, restarts

clientVars == <<cli, queue, pc, pkt, mem, at, result, lastError, round>>
vars == <<conf, srv, sessions, fresh, conns, cli, queue, pc, pkt, mem, at,
          result, lastError, round, served, used>>

-----------------------------------------------------------------------------
(* Connections. *)

\* up: the client's transport is open, closed, or the peer's end was noticed;
\* srv: the server's task serves, or has ended;
\* in, out: requests and units of replies under way; done: packets processed;
\* sent: history of the requests written.
Dead == [ver |-> None, sver |-> None, tls |-> 12, up |-> "closed",
         srv |-> "closed", in |-> <<>>, out |-> <<>>, done |-> 0, sent |-> {}]

Up == {"open", "eof", "reset", "closed"}

\* A connection that the client has closed ends once the server has read all
\* requests from it.
Tidy(c) == IF c.up = "closed" /\ c.in = <<>> THEN Dead ELSE c

\* A send that ends without a reply: None, an exception, or cancellation.
Outcome(how) == [code |-> how]
IsReply(x) == x.code \notin {NONE, "noreply", "raised", "cancelled"}

NoConn == 0
NoClient == [conn |-> NoConn, ver |-> V1_0, next |-> None]
NoAttempt == [n |-> 0, conn |-> NoConn, got |-> Outcome(NONE)]

Init ==
    /\ conf \in Configs
    /\ srv = conf.server
    /\ srv.tls >= EnforceTlsVersionFloor(12, srv.versions)
    /\ sessions = {}
    /\ fresh = 1
    /\ conns = [c \in Slots |-> Dead]
    /\ cli = NoClient
    /\ queue = <<>>
    /\ pc = [p \in Sender |-> "idle"]
    /\ pkt = [p \in Sender |-> [ver |-> V1_0, token |-> None, ma |-> FALSE,
                                eap |-> NoEap, state |-> None]]
    /\ mem = [p \in Sender |-> NoMemory]
    /\ at = [p \in Sender |-> NoAttempt]
    /\ result = [p \in Sender |-> Outcome(NONE)]
    /\ lastError = NONE
    /\ round = [p \in Sender |-> 0]
    /\ served = [once |-> {}, again |-> {}]
    /\ used = [cancels |-> 0, closes |-> 0, restarts |-> 0]

-----------------------------------------------------------------------------
(* One packet. *)

\* _stamp_radius_version; the packet's Token is drawn once.
StampOnce(pk, ver, next) ==
    IF pk.token # None THEN pk
    ELSE [pk EXCEPT !.ver = ver, !.token = IF ver = V1_0 THEN None ELSE next]
Stamp(pk, ver, next) ==
    [pk EXCEPT !.ver = ver,
               !.token = IF ver = V1_0 THEN None ELSE IF @ = None THEN next ELSE @]

\* prepare_request_message_authenticator: the attribute is stored in the packet.
PrepareMac(pk, kind) ==
    [pk EXCEPT !.ma = @ \/ (pk.ver = V1_0 /\ (kind = "status" \/ pk.eap # NoEap))]

\* create_reply on the bytes that were read: _set_reply_context replaces the
\* Token that was decoded by the request's.
CreateReply(pk, raw) == [raw EXCEPT !.token = pk.token]

\* verify_reply.  In version 1.0 the Response Authenticator covers the Request
\* Authenticator, which every packet keeps over attempts and rounds.
AcceptAny(p, raw) == TRUE
VerifyReply(p, raw) ==
    IF pkt[p].ver = V1_1 THEN CreateReply(pkt[p], raw).token = pkt[p].token
    ELSE raw.to = p

\* The connection as it stands when c becomes r: forgotten once both ends are
\* closed and no sender reads from it.
Settled(c, r) == IF \E p \in Sender : at[p].conn = c THEN r ELSE Tidy(r)

\* max_packets_per_connection.
LimitReached(done) == done >= MaxPackets

\* A writer of the client is closed; wait_closed raises what the connection
\* was lost with.
ClosedAt(cs, c) ==
    IF c = NoConn THEN cs
    ELSE [cs EXCEPT ![c] = Tidy([@ EXCEPT !.up = "closed", !.out = <<>>])]
CloseRaises(c) == c # NoConn /\ conns[c].up = "reset"

-----------------------------------------------------------------------------
(* send_packet: the steps that take and release the lock. *)

Holds(p) == queue # <<>> /\ Head(queue) = p
Place(p) == CHOOSE i \in DOMAIN queue : queue[i] = p
Release(p) == queue' = RemoveAt(queue, Place(p))

\* send_packet returns or raises; x is what the caller gets.
Finish(p, x) ==
    /\ pc' = [pc EXCEPT ![p] = "done"]
    /\ result' = [result EXCEPT ![p] = x]
    /\ at' = [at EXCEPT ![p] = NoAttempt]

\* last_error is set in the except clauses of _send_packet.
Report(error) == lastError' = error

\* The loop over the attempts.
OneMore(n) == n > Attempts
Exhausted(n) == n >= Attempts
Uncounted(n) == NoAttempt
Counted(n) == [NoAttempt EXCEPT !.n = n]

\* A retryable error of attempt n: close() and back off, or give up.  Here and
\* below, close() and its wait_closed() are part of the step that calls them:
\* the connection is given up before that await, and the lock is held over it.
AttemptFails(p, n) ==
    /\ Report("transport")
    /\ cli' = NoClient
    /\ IF Exhausted(n)
       THEN Release(p) /\ Finish(p, Outcome("noreply"))
       ELSE /\ pc' = [pc EXCEPT ![p] = "backoff"]
            /\ at' = [at EXCEPT ![p] = Counted(n)]
            /\ UNCHANGED <<queue, result>>

\* _send_auth_packet and _send_packet: the method's start, then the lock.
Start(p) ==
    /\ pc[p] = "idle"
    /\ LET method == GetMethod(conf.kind[p])
           m == IF method = "none" THEN NoEap ELSE EapStart(method, 0, conf.password)
       IN  IF m = Raised
           THEN Finish(p, Outcome("raised")) /\ UNCHANGED <<pkt, queue, lastError, round>>
           ELSE /\ pkt' = [pkt EXCEPT ![p].eap = m]
                /\ queue' = Append(queue, p)
                /\ pc' = [pc EXCEPT ![p] = "lock"]
                /\ lastError' = NONE
                /\ round' = [round EXCEPT ![p] = 1]
                /\ UNCHANGED <<at, result>>
    /\ UNCHANGED <<conf, srv, sessions, fresh, conns, cli, mem, served, used>>

\* The lock is held and an attempt begins: at once, or after the backoff.
BeginsUnlocked(p) == pc[p] \in {"lock", "backoff"}
Begins(p) == Holds(p) /\ pc[p] \in {"lock", "backoff"}

\* _write_packet on connection c, whose version and next Token are given.
Write(p, c, cs, ver, next, n) ==
    LET pk == PrepareMac(Stamp(pkt[p], ver, next), conf.kind[p])
        msg == [from |-> p, round |-> round[p], ver |-> pk.ver, token |-> pk.token,
                ma |-> pk.ma, kind |-> conf.kind[p], eap |-> pk.eap, state |-> pk.state]
    IN  /\ pkt' = [pkt EXCEPT ![p] = pk]
        /\ conns' = [cs EXCEPT ![c].in = IF cs[c].srv = "closed" THEN @ ELSE Append(@, msg),
                               ![c].sent = @ \union {[from |-> p, ver |-> pk.ver, token |-> pk.token]}]
        /\ cli' = [conn |-> IF conf.reuse THEN c ELSE NoConn, ver |-> ver,
                   next |-> IF ver = V1_1 /\ pkt[p].token = None THEN NextToken(next) ELSE next]
        /\ at' = [at EXCEPT ![p].n = n, ![p].conn = c]
        /\ pc' = [pc EXCEPT ![p] = "header"]

\* _ensure_connection finds a connection whose writer is not closing.
Reusable == conf.reuse /\ cli.conn # NoConn /\ conns[cli.conn].up = "open"

ReuseConnection(p) ==
    /\ Begins(p)
    /\ Reusable
    /\ Write(p, cli.conn, conns, cli.ver, cli.next, at[p].n + 1)
    /\ UNCHANGED <<conf, srv, sessions, fresh, queue, mem, result, lastError, round, served, used>>

\* It does not: close() drops what is left of the old one.  An attempt fails
\* there and then if that one was reset; otherwise the client connects.
DropStale(p) ==
    /\ Begins(p)
    /\ ~Reusable
    /\ CloseRaises(cli.conn)
    /\ conns' = ClosedAt(conns, cli.conn)
    /\ AttemptFails(p, at[p].n + 1)
    /\ UNCHANGED <<conf, srv, sessions, fresh, pkt, mem, round, served, used>>

OpenConnection(p) ==
    /\ Begins(p)
    /\ ~Reusable
    /\ ~CloseRaises(cli.conn)
    /\ conns' = ClosedAt(conns, cli.conn)
    /\ cli' = IF conf.reuse THEN NoClient ELSE cli
    /\ pc' = [pc EXCEPT ![p] = "connect"]
    /\ at' = [at EXCEPT ![p] = [NoAttempt EXCEPT !.n = at[p].n + 1]]
    /\ UNCHANGED <<conf, srv, sessions, fresh, queue, pkt, mem, result, lastError, round,
                   served, used>>

\* A new connection after the TLS handshake: each end settles the version, and
\* _handle_client ends at once if it has none or does not allow the client's
\* certificate.
Alpn == SelectedAlpn(conf.versions, srv.versions)
Accepts == conf.trust # "noClient" /\ Negotiate(srv.versions, Alpn) # None
Handshake ==
    [Dead EXCEPT !.ver = Negotiate(conf.versions, Alpn),
                 !.sver = Negotiate(srv.versions, Alpn),
                 !.tls = srv.tls, !.up = "open",
                 !.srv = IF Accepts THEN "serving" ELSE "closed"]

HandshakeRefused ==
    HandshakeFails(conf.versions, srv.versions, srv.tls,
                   EnforceTlsVersionFloor(12, conf.versions))

FreeSlots == {c \in Slots : conns[c] = Dead}

\* A first Token after which no sender draws the Token of a packet of an earlier
\* connection: the others, one per sender of 2^32 values, are left out.
FirstTokens ==
    {t \in TokenStarts : \A q \in Sender : pkt[q].token # None =>
        (pkt[q].token - t) % TokenSpace >= Cardinality(Sender)}

Connected(p, c, token) ==
    /\ pc[p] = "connect"
    /\ c \in FreeSlots /\ \A d \in FreeSlots : c <= d
    /\ \A t \in FirstTokens : t <= token
    /\ ~HandshakeRefused
    /\ Handshake.ver # None /\ conf.trust # "noServer"
    /\ Write(p, c, [conns EXCEPT ![c] = Handshake], Handshake.ver,
             IF Handshake.ver = V1_1 THEN token ELSE None, at[p].n)
    /\ UNCHANGED <<conf, srv, sessions, fresh, queue, mem, result, lastError, round,
                   served, used>>

\* A strict client meets a server without ALPN, or the fingerprint is not on
\* the list: the new connection is closed and PacketError ends the send.
ConnectRefused(p) ==
    /\ pc[p] = "connect"
    /\ ~HandshakeRefused
    /\ Handshake.ver = None \/ conf.trust = "noServer"
    /\ cli' = NoClient
    /\ Report("packet")
    /\ Release(p)
    /\ Finish(p, Outcome("noreply"))
    /\ UNCHANGED <<conf, srv, sessions, fresh, conns, pkt, mem, round, served, used>>

-----------------------------------------------------------------------------
(* send_packet: the waits. *)

Waits(p) == pc[p] \in {"header", "body"}

\* A send ends in order or by an exception that is not handled: the connection
\* stays if it is the client's reusable one.
Leave(p, cs) == IF cli.conn = at[p].conn THEN cs ELSE ClosedAt(cs, at[p].conn)

\* A timeout, an incomplete read or a connection error.  If the connection was
\* reset, close() itself raises and the error leaves send_packet.
TransportError(p) ==
    /\ Waits(p)
    /\ conns' = ClosedAt(conns, at[p].conn)
    /\ IF conf.reuse /\ CloseRaises(cli.conn)
       THEN /\ cli' = NoClient /\ Report("transport")
            /\ Release(p) /\ Finish(p, Outcome("raised"))
       ELSE AttemptFails(p, at[p].n)
    /\ UNCHANGED <<conf, srv, sessions, fresh, pkt, mem, round, served, used>>

ConnectError(p) ==
    /\ pc[p] = "connect"
    /\ AttemptFails(p, at[p].n)
    /\ UNCHANGED <<conf, srv, sessions, fresh, conns, pkt, mem, round, served, used>>

\* What has arrived can be read until the transport reports an error.
Arrived(p) == conns[at[p].conn].up # "reset" /\ conns[at[p].conn].out # <<>>
NextUnit(p) == Head(conns[at[p].conn].out)
Consume(p) == [conns EXCEPT ![at[p].conn].out = Tail(@)]

ReadHeader(p) ==
    /\ pc[p] = "header"
    /\ Arrived(p) /\ NextUnit(p).part = "header"
    /\ conns' = Consume(p)
    /\ at' = [at EXCEPT ![p].got = NextUnit(p).reply]
    /\ pc' = [pc EXCEPT ![p] = "body"]
    /\ UNCHANGED <<conf, srv, sessions, fresh, cli, queue, pkt, mem, result, lastError, round,
                   served, used>>

\* The stream stands inside a frame that a cancelled send began to read: a
\* length below 20 makes read_radius_packet raise ValueError, which leaves
\* send_packet and keeps the connection; any other makes the reply invalid.
\* (That the octets happen to be a packet of version 1.1, where no
\* authenticator protects it, is left out.)
ReadTornFrame(p) ==
    /\ pc[p] = "header"
    /\ Arrived(p) /\ NextUnit(p).part = "body"
    /\ Release(p)
    /\ \/ /\ Finish(p, Outcome("raised"))
          /\ conns' = Leave(p, conns)
          /\ UNCHANGED <<cli, lastError>>
       \/ /\ Finish(p, Outcome("noreply"))
          /\ conns' = ClosedAt(conns, at[p].conn)
          /\ cli' = NoClient
          /\ Report("packet")
    /\ UNCHANGED <<conf, srv, sessions, fresh, pkt, mem, round, served, used>>

\* A challenge of an EAP exchange: respond, then _send_packet again.
RespondAndSend(p, raw) ==
    LET method == GetMethod(conf.kind[p])
        kept == Remember(method, raw.eap, mem[p], <<p, raw.state>>, conf.password)
        m == EapRespond(method, raw.eap, kept, conf.password)
    IN  IF m = Raised
        THEN Release(p) /\ Finish(p, Outcome("raised")) /\ UNCHANGED <<pkt, mem, lastError, round>>
        ELSE /\ pkt' = [pkt EXCEPT ![p].eap = m, ![p].state = raw.state]
             /\ mem' = [mem EXCEPT ![p] = kept]
             /\ lastError' = NONE
             /\ queue' = Append(RemoveAt(queue, Place(p)), p)
             /\ pc' = [pc EXCEPT ![p] = "lock"]
             /\ at' = [at EXCEPT ![p] = NoAttempt]
             /\ round' = [round EXCEPT ![p] = @ + 1]
             /\ UNCHANGED result

\* The reply is complete.  Without reuse the connection is closed first.
ReadBody(p) ==
    /\ pc[p] = "body"
    /\ Arrived(p)
    /\ LET raw == at[p].got
           rest == Consume(p)
       IN  IF ~VerifyReply(p, raw)
           THEN /\ conns' = ClosedAt(rest, at[p].conn)
                /\ cli' = NoClient /\ Report("packet")
                /\ Release(p) /\ Finish(p, Outcome("noreply"))
                /\ UNCHANGED <<pkt, mem, round>>
           ELSE /\ conns' = Leave(p, rest)
                /\ UNCHANGED cli
                /\ IF GetMethod(conf.kind[p]) # "none" /\ raw.code = "challenge"
                   THEN RespondAndSend(p, raw)
                   ELSE Release(p) /\ Finish(p, raw) /\ UNCHANGED <<pkt, mem, lastError, round>>
    /\ UNCHANGED <<conf, srv, sessions, fresh, served, used>>

\* The caller cancels the task at any await.  A reusable connection stays,
\* with whatever has not been read from it.
Cancel(p) ==
    /\ used.cancels < conf.faults.cancels
    /\ pc[p] \in {"lock", "connect", "header", "body", "backoff"}
    /\ conns' = Leave(p, conns)
    /\ Release(p)
    /\ Finish(p, Outcome("cancelled"))
    /\ used' = [used EXCEPT !.cancels = @ + 1]
    /\ UNCHANGED <<conf, srv, sessions, fresh, cli, pkt, mem, lastError, round, served>>

\* close() by the user, beside the senders: it does not take the lock.
UserClose ==
    /\ used.closes < conf.faults.closes
    /\ cli.conn # NoConn
    /\ conns' = [conns EXCEPT ![cli.conn] = Settled(cli.conn, [@ EXCEPT !.up = "closed"])]
    /\ cli' = NoClient
    /\ used' = [used EXCEPT !.closes = @ + 1]
    /\ UNCHANGED <<conf, srv, sessions, fresh, queue, pc, pkt, mem, at, result, lastError, round,
                   served>>

-----------------------------------------------------------------------------
(* The server: _handle_client is one task per connection. *)

ServerEnd(c, r) == Settled(c, [r EXCEPT !.srv = "closed", !.in = <<>>])

\* packet_received: validate_message_authenticator_policy with the default flags,
\* then the handler's answer to the request.
PacketReceived(msg) ==
    IF msg.ver = V1_0 /\ ~msg.ma /\ (msg.kind = "status" \/ msg.eap # NoEap)
    THEN EapAnswer("raised", NoEap, None, sessions)
    ELSE CASE msg.kind = "status" -> EapAnswer("accept", NoEap, None, sessions)
           [] msg.kind = "accounting" -> EapAnswer("accounting", NoEap, None, sessions)
           [] msg.kind = "coa" -> EapAnswer("nak", NoEap, None, sessions)
           [] OTHER -> EapServe(conf.backend, msg.eap, msg.state, fresh, sessions)

\* The reply echoes the Token of the request and answers its authenticator.
ReplyTo(msg, a) ==
    [to |-> msg.from, round |-> msg.round, token |-> msg.token,
     code |-> a.code, eap |-> a.eap, state |-> a.state]

Frame(reply) == <<[part |-> "header", reply |-> reply], [part |-> "body", reply |-> reply]>>

\* One turn of the loop: read, handle, write, count.  An exception of the
\* handler ends the connection, and so does the write to a closed one.
Serve(c) ==
    /\ conns[c].srv = "serving" /\ conns[c].in # <<>>
    /\ LET msg == Head(conns[c].in)
           a == PacketReceived(msg)
           key == <<msg.from, msg.round>>
           answered == [conns[c] EXCEPT
                          !.in = Tail(@), !.done = @ + 1,
                          !.out = IF conns[c].up = "open" THEN @ \o Frame(ReplyTo(msg, a)) ELSE @]
       IN  /\ sessions' = a.sessions
           /\ fresh' = IF a.state = fresh THEN fresh + 1 ELSE fresh
           /\ served' = [once |-> served.once \union {key},
                         again |-> IF key \in served.once THEN served.again \union {key}
                                   ELSE served.again]
           /\ conns' = [conns EXCEPT ![c] =
                 IF a.code = "raised" THEN ServerEnd(c, @)
                 ELSE IF conns[c].up # "open" \/ LimitReached(answered.done) THEN ServerEnd(c, answered)
                 ELSE answered]
    /\ UNCHANGED <<conf, srv, clientVars, used>>

\* The read times out, or meets the end of the stream.
ServerStops(c) ==
    /\ conns[c].srv = "serving" /\ conns[c].in = <<>>
    /\ conns' = [conns EXCEPT ![c] = ServerEnd(c, @)]
    /\ UNCHANGED <<conf, srv, sessions, fresh, clientVars, served, used>>

\* The client's transport learns that the other end is gone.
PeerGone(c, how) ==
    /\ conns[c].srv = "closed" /\ conns[c].up = "open"
    /\ conns' = [conns EXCEPT ![c].up = how, ![c].out = IF how = "reset" THEN <<>> ELSE @]
    /\ UNCHANGED <<conf, srv, sessions, fresh, clientVars, served, used>>

\* The server is restarted, perhaps with other versions; it keeps no state.
Restart(versions, tls) ==
    /\ used.restarts < conf.faults.restarts
    /\ tls >= EnforceTlsVersionFloor(12, versions)
    /\ srv' = [versions |-> versions, tls |-> tls]
    /\ sessions' = {}
    /\ conns' = [c \in Slots |-> ServerEnd(c, conns[c])]
    /\ used' = [used EXCEPT !.restarts = @ + 1]
    /\ UNCHANGED <<conf, fresh, clientVars, served>>

-----------------------------------------------------------------------------

SenderStep(p) ==
    \/ Start(p) \/ ReuseConnection(p) \/ DropStale(p) \/ OpenConnection(p)
    \/ \E c \in Slots, t \in FirstTokens : Connected(p, c, t)
    \/ ConnectRefused(p) \/ ConnectError(p) \/ TransportError(p)
    \/ ReadHeader(p) \/ ReadTornFrame(p) \/ ReadBody(p)

ServerStep(c) ==
    \/ Serve(c) \/ ServerStops(c)
    \/ \E how \in {"eof", "reset"} : PeerGone(c, how)

Next ==
    \/ \E p \in Sender : SenderStep(p) \/ Cancel(p)
    \/ \E c \in Slots : ServerStep(c)
    \/ UserClose
    \/ \E v \in ServerVersions, tls \in TlsVersion : Restart(v, tls)

\* The event loop runs every task that can run, and wait_for bounds each wait:
\* it ends in an answer or in its timeout.
Proceeds(p) ==
    \/ ReuseConnection(p) \/ DropStale(p) \/ OpenConnection(p)
    \/ ConnectError(p) \/ TransportError(p)

Fairness == \A p \in Sender : WF_vars(Proceeds(p))

Spec == Init /\ [][Next]_vars /\ Fairness

-----------------------------------------------------------------------------
(* Properties. *)

TypeOK ==
    /\ cli.conn \in Slots \union {NoConn} /\ cli.ver \in RadiusVersion
    /\ cli.next \in 0..(TokenSpace - 1) \union {None}
    /\ pc \in [Sender -> {"idle", "lock", "connect", "header", "body", "backoff", "done"}]
    /\ \A p \in Sender :
          /\ pkt[p].ver \in RadiusVersion
          /\ pkt[p].token \in 0..(TokenSpace - 1) \union {None}
          /\ at[p].n \in 0..Attempts /\ at[p].conn \in Slots \union {NoConn}
          /\ pc[p] = "done" <=> result[p].code # NONE
          /\ pc[p] \in {"lock", "connect", "header", "body", "backoff"}
                <=> \E i \in 1..Len(queue) : queue[i] = p
    /\ lastError \in {NONE, "packet", "transport"}
    /\ \A c \in Slots : conns[c].up \in Up /\ conns[c].srv \in {"serving", "closed"}

\* Version 1.1 after a cancelled send: verify_reply accepts any reply.
TokensUnchecked(p) == pkt[p].ver = V1_1 /\ used.cancels > 0

\* What a send returns answers its own packet, and the round it was in,
\* whatever timed out, was retried, cancelled or closed before on a connection
\* shared with others.
ReturnsOwnReply ==
    \A p \in Sender : IsReply(result[p]) /\ ~TokensUnchecked(p) =>
        result[p].to = p /\ result[p].round = round[p]

\* "RFC 9765: match request and reply by the 4-byte Token": the reply that a
\* send returns in version 1.1 carried the Token of its request.
RepliesMatchTokens ==
    \A p \in Sender : IsReply(result[p]) /\ pkt[p].ver = V1_1 =>
        result[p].token = pkt[p].token

Underway(c) == {conns[c].in[i] : i \in DOMAIN conns[c].in}
UnderwayBack(c) == {conns[c].out[i].reply : i \in DOMAIN conns[c].out}

\* _io_lock serialises the senders: on a connection that is open there is never
\* a request or a reply of any but the sender that holds the lock, and of its
\* current round; only a cancelled send leaves something behind.
OneExchangeAtATime ==
    used.cancels = 0 =>
        \A c \in Slots : conns[c].up = "open" =>
            /\ \A m \in Underway(c) : Holds(m.from) /\ m.round = round[m.from]
            /\ \A r \in UnderwayBack(c) : Holds(r.to) /\ r.round = round[r.to]

\* A packet goes out in the version of the connection it goes out on, with a
\* Token exactly in version 1.1, also when it was serialized for another version
\* on an earlier attempt.
WireMatchesVersion ==
    \A c \in Slots : \A m \in conns[c].sent :
        m.ver = conns[c].ver /\ (m.token = None <=> m.ver = V1_0)

\* No two packets on a connection share a Token, also when the counter wraps.
TokensDistinct ==
    \A c \in Slots : \A m, n \in conns[c].sent :
        m.token # None /\ m.token = n.token => m.from = n.from

\* Both ends of a connection settle on the same version, one that each of them
\* was configured for; version 1.1 needs TLS 1.3.
EndsAgreeOnVersion ==
    \A c \in Slots : conns[c].ver # None =>
        /\ conns[c].ver \in conf.versions
        /\ conns[c].srv = "serving" => conns[c].sver = conns[c].ver /\ conns[c].ver \in srv.versions
        /\ conns[c].ver = V1_1 => conns[c].tls = 13

\* A user with the right password whose client speaks the server's method is
\* not rejected, however often requests were repeated on new connections: the
\* server has no duplicate detection, so its handler sees them again.  The
\* one-shot sessions of the MD5 and GTC servers are the exception, and a server
\* that lost its sessions in a restart.
RightPasswordAccepted ==
    \A p \in Sender : result[p].code = "reject" /\ ~TokensUnchecked(p) =>
        \/ conf.password # Password \/ conf.kind[p] # conf.backend
        \/ used.restarts > 0
        \/ conf.backend \in {"md5", "gtc"} /\ <<p, round[p]>> \in served.again

\* Every send_packet ends: each wait is bounded, the attempts are, the lock is
\* handed on, and the EAP exchange comes to an end.
SendReturns == \A p \in Sender : pc[p] # "idle" ~> pc[p] = "done"

=============================================================================
