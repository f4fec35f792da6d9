----------------------------- MODULE EapMethods -----------------------------
(***************************************************************************)
(* The EAP methods of the client (eap/md5.py, eap/gtc.py, eap/mschapv2.py  *)
(* with the MS-CHAPv2 functions of mschap.py), and the other end of the    *)
(* conversation as the demonstration servers of scenarios/ implement it.   *)
(*                                                                         *)
(* A digest is the tuple of its inputs: two digests are equal exactly if   *)
(* their inputs are.  An EAP message is a record with its EAP identifier,  *)
(* its type and what the type carries.                                     *)
(***************************************************************************)
EXTENDS Integers, FiniteSets

CONSTANTS
    EapIds,    \* 256 in the code: the EAP identifiers are 0..EapIds-1
    UserName,  \* the User-Name of every request
    Password   \* the password the servers expect

Method == {"md5", "gtc", "mschapv2"}

\* auth_type of a packet: a registered method or one without EAP; get_method.
AuthType == Method \union {"pap"}
GetMethod(authType) == IF authType \in Method THEN authType ELSE "none"

\* A call that raises (PacketError, ValueError, KeyError) instead of returning.
Raised == [type |-> "raised"]
NoEap == [type |-> "none"]
Nothing == -1
NoPassword == "absent"

-----------------------------------------------------------------------------
(* mschap.py: the digests. *)

NtPasswordHash(password) == <<"md4", password>>
ChallengeHash(peer, authenticator, user) == <<"sha1", peer, authenticator, user>>
GenerateNtResponse(authenticator, peer, user, password) ==
    <<"des", ChallengeHash(peer, authenticator, user), NtPasswordHash(password)>>
GenerateAuthenticatorResponse(password, nt, peer, authenticator, user) ==
    <<"sha1", <<"md4", NtPasswordHash(password)>>, nt, ChallengeHash(peer, authenticator, user)>>
Md5Digest(id, password, challenge) == <<"md5", id, password, challenge>>

-----------------------------------------------------------------------------
(* The client's methods. *)

\* start: the EAP identity.  MD5 and GTC put the password there, MSCHAPv2 the
\* user name; id is packet.CURRENT_ID.
Identity(id, identity) == [id |-> id, type |-> "identity", identity |-> identity]
InjectEapIdentity(id, password) ==
    IF password = NoPassword THEN Raised ELSE Identity(id, password)
MschapV2Start(id, password) ==
    IF password = NoPassword THEN Raised ELSE Identity(id, UserName)

EapStart(method, id, password) ==
    IF method = "mschapv2" THEN MschapV2Start(id, password)
    ELSE InjectEapIdentity(id, password)

\* What a method instance keeps from one round to the next (MschapV2Method).
NoMemory == [peer |-> <<>>, auth |-> Nothing, nt |-> <<>>]

\* respond, for a challenge with the EAP message m; peer is the random peer
\* challenge.  MD5 and GTC do not look at the type of m.
Md5Respond(m, password) ==
    [id |-> m.id, type |-> "md5",
     digest |-> Md5Digest(m.id, password, IF m.type = "md5" THEN m.challenge ELSE "other")]

GtcRespond(m, password) == [id |-> m.id, type |-> "gtc", password |-> password]

\* verify_authenticator_response, on the message of a Success request.
SuccessVerifies(m, mem, password) ==
    m.proof = GenerateAuthenticatorResponse(password, mem.nt, mem.peer, mem.auth, UserName)

MschapV2Respond(m, mem, password) ==
    IF m.type # "mschapv2" THEN Raised
    ELSE IF m.op = "challenge"
    THEN [id |-> m.id, type |-> "mschapv2", op |-> "response", peer |-> mem.peer, nt |-> mem.nt]
    ELSE IF m.op = "success" /\ ~SuccessVerifies(m, mem, password) THEN Raised
    ELSE [id |-> m.id, type |-> "mschapv2", op |-> m.op]

\* _build_response: what the method keeps after it has read m.
Remember(method, m, mem, peer, password) ==
    IF method = "mschapv2" /\ m.type = "mschapv2" /\ m.op = "challenge"
    THEN [peer |-> peer, auth |-> m.challenge,
          nt |-> GenerateNtResponse(m.challenge, peer, UserName, password)]
    ELSE mem

EapRespond(method, m, mem, password) ==
    CASE method = "md5" -> Md5Respond(m, password)
      [] method = "gtc" -> GtcRespond(m, password)
      [] method = "mschapv2" -> MschapV2Respond(m, mem, password)

-----------------------------------------------------------------------------
(* The servers of scenarios/auth_eap_*.py.  A session is kept under the      *)
(* State cookie handed out with the challenge; the cookie and the challenge  *)
(* of the n-th session are the number n.                                     *)

EapAnswer(code, eap, state, sessions) ==
    [code |-> code, eap |-> eap, state |-> state, sessions |-> sessions]
RejectWith(sessions) == EapAnswer("reject", NoEap, Nothing, sessions)

\* _send_md5_challenge, _send_gtc_prompt, _send_mschap_challenge.
Challenge(eap, m, fresh, sessions) ==
    EapAnswer("challenge", eap, fresh,
              sessions \union {[state |-> fresh, identity |-> m.identity]})
SendMd5Challenge(m, fresh, sessions) ==
    Challenge([id |-> (m.id + 1) % EapIds, type |-> "md5", challenge |-> fresh],
              m, fresh, sessions)
SendGtcPrompt(m, fresh, sessions) ==
    Challenge([id |-> (m.id + 1) % EapIds, type |-> "gtc"], m, fresh, sessions)
SendMschapChallenge(m, fresh, sessions) ==
    Challenge([id |-> (m.id + 1) % EapIds, type |-> "mschapv2", op |-> "challenge",
               challenge |-> fresh], m, fresh, sessions)

\* _verify_md5_response and _verify_gtc_response, which end the session first.
Decide(right, state, sessions) ==
    LET s == {x \in sessions : x.state = state}
    IN  IF s # {} /\ right THEN EapAnswer("accept", NoEap, Nothing, sessions \ s)
        ELSE RejectWith(sessions \ s)
VerifyMd5Response(m, state, sessions) ==
    Decide(m.digest = Md5Digest(m.id, Password, state), state, sessions)
VerifyGtcResponse(m, state, sessions) == Decide(m.password = Password, state, sessions)

\* _verify_response: the session survives a right NT-Response.
VerifyNtResponseOnce(m, state, sessions) ==
    LET s == {x \in sessions : x.state = state}
        x == CHOOSE x \in s : TRUE
        proof == GenerateAuthenticatorResponse(Password, m.nt, m.peer, state, x.identity)
    IN  IF s = {} \/ m.nt # GenerateNtResponse(state, m.peer, x.identity, Password)
        THEN RejectWith(sessions \ s)
        ELSE EapAnswer("challenge", [id |-> (m.id + 1) % EapIds, type |-> "mschapv2",
                                     op |-> "success", proof |-> proof],
                       state, sessions \ s)
VerifyNtResponse(m, state, sessions) ==
    LET s == {x \in sessions : x.state = state}
        x == CHOOSE x \in s : TRUE
        proof == GenerateAuthenticatorResponse(Password, m.nt, m.peer, state, x.identity)
    IN  IF s = {} THEN RejectWith(sessions)
        ELSE IF m.nt # GenerateNtResponse(state, m.peer, x.identity, Password)
        THEN RejectWith(sessions \ s)
        ELSE EapAnswer("challenge", [id |-> (m.id + 1) % EapIds, type |-> "mschapv2",
                                     op |-> "success", proof |-> proof],
                       state, sessions)

\* _send_access_accept.
SendAccessAccept(state, sessions) ==
    EapAnswer("accept", NoEap, Nothing, {x \in sessions : x.state # state})

\* handle_auth_packet of the three servers.
Md5Serve(m, state, fresh, sessions) ==
    CASE m.type = "identity" -> SendMd5Challenge(m, fresh, sessions)
      [] m.type = "md5"      -> VerifyMd5Response(m, state, sessions)
      [] OTHER               -> RejectWith(sessions)

GtcServe(m, state, fresh, sessions) ==
    CASE m.type = "identity" -> SendGtcPrompt(m, fresh, sessions)
      [] m.type = "gtc"      -> VerifyGtcResponse(m, state, sessions)
      [] OTHER               -> RejectWith(sessions)

MschapV2Serve(m, state, fresh, sessions) ==
    IF m.type = "identity" THEN SendMschapChallenge(m, fresh, sessions)
    ELSE IF m.type # "mschapv2" THEN RejectWith(sessions)
    ELSE CASE m.op = "response" -> VerifyNtResponse(m, state, sessions)
           [] m.op = "success"  -> SendAccessAccept(state, sessions)
           [] OTHER             -> RejectWith(sessions)

\* A request without EAP-Message makes each of them raise KeyError.
EapServe(backend, m, state, fresh, sessions) ==
    IF m.type = "none" THEN EapAnswer("raised", NoEap, Nothing, sessions)
    ELSE CASE backend = "md5"      -> Md5Serve(m, state, fresh, sessions)
           [] backend = "gtc"      -> GtcServe(m, state, fresh, sessions)
           [] backend = "mschapv2" -> MschapV2Serve(m, state, fresh, sessions)

=============================================================================
