----------------------------- MODULE RadiusV11 -----------------------------
(***************************************************************************)
(* RADIUS protocol versions over TLS (radsec/v11.py): what an endpoint     *)
(* advertises with ALPN, what the two ends make of the outcome of the TLS  *)
(* handshake, and the Token counter of a connection.                       *)
(***************************************************************************)
EXTENDS Integers

CONSTANT TokenSpace   \* 2^32 in the code: the Tokens are 0..TokenSpace-1

ASSUME TokenSpaceAssumption == TokenSpace \in Nat \ {0}

V1_0 == 0
V1_1 == 1
RadiusVersion == {V1_0, V1_1}

\* "No version" and "no Token": None in the code.
None == -1

\* TLS 1.2 and 1.3.
TlsVersion == {12, 13}

\* apply_alpn: an endpoint configured for version 1.0 alone offers no ALPN.
Advertised(versions) == IF versions = {V1_0} THEN {} ELSE versions

\* enforce_tls_version_floor.
FloorAsConfigured(minimum, versions) == minimum
EnforceTlsVersionFloor(minimum, versions) ==
    IF V1_1 \in versions /\ minimum < 13 THEN 13 ELSE minimum

\* The TLS handshake.  It fails if the newest TLS version of the server is
\* below a floor, or if both ends offer ALPN and have nothing in common (alert
\* 120); the server picks the first protocol of its own list, which apply_alpn
\* orders highest version first.
HandshakeFails(client, server, tls, floor) ==
    \/ tls < floor
    \/ /\ Advertised(client) # {} /\ Advertised(server) # {}
       /\ Advertised(client) \intersect Advertised(server) = {}

SelectedAlpn(client, server) ==
    LET common == Advertised(client) \intersect Advertised(server)
    IN  IF common = {} THEN None ELSE CHOOSE v \in common : \A w \in common : v >= w

\* negotiate: None stands for NoCommonRadiusVersion.
Negotiate(configured, selected) ==
    IF selected # None THEN (IF selected \in configured THEN selected ELSE None)
    ELSE IF V1_0 \in configured THEN V1_0 ELSE None

\* TokenCounter.next.
SaturatingToken(value) == IF value = TokenSpace - 1 THEN value ELSE value + 1
NextToken(value) == (value + 1) % TokenSpace

=============================================================================
