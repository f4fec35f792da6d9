------------------------------ MODULE MCRadSec ------------------------------
(***************************************************************************)
(* Small instances of RadSec for TLC.                                      *)
(***************************************************************************)
EXTENDS RadSec

CONSTANTS s1, s2

Versions == {{V1_0}, {V1_0, V1_1}, {V1_1}}

\* s1 may run an EAP exchange, s2 sends one packet.
Kinds(a, b) == [s \in Sender |-> IF s = s1 THEN a ELSE b]
Base == [kind |-> Kinds("md5", "accounting"), backend |-> "md5", password |-> Password,
         reuse |-> TRUE, versions |-> {V1_0, V1_1}, trust |-> "both",
         server |-> [versions |-> {V1_0, V1_1}, tls |-> 13],
         faults |-> [cancels |-> 0, closes |-> 0, restarts |-> 0]]

\* Every client against every server.
VersionConfigs ==
    {[Base EXCEPT !.kind = Kinds("gtc", "status"), !.backend = "gtc", !.reuse = FALSE,
                  !.versions = v, !.server = [versions |-> w, tls |-> t]] :
        v \in Versions, w \in Versions, t \in TlsVersion}

\* Every method against every handler, and with every password against its own.
MethodConfigs ==
    {[Base EXCEPT !.kind = Kinds(m, "coa"), !.backend = b, !.reuse = FALSE] :
        m \in AuthType, b \in Method}
    \union {[Base EXCEPT !.kind = Kinds(m, "coa"), !.backend = m, !.password = w, !.reuse = FALSE] :
        m \in Method, w \in {"wrong", NoPassword}}

\* One fault of each kind on a shared connection.
FaultConfigs ==
    {[Base EXCEPT !.faults.cancels = 1],
     [Base EXCEPT !.faults.cancels = 1, !.versions = {V1_0}],
     [Base EXCEPT !.faults.closes = 1],
     [Base EXCEPT !.faults.restarts = 1, !.kind = Kinds("pap", "accounting")],
     [Base EXCEPT !.faults.restarts = 1, !.reuse = FALSE]}

MCConfigs ==
    VersionConfigs \union MethodConfigs \union FaultConfigs
    \union {[Base EXCEPT !.trust = "noServer"], [Base EXCEPT !.trust = "noClient"]}

\* A shared connection in version 1.1 and a caller that cancels.
CancelConfigs == {[Base EXCEPT !.faults.cancels = 1]}

=============================================================================
