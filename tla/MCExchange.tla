----------------------------- MODULE MCExchange -----------------------------
(* Instances of Exchange: correlators and replies as finite sets. *)
EXTENDS Exchange

\* Client drives EAP with one correlator for all rounds; it is checked apart.
MCRenewed == {<<"async", "acct">>, <<"async", "eap">>, <<"sync", "acct">>}
MCSyncEap == {<<"sync", "eap">>}

\* No value, one of two, or both; the waits add at most Retries * MaxWait.
MCDelays == {Absent, <<1>>, <<0, 3>>}
MCKey == (0..(MaxRounds + 1)) \X (MCDelays \union {<<v>> : v \in 0..(Retries * MaxWait + 1)})
MCRaw == [key: MCKey, round: 0..(MaxRounds + 1)]
=============================================================================
