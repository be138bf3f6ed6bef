-------------------------- MODULE MCEnvelopeGossip ---------------------------
(***************************************************************************)
(* Two nodes; x is an ordinary envelope on a catch-up topic, p, q and r are    *)
(* three payloads of one identity, r too large for the store.  Copies of x    *)
(* and q without a good signature may come in at B, a signed r at A.          *)
(***************************************************************************)
EXTENDS EnvelopeGossip

MCLinks == {{"A", "B"}}
MCInterests == [n \in Nodes |-> Topics]
MCCatchUp == <<"t">>
MCIdent == [e \in Envelopes |-> IF e \in {"p", "q", "r"} THEN "i"
                                ELSE "j"]
MCTopic == [e \in Envelopes |-> "t"]
MCIngestible == Envelopes \ {"r"}
MCNoGossip == {}
MCLocal == [n \in Nodes |-> {}]
MCPosts == [n \in Nodes |-> IF n = "A" THEN {"x", "p"} ELSE {}]
MCStrays == [n \in Nodes |-> IF n = "A" THEN {<<"r", TRUE>>}
                             ELSE {<<"x", FALSE>>, <<"q", FALSE>>}]
==============================================================================
