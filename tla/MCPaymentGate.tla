---------------------------- MODULE MCPaymentGate ----------------------------
(***************************************************************************)
(* A paid topic query, a publication on the same topic and a free path; the  *)
(* node charges 2 sats, the app up to 3.  Transactions a and b spend the     *)
(* first nonce, c the second, o the first one and a coin nobody has seen;    *)
(* s pays the node only.                                                     *)
(***************************************************************************)
EXTENDS PaymentGate, TLC

MCPath == [r \in Requests |->
             IF r = "free" THEN "/content/" ELSE "/data"]
MCTopic == [r \in Requests |-> IF r = "free" THEN "" ELSE "t"]
MCEndpointPrices == [p \in {"/data"} |-> 2]

Mon(m, s, p) == [model |-> m, script |-> s, price |-> p]
MCMonetizations == {Mon("split", "app", 5)}
MCTokenOrApp == {Mon("token", "", 0), Mon("passthrough", "app", 3)}

Out(v, s, n) == [vout |-> v, script |-> s, sats |-> n]
MCSpends == [t \in Txs |-> CASE t = "a" -> {1, 101} [] t = "b" -> {1, 102}
                               [] t = "c" -> {2, 103} [] t = "o" -> {1, 104}
                               [] t = "s" -> {1, 105}]
MCOutputs == [t \in Txs |->
                IF t = "s" THEN {Out(0, "node", 2)}
                ELSE {Out(0, "node", 2), Out(1, "app", 3)}]

Proof(n, r, t, id) == [kind |-> "proof", nonce |-> n, request |-> r, tx |-> t, txid |-> id]
Direct(t) == [kind |-> "direct", nonce |-> 0, request |-> "", tx |-> t, txid |-> ""]
MCHeaders == {NoHeader, Proof(1, "get", "a", "a"), Proof(1, "get", "b", ""),
              Proof(1, "get", "o", ""), Proof(1, "get", "c", ""), Proof(1, "get", "a", "b")}
MCMixedHeaders == {NoHeader, Proof(1, "get", "a", "a"), Direct("a"), Direct("s")}

Symmetric == Permutations(Handlers)
==============================================================================
