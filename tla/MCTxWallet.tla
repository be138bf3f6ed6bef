----------------------------- MODULE MCTxWallet ------------------------------
(* A transaction with an unconfirmed and a partial BEEF, one proof ahead of    *)
(* the local headers and one that fits no header, and another with a full BEEF *)
(* that may be what is fetched for either; two on-chain outputs.               *)
EXTENDS TxWallet, TLC

Beef(tx, parses, bumps, txs, root, height) ==
  [tx |-> tx, parses |-> parses, bumps |-> bumps, txs |-> txs, root |-> root,
   height |-> height]

bare == Beef("t", TRUE, 0, 2, TRUE, 0)
partial == Beef("t", TRUE, 1, 3, TRUE, 1)
full == Beef("s", TRUE, 1, 1, TRUE, 1)
forked == Beef("t", TRUE, 1, 1, FALSE, 1)
garbage == Beef("t", FALSE, 0, 0, FALSE, 0)

MCPosted == {bare, partial, forked, garbage}
MCFetched == {full, forked}
MCBeefs == MCPosted \cup MCFetched
HandlerSymmetry == Permutations(Handlers)
==============================================================================
