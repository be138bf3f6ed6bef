--------------------------- MODULE MCMempoolWatch ---------------------------
(***************************************************************************)
(* f pays the watched address, s spends that output and pays the change      *)
(* back.                                                                   *)
(***************************************************************************)
EXTENDS MempoolWatch

MCOuts == [t \in Txs |-> <<"A">>]
MCIns == [t \in Txs |-> IF t = "s" THEN <<<<"f", 1>>>> ELSE <<>>]
MCShard == [t \in Txs |-> 0]
MCFilter == [s \in Subscribers |-> "A"]
==============================================================================
