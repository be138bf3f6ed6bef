--------------------------- MODULE MCOverlayEngine ---------------------------
(***************************************************************************)
(* p advertises a file; q spends a foreign coin and p's output and           *)
(* advertises the same file elsewhere; r spends p's output and advertises    *)
(* nothing, so q and r conflict.                                             *)
(***************************************************************************)
EXTENDS OverlayEngine, TLC

MCOuts == [t \in Txs |-> CASE t = "p" -> <<"file">> [] t = "q" -> <<"", "file">>
                           [] OTHER -> <<"">>]
MCIns == [t \in Txs |-> CASE t = "q" -> <<<<"foreign", 1>>, <<"p", 1>>>>
                          [] t = "r" -> <<<<"p", 1>>>> [] OTHER -> <<>>]
MCTopicLists == {<<"tm_uhrp">>, <<"tm_other", "tm_uhrp">>, <<"tm_uhrp", "tm_uhrp">>}

Symmetric == Permutations(Submitters)
==============================================================================
