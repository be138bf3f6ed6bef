----------------------------- MODULE MCHeaderSync ----------------------------
(***************************************************************************)
(* The network mines a1..a3 and the fork b2-b3 above a1, heavier from b2 on; *)
(* n2 may also send slices of either, in the wrong place or with x2, which   *)
(* has no proof of work.                                                     *)
(***************************************************************************)
EXTENDS HeaderSync

MCBlocks == {"g", "a1", "a2", "a3", "b2", "b3", "x2"}
MCPrev == [b \in MCBlocks |->
             CASE b = "a1" -> "g"  [] b \in {"a2", "b2", "x2"} -> "a1"
               [] b = "a3" -> "a2" [] b = "b3" -> "b2"
               [] OTHER -> "none"]
MCValidPoW == [b \in MCBlocks |-> b # "x2"]
MCWork == [b \in MCBlocks |-> IF b \in {"b2", "b3"} THEN 5 ELSE 2]
MCRoot == [b \in MCBlocks |-> "r"]
MCDepth == [b \in MCBlocks |->
             CASE b = "g" -> 0 [] b = "a1" -> 1 [] b \in {"a2", "b2", "x2"} -> 2
               [] OTHER -> 3]
MCChainWork == [b \in MCBlocks |->
             CASE b = "g" -> 0 [] b = "a1" -> 2 [] b \in {"a2", "x2"} -> 4
               [] b = "a3" -> 6 [] b = "b2" -> 7 [] b = "b3" -> 12]
MCBatches == {<<"a1">>, <<"x2">>, <<"a1", "x2">>, <<"a2", "a3">>, <<"b2", "a3">>,
              <<"a1", "a1">>}
MCMined == MCBlocks \ {"x2"}
MCNodes == <<"n1", "n2">>
==============================================================================
