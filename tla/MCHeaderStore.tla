---------------------------- MODULE MCHeaderStore ----------------------------
(***************************************************************************)
(* Two forks above genesis (a1-a2-a3 and b1-b2, b1 a child of a1), a header *)
(* without proof of work (x2, child of a1) and one whose parent nobody has. *)
(***************************************************************************)
EXTENDS HeaderStore, FiniteSets

CONSTANT MaxBatch   \* longest slice passed to AddHeaders

MCBlocks == {"g", "a1", "a2", "a3", "b2", "b3", "x2", "orphan"}
MCPrev == [b \in MCBlocks |->
             CASE b = "a1" -> "g"  [] b \in {"a2", "b2", "x2"} -> "a1"
               [] b = "a3" -> "a2" [] b = "b3" -> "b2"
               [] OTHER -> "none"]
MCValidPoW == [b \in MCBlocks |-> b # "x2"]
MCWork == [b \in MCBlocks |-> IF b \in {"b2", "b3"} THEN 3 ELSE 2]
MCRoots == {"r" , "r2"}
MCRoot == [b \in MCBlocks |-> IF b \in {"a2", "b3"} THEN "r2" ELSE "r"]
MCDepth == [b \in MCBlocks |->
             CASE b = "g" -> 0 [] b = "a1" -> 1 [] b \in {"a2", "b2", "x2"} -> 2
               [] OTHER -> 3]
MCChainWork == [b \in MCBlocks |->
             CASE b = "g" -> 0 [] b = "a1" -> 2 [] b = "a2" -> 4 [] b = "x2" -> 4
               [] b = "a3" -> 6 [] b = "b2" -> 5 [] b = "b3" -> 8 [] OTHER -> 0]
MCBatches == UNION {[1..n -> MCBlocks] : n \in 0..MaxBatch}
MCHeights == 0..4
==============================================================================
