---------------------------- MODULE MCShipGossip -----------------------------
(***************************************************************************)
(* Three nodes in a line or in a ring, the first of which may restart with a  *)
(* second identity key.                                                      *)
(***************************************************************************)
EXTENDS ShipGossip

MCNodeOf == [i \in Identities |-> IF i \in {"a1", "a2"} THEN "A"
                                  ELSE IF i = "b" THEN "B"
                                  ELSE "C"]
Line == {{"A", "B"}, {"B", "C"}}
LineAndRing == {Line, Line \cup {{"A", "C"}}}
==============================================================================
