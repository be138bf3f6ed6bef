----------------------------- MODULE MCMeshPeers -----------------------------
(***************************************************************************)
(* An inbound transport and a seed, which are the two ends dialling each      *)
(* other when they turn out to have the same identity.                        *)
(***************************************************************************)
EXTENDS MeshPeers

CONSTANT Inbound

MCSeedOf == [c \in Conns |-> IF c \in Inbound THEN "noseed" ELSE "seed"]
==============================================================================
