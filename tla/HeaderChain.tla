----------------------------- MODULE HeaderChain -----------------------------
(***************************************************************************)
(* What the header store promises: one chain of linked headers that carry   *)
(* proof of work, grown and cut only at its tip.  A restart may go back to  *)
(* an earlier chain that had reached the disk, never to a mixture of two.   *)
(***************************************************************************)
EXTENDS Integers

CONSTANTS
  Blocks,    \* every header a peer can send, the genesis header included
  Genesis,   \* the hard-coded header of height 0
  Prev,      \* Prev[b]: the header whose hash is b.PrevBlock
  ValidPoW   \* ValidPoW[b]: the hash of b meets the target of its bits

VARIABLES
  chain,     \* height -> header, what a reader of the store sees
  durable    \* the chain a power loss falls back to

vars == <<chain, durable>>

NoChain == [h \in {} |-> Genesis]

IsChain(c) ==
  \/ DOMAIN c = {}
  \/ /\ 0 \in DOMAIN c
     /\ c[0] = Genesis
     /\ \A h \in DOMAIN c : /\ h \in Nat
                            /\ c[h] \in Blocks
                            /\ h > 0 => /\ h - 1 \in DOMAIN c
                                        /\ Prev[c[h]] = c[h - 1]
                                        /\ ValidPoW[c[h]]

\* c is a proper initial part of d.
IsProperPrefix(c, d) ==
  /\ DOMAIN c \subseteq DOMAIN d
  /\ DOMAIN c # DOMAIN d
  /\ \A h \in DOMAIN c : c[h] = d[h]

Init == chain = NoChain /\ durable = NoChain

Create == /\ chain = NoChain
          /\ chain' = [h \in {0} |-> Genesis]
          /\ UNCHANGED durable

Extend == /\ chain # NoChain
          /\ IsChain(chain')
          /\ IsProperPrefix(chain, chain')
          /\ UNCHANGED durable

Truncate == /\ IsChain(chain')
            /\ chain' # NoChain
            /\ IsProperPrefix(chain', chain)
            /\ UNCHANGED durable

Persist == durable' = chain /\ UNCHANGED chain

Lose == chain' = durable /\ UNCHANGED durable

Next == Create \/ Extend \/ Truncate \/ Persist \/ Lose

Spec == Init /\ [][Next]_vars
==============================================================================
