------------------------------ MODULE ShipGossip ------------------------------
(***************************************************************************)
(* SHIP registrations: the directory each node keeps (internal/overlay:       *)
(* directory.go, bootstrap.go, discover.go) and the ship_sync messages that   *)
(* spread it (internal/gossip/handlers.go), with the timers of               *)
(* cmd/anvil/main.go.  One topic; a node's domain stands for the node.        *)
(*                                                                          *)
(* A registration carries no time on the wire: every receiver stamps it with  *)
(* its own now.  The age of an entry is the time since LastSeen in ticks of   *)
(* the re-announcement timer's order, capped where nothing tells it apart.    *)
(***************************************************************************)
EXTENDS Integers, FiniteSets

CONSTANTS
  Nodes,
  Meshes,       \* the meshes to consider: sets of links, two-element sets of nodes
  Identities,
  NodeOf,       \* [Identities -> Nodes], the node and domain an identity is for
  Tokens,       \* identities whose SHIP tokens turn up on chain or are posted
  Registering,  \* nodes with topics configured: Bootstrap registers them
  TTL,          \* DefaultSHIPTTL
  Interval,     \* the period of ReannounceToAll
  Prompt,       \* links and messages in flight get up before the next tick
  MaxUpsets     \* bound on restarts, broken links, registrations and removals

ASSUME ShipAssumption ==
  /\ \A l \in UNION Meshes : l \subseteq Nodes /\ Cardinality(l) = 2
  /\ NodeOf \in [Identities -> Nodes] /\ Registering \subseteq Nodes
  /\ Tokens \subseteq Identities
  /\ \A n \in Nodes : \E i \in Identities : NodeOf[i] = n
  /\ TTL \in Nat /\ Interval \in 1..TTL
  /\ Prompt \in BOOLEAN
  /\ MaxUpsets \in Nat

VARIABLES
  up,       \* the nodes that run
  ident,    \* the identity key each node runs with
  dir,      \* dir[n][i]: age of i's entry in n's directory, or Absent
  since,    \* ticks since a node's last re-announcement
  mesh,     \* the links that are configured: who dials whom
  linked,   \* the links that are connected
  net,      \* ship_sync messages in flight
  upsets    \* restarts, broken links, registrations and removals so far

vars == <<up, ident, dir, since, mesh, linked, net, upsets>>

Absent == -1
Ages == {Absent} \cup 0..(TTL + 1)

Has(n, i) == dir[n][i] # Absent
Entries(n) == {i \in Identities : Has(n, i)}
Peers(n) == {m \in Nodes : {n, m} \in linked}

------------------------------------------------------------------------------
(* The directory                                                            *)

removeStaleDomain(d, i) ==
  [j \in Identities |-> IF NodeOf[j] = NodeOf[i] /\ j # i THEN Absent ELSE d[j]]

\* AddSHIPPeer and AddSHIPPeerFromGossip
AddSHIPPeer(d, i) == [removeStaleDomain(d, i) EXCEPT ![i] = 0]

\* Mutant: entries from gossip do not displace other identities of the domain.
AddSyncKeepsStale(d, ids) == [j \in Identities |-> IF j \in ids THEN 0 ELSE d[j]]

\* The entries of one sync in turn; no two of them have the same domain.
AddSync(d, ids) ==
  [j \in Identities |->
     IF j \in ids THEN 0
     ELSE IF \E i \in ids : NodeOf[i] = NodeOf[j] THEN Absent ELSE d[j]]

SweepExpired(d) == [j \in Identities |-> IF d[j] > TTL THEN Absent ELSE d[j]]

CleanupOnBoot(d, n, i) ==
  [j \in Identities |-> IF d[j] > TTL \/ (NodeOf[j] = n /\ j # i) THEN Absent ELSE d[j]]

------------------------------------------------------------------------------
(* Messages                                                                 *)

Sync(a, b, ids) == [from |-> a, to |-> b, ids |-> ids]

\* Nothing is sent for an empty list.
Send(a, to, ids) == IF ids = {} THEN {} ELSE {Sync(a, b, ids) : b \in to}


\* ReannounceToAll sends the entries of the node's own identity only.
OwnEntries(n) == {i \in Entries(n) : i = ident[n]}

\* Mutant: the sender is not left out.
ForwardToAll(n, sender) == Peers(n)

\* forwardSHIPToAll
ForwardTo(n, sender) == Peers(n) \ {sender}

------------------------------------------------------------------------------
Init == /\ up = {} /\ linked = {} /\ net = {} /\ mesh \in Meshes
        /\ ident \in [Nodes -> Identities] /\ \A n \in Nodes : NodeOf[ident[n]] = n
        /\ dir = [n \in Nodes |-> [i \in Identities |-> Absent]]
        /\ since = [n \in Nodes |-> 0]
        /\ upsets = 0

\* The operator may have changed the identity key while the node was down.
Boot(n, i) ==
  /\ n \notin up /\ NodeOf[i] = n
  /\ up' = up \cup {n}
  /\ ident' = [ident EXCEPT ![n] = i]
  /\ LET d == CleanupOnBoot(dir[n], n, i)
     IN  dir' = [dir EXCEPT ![n] = IF n \in Registering THEN AddSHIPPeer(d, i) ELSE d]
  /\ since' = [since EXCEPT ![n] = 0]
  /\ UNCHANGED <<mesh, linked, net, upsets>>

Halt(n) ==
  /\ n \in up /\ upsets < MaxUpsets
  /\ upsets' = upsets + 1
  /\ up' = up \ {n}
  /\ linked' = {l \in linked : n \notin l}
  /\ net' = {m \in net : n \notin {m.from, m.to}}
  /\ UNCHANGED <<ident, dir, since, mesh>>

\* Both ends announce everything they know (announceSHIP).
LinkUp(a, b) ==
  /\ {a, b} \in mesh \ linked /\ {a, b} \subseteq up
  /\ linked' = linked \cup {{a, b}}
  /\ net' = net \cup Send(a, {b}, Entries(a)) \cup Send(b, {a}, Entries(b))
  /\ UNCHANGED <<up, ident, dir, since, mesh, upsets>>

LinkDown(l) ==
  /\ l \in linked /\ upsets < MaxUpsets
  /\ upsets' = upsets + 1
  /\ linked' = linked \ {l}
  /\ net' = {m \in net : {m.from, m.to} # l}
  /\ UNCHANGED <<up, ident, dir, since, mesh>>

\* onSHIPSync: every entry is stored, so the message is always forwarded.
OnSHIPSync(m) ==
  /\ m \in net
  /\ dir' = [dir EXCEPT ![m.to] = AddSync(@, m.ids)]
  /\ net' = (net \ {m}) \cup Send(m.to, ForwardTo(m.to, m.from), m.ids)
  /\ UNCHANGED <<up, ident, since, mesh, linked, upsets>>

ReannounceToAll(n) ==
  /\ n \in up /\ since[n] = Interval
  /\ since' = [since EXCEPT ![n] = 0]
  /\ net' = net \cup Send(n, Peers(n), OwnEntries(n))
  /\ UNCHANGED <<up, ident, dir, mesh, linked, upsets>>

Sweep(n) ==
  /\ n \in up /\ SweepExpired(dir[n]) # dir[n]
  /\ dir' = [dir EXCEPT ![n] = SweepExpired(@)]
  /\ UNCHANGED <<up, ident, since, mesh, linked, net, upsets>>

\* A SHIP token seen on chain or posted to /overlay/register.
Discover(n, i) ==
  /\ n \in up /\ i \in Tokens /\ upsets < MaxUpsets
  /\ upsets' = upsets + 1
  /\ dir' = [dir EXCEPT ![n] = AddSHIPPeer(@, i)]
  /\ UNCHANGED <<up, ident, since, mesh, linked, net>>

\* /overlay/deregister, or the slashing of an identity.
Deregister(n, i) ==
  /\ n \in up /\ Has(n, i) /\ upsets < MaxUpsets
  /\ upsets' = upsets + 1
  /\ dir' = [dir EXCEPT ![n][i] = Absent]
  /\ UNCHANGED <<up, ident, since, mesh, linked, net>>

\* Time passes once the timers that were due have run.
Tick == /\ \A n \in up : since[n] < Interval /\ SweepExpired(dir[n]) = dir[n]
        /\ Prompt => net = {} /\ \A l \in mesh : l \subseteq up => l \in linked
        /\ since' = [n \in Nodes |-> IF n \in up THEN since[n] + 1 ELSE since[n]]
        /\ dir' = [n \in Nodes |-> [i \in Identities |->
                     IF dir[n][i] \in 0..TTL THEN dir[n][i] + 1 ELSE dir[n][i]]]
        /\ UNCHANGED <<up, ident, mesh, linked, net, upsets>>

Deliver(a, b) == \E m \in net : m.from = a /\ m.to = b /\ OnSHIPSync(m)

Timers(n) == ReannounceToAll(n) \/ Sweep(n)

Next == \/ \E n \in Nodes, i \in Identities : Boot(n, i) \/ Discover(n, i) \/ Deregister(n, i)
        \/ \E n \in Nodes : Halt(n) \/ Timers(n)
        \/ \E a, b \in Nodes : LinkUp(a, b) \/ Deliver(a, b)
        \/ \E l \in mesh : LinkDown(l)
        \/ Tick

Spec == Init /\ [][Next]_vars

Running == \/ Tick \/ \E n \in Nodes : Timers(n)
           \/ \E a, b \in Nodes : LinkUp(a, b) \/ Deliver(a, b)

(***************************************************************************)
(* All that is assumed is that the mesh does not stand still: the peers are  *)
(* nodes of this program that go on reading.  What a peer that stops reading *)
(* does to a sender is in MeshPeers.                                         *)
(***************************************************************************)
FairSpec == Spec /\ WF_vars(Running)

------------------------------------------------------------------------------
Messages == [from : Nodes, to : Nodes, ids : SUBSET Identities]

TypeOK == /\ up \subseteq Nodes /\ mesh \in Meshes /\ linked \subseteq mesh /\ net \subseteq Messages
          /\ ident \in [Nodes -> Identities]
          /\ dir \in [Nodes -> [Identities -> Ages]]
          /\ since \in [Nodes -> 0..Interval]

\* "removes any existing entry for the same domain+topic with a different
\* identity": whatever order registrations, syncs and restarts come in, no
\* directory and no message ever names two identities for one domain.
OneIdentityPerDomain ==
  /\ \A n \in Nodes : \A i, j \in Entries(n) : NodeOf[i] = NodeOf[j] => i = j
  /\ \A m \in net : \A i, j \in m.ids : NodeOf[i] = NodeOf[j] => i = j

\* The sets of links without a ring: in every part of one there is a node at
\* which just one link of the part ends.
Forests ==
  {f \in SUBSET UNION Meshes : \A s \in SUBSET f \ {{}} :
                           \E n \in Nodes : Cardinality({l \in s : n \in l}) = 1}

\* While the connected links form no ring, every sync dies out: the mesh falls
\* silent between timers.  Forwarding knows no duplicates, so on a ring a sync
\* goes round for as long as the ring stands.
GossipQuiesces == <>[](linked \in Forests) => []<>(net = {})

==============================================================================
