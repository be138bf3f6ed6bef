------------------------------ MODULE MeshPeers ------------------------------
(***************************************************************************)
(* The connection table of the gossip manager (internal/gossip/manager.go,   *)
(* manager_seed.go, transport.go): who is in m.peers, under which key, and    *)
(* who takes it out again.                                                    *)
(*                                                                          *)
(* A connection is entered under its origKey - the pointer of an inbound      *)
(* transport, the endpoint of a seed - and moved to the identity key of the   *)
(* other side by the first message it delivers.  Three goroutines touch it:   *)
(* the one that accepted or dialled it (announce, wait for Done, remove), its *)
(* read loop, and the read loops of other connections, which remove an        *)
(* identity when it is slashed.  m.mu is taken for writing for single          *)
(* accesses and removals; the bond lookup runs without it.  Forwarding sends   *)
(* to every peer while it holds m.mu for reading, and a send has no write      *)
(* deadline: it ends when the peer reads or its socket is closed.              *)
(***************************************************************************)
EXTENDS Integers, FiniteSets

CONSTANTS
  Conns,         \* transports; one is reused when nothing refers to it
  Seeds,         \* seed endpoints, one reconnect loop each
  Identities,    \* identity public keys
  SeedOf,        \* [Conns -> Seeds \cup {NoSeed}]; NoSeed for inbound
  NoSeed, None,
  BondRequired   \* bondChecker.Required()

ASSUME MeshAssumption ==
  /\ SeedOf \in [Conns -> Seeds \cup {NoSeed}] /\ NoSeed \notin Seeds
  /\ None \notin Conns
  /\ Conns \cap Seeds = {} /\ Conns \cap Identities = {} /\ Seeds \cap Identities = {}
  /\ BondRequired \in BOOLEAN

VARIABLES
  peers,      \* m.peers: key -> connection
  interests,  \* m.interests: the identities with an entry
  conn,       \* what each connection and its goroutines are doing
  broadcast   \* a handler or a timer is sending to all peers (one at a time)

vars == <<peers, interests, conn, broadcast>>

Keys == Conns \cup Seeds \cup Identities

OrigKey(c) == IF SeedOf[c] = NoSeed THEN c ELSE SeedOf[c]

(***************************************************************************)
(* owner is the goroutine that will remove the connection: a seed's dials it *)
(* first; it announces our interests, waits for Done and then for m.mu;       *)
(* "failed" once AcceptPeer returned an error.  loop is the read loop of the  *)
(* transport: reading, with a frame in hand, looking the bond up, in          *)
(* handleMessage, about to forward, forwarding.                               *)
(***************************************************************************)
Free == [owner |-> "none", loop |-> "none", who |-> None, known |-> FALSE,
         closed |-> TRUE, bond |-> "unchecked"]

Init == /\ peers = [k \in Keys |-> None]
        /\ interests = {}
        /\ conn = [c \in Conns |-> Free]
        /\ broadcast = FALSE

InTable(c) == \E k \in Keys : peers[k] = c

Unused(c) == conn[c].owner \in {"none", "failed"} /\ conn[c].loop \in {"none", "done"}
             /\ ~InTable(c)

------------------------------------------------------------------------------
(* m.mu, a sync.RWMutex                                                     *)

\* The goroutines that hold it for reading are the ones that are forwarding.
LockFree == ~broadcast /\ \A c \in Conns : conn[c].loop # "send"

\* A Lock that waits keeps new readers out.
MayRead == \A c \in Conns : conn[c].owner # "remove"

\* The connections a forwarding for the identity i sends to: all but the
\* sender's.  It may block at any that is open.
Recipients(i) == {peers[k] : k \in Keys \ {i}} \ {None}

MayBlock(i) == \E d \in Recipients(i) : ~conn[d].closed

Held == \/ broadcast /\ MayBlock(None)
        \/ \E c \in Conns : conn[c].loop = "send" /\ MayBlock(conn[c].who)

------------------------------------------------------------------------------
Connected(i) == [Free EXCEPT !.owner = "announce", !.loop = "read", !.who = i,
                             !.closed = FALSE]

\* A reconnect loop, at first or an interval after it lost its connection,
\* dials; it is the only goroutine of its seed.
Dial(c) ==
  /\ Unused(c) /\ SeedOf[c] # NoSeed
  /\ \A d \in Conns : SeedOf[d] = SeedOf[c] => conn[d].owner = "none"
  /\ conn' = [conn EXCEPT ![c] = [Free EXCEPT !.owner = "dial"]]
  /\ UNCHANGED <<peers, interests, broadcast>>

\* websocket.Dial, which has no deadline, or peer.Start fails.
DialFails(c) ==
  /\ conn[c].owner = "dial"
  /\ conn' = [conn EXCEPT ![c].owner = "none"]
  /\ UNCHANGED <<peers, interests, broadcast>>

\* AcceptPeer, or an iteration of ConnectSeedWithReconnect that has dialled, up
\* to the announcement; i is the identity at the other end.
Connect(c, i) ==
  /\ IF SeedOf[c] = NoSeed THEN Unused(c) ELSE conn[c].owner = "dial"
  /\ LockFree
  /\ peers' = [peers EXCEPT ![OrigKey(c)] = c]
  /\ conn' = [conn EXCEPT ![c] = Connected(i)]
  /\ UNCHANGED <<interests, broadcast>>

\* The announcement is sent; a seed loop goes on if it failed.
Announced(c) ==
  /\ conn[c].owner = "announce"
  /\ conn' = [conn EXCEPT ![c].owner = "wait"]
  /\ UNCHANGED <<peers, interests, broadcast>>

\* AcceptPeer returns the error of announceInterests: MeshHandler returns, and
\* the websocket server closes the socket behind it.
AcceptFails(c) ==
  /\ conn[c].owner = "announce" /\ SeedOf[c] = NoSeed
  /\ conn' = [conn EXCEPT ![c].owner = "failed", ![c].closed = TRUE]
  /\ UNCHANGED <<peers, interests, broadcast>>

\* The other end or the network breaks the connection.
Break(c) ==
  /\ ~conn[c].closed
  /\ conn' = [conn EXCEPT ![c].closed = TRUE]
  /\ UNCHANGED <<peers, interests, broadcast>>

------------------------------------------------------------------------------
(* removePeerWithReason                                                     *)

\* Mutant: only the key itself is tried, as before entries were re-keyed.
RemovableFastPath(key) == IF peers[key] # None THEN {key} ELSE {}

\* The keys the removal may delete: the key itself, else one whose entry has it
\* as origKey.
Removable(key) ==
  IF peers[key] # None THEN {key}
  ELSE {k \in Keys : peers[k] # None /\ OrigKey(peers[k]) = key}

\* The table, the interests and the connections after the removal; s is the
\* record of the connections as the caller leaves them.
removePeer(key, s) ==
  /\ LockFree
  /\ IF Removable(key) = {} THEN /\ conn' = s
                                 /\ UNCHANGED <<peers, interests>>
     ELSE \E k \in Removable(key) :
            /\ peers' = [peers EXCEPT ![k] = None]
            /\ interests' = interests \ {k}
            /\ conn' = [s EXCEPT ![peers[k]].closed = TRUE]
  /\ UNCHANGED broadcast

------------------------------------------------------------------------------
(* The read loop and the message callback                                   *)

Receive(c) ==
  /\ conn[c].loop = "read" /\ ~conn[c].closed
  /\ conn' = [conn EXCEPT ![c].loop = "frame"]
  /\ UNCHANGED <<peers, interests, broadcast>>

\* Mutant: the entry stays under its first key as well.
RevealKeepsKey(c) ==
  /\ conn[c].loop = "frame" /\ LockFree
  /\ LET d == peers[OrigKey(c)]
     IN  /\ d # None /\ ~conn[d].known
         /\ peers' = [peers EXCEPT ![conn[c].who] = d]
         /\ conn' = [conn EXCEPT ![d].known = TRUE,
                                 ![c].loop = IF BondRequired THEN "bond" ELSE "handle"]
  /\ UNCHANGED <<interests, broadcast>>

\* Mutant: the bond is only looked up for an identity that is not yet known.
RevealTrustsOther(c) ==
  /\ conn[c].loop = "frame" /\ LockFree
  /\ LET key == OrigKey(c)
         d   == peers[key]
     IN  /\ d # None /\ ~conn[d].known
         /\ peers' = [peers EXCEPT ![conn[c].who] = d, ![key] = None]
         /\ conn' = [conn EXCEPT ![d].known = TRUE,
                      ![c].loop = IF BondRequired /\ peers[conn[c].who] = None
                                  THEN "bond" ELSE "handle"]
  /\ UNCHANGED <<interests, broadcast>>

\* The frame in hand reaches the callback, whatever has become of the connection
\* in the meantime.  The entry found under origKey has no identity yet: it is
\* moved to the identity key, in place of whatever is there.
Reveal(c) ==
  /\ conn[c].loop = "frame" /\ LockFree
  /\ LET key == OrigKey(c)
         d   == peers[key]
     IN  /\ d # None /\ ~conn[d].known
         /\ peers' = [peers EXCEPT ![conn[c].who] = d, ![key] = None]
         /\ conn' = [conn EXCEPT ![d].known = TRUE,
                                 ![c].loop = IF BondRequired THEN "bond" ELSE "handle"]
  /\ UNCHANGED <<interests, broadcast>>

\* There is no entry under origKey: it was moved by an earlier message, or
\* taken out.
LaterMessage(c) ==
  /\ conn[c].loop = "frame" /\ LockFree
  /\ peers[OrigKey(c)] # None => conn[peers[OrigKey(c)]].known
  /\ conn' = [conn EXCEPT ![c].loop = "handle"]
  /\ UNCHANGED <<peers, interests, broadcast>>

\* VerifyBond succeeded; the balance goes to the entry the identity has now.
BondVerified(c) ==
  /\ conn[c].loop = "bond" /\ LockFree
  /\ conn' = [conn EXCEPT ![c].loop = "handle", ![c].bond = "verified"]
  /\ UNCHANGED <<peers, interests, broadcast>>

\* VerifyBond failed: the entry of the identity is removed, and the callback
\* returns an error that the read loop ignores.
BondRejected(c) ==
  /\ conn[c].loop = "bond"
  /\ removePeer(conn[c].who, [conn EXCEPT ![c].loop = "read", ![c].bond = "rejected"])

\* handleMessage: a topics message sets the interests of the sender, a slash
\* warning may remove its target and is forwarded, and so are envelopes and
\* registrations; the rest leaves the table alone.
OnTopics(c) ==
  /\ conn[c].loop = "handle" /\ LockFree
  /\ interests' = interests \cup {conn[c].who}
  /\ conn' = [conn EXCEPT ![c].loop = "read"]
  /\ UNCHANGED <<peers, broadcast>>

OnSlashed(c, target) ==
  /\ conn[c].loop = "handle" /\ target # conn[c].who
  /\ removePeer(target, [conn EXCEPT ![c].loop = "forward"])

OnOther(c) ==
  /\ conn[c].loop = "handle"
  /\ conn' = [conn EXCEPT ![c].loop = "read"]
  /\ UNCHANGED <<peers, interests, broadcast>>

\* forwardToInterested, forwardSHIPToAll or forwardSlashWarning takes the lock
\* and sends to the others in turn; the last send returns.
Forward(c) ==
  /\ conn[c].loop \in {"handle", "forward"} /\ MayRead
  /\ conn' = [conn EXCEPT ![c].loop = "send"]
  /\ UNCHANGED <<peers, interests, broadcast>>

Forwarded(c) ==
  /\ conn[c].loop = "send"
  /\ conn' = [conn EXCEPT ![c].loop = "read"]
  /\ UNCHANGED <<peers, interests, broadcast>>

\* BroadcastEnvelope, ReannounceToAll or broadcastSlashWarning, outside the
\* read loops.
Broadcast == /\ ~broadcast /\ MayRead
             /\ broadcast' = TRUE
             /\ UNCHANGED <<peers, interests, conn>>

BroadcastEnds == /\ broadcast
                 /\ broadcast' = FALSE
                 /\ UNCHANGED <<peers, interests, conn>>

\* broadcastSlashWarning found the threshold reached and started a goroutine.
Deregister(target) == removePeer(target, conn)

\* Receive returns an error: the socket was closed, or sent a frame it refuses.
ReadEnds(c) ==
  /\ conn[c].loop = "read"
  /\ conn' = [conn EXCEPT ![c].loop = "done"]
  /\ UNCHANGED <<peers, interests, broadcast>>

\* Done is closed: the owner calls removePeerWithReason, which asks for the lock.
Done(c) ==
  /\ conn[c].owner = "wait" /\ conn[c].loop = "done"
  /\ conn' = [conn EXCEPT ![c].owner = "remove"]
  /\ UNCHANGED <<peers, interests, broadcast>>

\* Mutant: the entry is looked up by identity once that is known.
CleanupByIdentity(c) ==
  /\ conn[c].owner = "remove"
  /\ removePeer(IF conn[c].known THEN conn[c].who ELSE OrigKey(c),
                [conn EXCEPT ![c].owner = "none"])

\* Mutant: the goroutine returns after the first connection.
CleanupReturns(c) ==
  /\ conn[c].owner = "remove"
  /\ removePeer(OrigKey(c), [conn EXCEPT ![c].owner = "failed"])

\* The owner has the lock and removes the connection.
Cleanup(c) ==
  /\ conn[c].owner = "remove"
  /\ removePeer(OrigKey(c), [conn EXCEPT ![c].owner = "none"])

\* Stop, at shutdown: every entry is closed and the table emptied.
Stop == /\ LockFree
        /\ peers' = [k \in Keys |-> None]
        /\ conn' = [c \in Conns |->
                      IF InTable(c) THEN [conn[c] EXCEPT !.closed = TRUE] ELSE conn[c]]
        /\ UNCHANGED <<interests, broadcast>>

ReadLoop(c) == \/ Receive(c) \/ Reveal(c) \/ LaterMessage(c)
               \/ BondVerified(c) \/ BondRejected(c)
               \/ OnTopics(c) \/ OnOther(c) \/ Forward(c) \/ Forwarded(c)
               \/ \E target \in Identities : OnSlashed(c, target)
               \/ ReadEnds(c)

Owner(c) == Dial(c) \/ DialFails(c) \/ Announced(c) \/ AcceptFails(c)
            \/ Done(c) \/ Cleanup(c)

Redial(e) == \E c \in Conns : SeedOf[c] = e /\ Dial(c)

Next == \/ \E c \in Conns, i \in Identities : Connect(c, i)
        \/ \E c \in Conns : Owner(c) \/ ReadLoop(c) \/ Break(c)
        \/ \E target \in Identities : Deregister(target)
        \/ Broadcast \/ BroadcastEnds \/ Stop

Spec == Init /\ [][Next]_vars

(***************************************************************************)
(* What goroutines do by themselves: an owner goes on when Done is closed and *)
(* when it gets the lock, a reconnect loop dials after its interval, and a    *)
(* send fails once its socket is closed.  A send to an open connection is     *)
(* not assumed to end, nor a dial, nor anything the read loops wait for.      *)
(***************************************************************************)
FairSpec == /\ Spec
            /\ \A c \in Conns : /\ WF_vars(Done(c)) /\ WF_vars(Cleanup(c))
                                /\ WF_vars(conn[c].closed /\ Announced(c))
                                /\ WF_vars(~MayBlock(conn[c].who) /\ Forwarded(c))
            /\ WF_vars(~MayBlock(None) /\ BroadcastEnds)
            /\ \A e \in Seeds : WF_vars(Redial(e))

------------------------------------------------------------------------------
ConnStates ==
  [owner : {"none", "dial", "announce", "wait", "remove", "failed"},
   loop : {"none", "read", "frame", "bond", "handle", "forward", "send", "done"},
   who : Identities \cup {None}, known : BOOLEAN, closed : BOOLEAN,
   bond : {"unchecked", "verified", "rejected"}]

TypeOK == /\ peers \in [Keys -> Conns \cup {None}]
          /\ interests \subseteq Identities
          /\ conn \in [Conns -> ConnStates]
          /\ broadcast \in BOOLEAN

\* An entry is under its origKey until its identity is known and under the
\* identity of its other end afterwards, so removal by either key finds it and
\* no connection is in the table twice.
EntriesKeyed ==
  \A k \in Keys : peers[k] # None =>
    k = IF conn[peers[k]].known THEN conn[peers[k]].who ELSE OrigKey(peers[k])

\* "identifies it unambiguously even with multiple inbound peers": the cleanup
\* of a closed connection removes no entry of another one, also when both ends
\* have dialled each other and share an identity.
CleanupRemovesOwn ==
  [][\A c \in Conns : Cleanup(c) =>
       \A k \in Keys : peers'[k] # peers[k] => peers[k] = c]_vars

\* A connection in the table has a goroutine that will take it out, unless
\* AcceptPeer failed after it had entered it.
EntriesOwned ==
  \A k \in Keys : peers[k] # None => conn[peers[k]].owner \notin {"none", "dial"}

\* With a bond required, handleMessage runs without a verified bond only for a
\* connection that is out of the table: one that was closed while a frame was in
\* hand, which no lookup stops, or one whose rejection took out a newer
\* connection of the identity in its place and left it open.
HandledBonded ==
  BondRequired =>
    \A c \in Conns : conn[c].loop \in {"handle", "forward", "send"} =>
      \/ conn[c].bond = "verified"
      \/ ~InTable(c) /\ (conn[c].closed \/ conn[c].bond = "rejected")

\* A connection that was accepted and whose read loop ended leaves the table,
\* unless a forwarding under the read lock hangs for ever at an open connection.
DeadConnectionsLeave ==
  \A c \in Conns : \/ conn[c].owner = "wait" /\ conn[c].loop = "done" ~> ~InTable(c)
                   \/ <>[]Held

\* "automatically reconnects if the connection drops": a seed whose read loop
\* ended, through the network, a slashing or a rejected bond, is dialled again,
\* unless a forwarding, or its own announcement, hangs for ever at an open
\* connection.
SeedRedialled ==
  \A c \in {d \in Conns : SeedOf[d] # NoSeed} :
    \/ conn[c].loop = "done" /\ conn[c].owner \in {"announce", "wait", "remove"}
         ~> \E d \in Conns : SeedOf[d] = SeedOf[c] /\ conn[d].owner = "dial"
    \/ <>[]Held
    \/ <>[](conn[c].owner = "announce" /\ ~conn[c].closed)

==============================================================================
