--------------------------- MODULE MeshPeersProofs ---------------------------
(***************************************************************************)
(* Proofs about the connection table, for any number of connections, seeds   *)
(* and identities.                                                           *)
(***************************************************************************)
EXTENDS MeshPeers, TLAPS

Active == {"read", "frame", "bond", "handle", "forward", "send"}

\* A connection with an owner has an other end, a running read loop has an owner,
\* and an owner removes a connection whose read loop has ended.
Owned ==
  \A c \in Conns :
    /\ conn[c].owner \notin {"none", "dial"} => conn[c].who \in Identities
    /\ conn[c].loop \in Active => conn[c].owner \notin {"none", "dial"}
    /\ conn[c].owner = "remove" => conn[c].loop = "done"

\* A reconnect loop has one connection at a time.
OnePerSeed ==
  \A c, d \in Conns :
    /\ SeedOf[c] = SeedOf[d] /\ SeedOf[c] # NoSeed
    /\ conn[c].owner # "none" /\ conn[d].owner # "none"
    => c = d

\* The bond is looked up for a connection whose identity is known, and one that
\* was rejected is not in the table.
Rejected ==
  \A c \in Conns : /\ conn[c].loop = "bond" => conn[c].known
                   /\ conn[c].bond = "rejected" => ~InTable(c)

\* The entry of c still waits for the first message of its read loop.
Waiting(c) == /\ conn[c].loop \in {"read", "frame"}
              /\ peers[OrigKey(c)] = c /\ ~conn[c].known

\* A connection whose bond was not looked up still waits for its first message
\* under the key it was entered with, or was taken out and closed before it.
Fresh ==
  BondRequired =>
    \A c \in Conns :
      conn[c].loop \in Active \ {"bond"} /\ conn[c].bond = "unchecked"
        => Waiting(c) \/ (~InTable(c) /\ conn[c].closed)

MeshInv == /\ TypeOK /\ EntriesKeyed /\ EntriesOwned
           /\ Owned /\ OnePerSeed /\ Rejected /\ Fresh

------------------------------------------------------------------------------
(* Steps that leave the table alone or take entries out of it               *)

\* An entry that goes is closed.
Shrinks ==
  \A k \in Keys : \/ peers'[k] = peers[k]
                  \/ /\ peers'[k] = None /\ peers[k] # None
                     /\ conn'[peers[k]].closed

\* Only the positions of goroutines, the bond and closed may change.
Advances ==
  \A c \in Conns :
    /\ conn'[c].who = conn[c].who /\ conn'[c].known = conn[c].known
    /\ conn[c].closed => conn'[c].closed
    /\ conn'[c].owner # "none" => conn[c].owner # "none"
    /\ conn'[c].owner \notin {"none", "dial"} <=> conn[c].owner \notin {"none", "dial"}
    /\ conn'[c].owner = "remove" => conn'[c].loop = "done"
    /\ conn'[c].loop \in Active => conn[c].loop \in Active
    /\ conn'[c].loop = "bond" => conn[c].loop = "bond"
    /\ conn'[c].bond = "rejected" => conn[c].bond = "rejected" \/ ~InTable(c)'
    /\ BondRequired /\ conn'[c].loop \in Active \ {"bond"} /\ conn'[c].bond = "unchecked"
         => /\ conn[c].loop \in Active \ {"bond"} /\ conn[c].bond = "unchecked"
            /\ Waiting(c) => conn'[c].loop \in {"read", "frame"}

\* An original key is no identity, and two connections share it only when
\* they are of one seed.
LEMMA KeyFacts ==
  ASSUME NEW c \in Conns
  PROVE  /\ OrigKey(c) \in Keys /\ OrigKey(c) \notin Identities
         /\ \A d \in Conns : OrigKey(c) = OrigKey(d)
              => c = d \/ (SeedOf[c] = SeedOf[d] /\ SeedOf[c] # NoSeed)
  BY MeshAssumption DEF OrigKey, Keys

\* removePeerWithReason takes out at most one entry and closes it.
LEMMA RemoveFrame ==
  ASSUME TypeOK, NEW key \in Keys, NEW s \in [Conns -> ConnStates],
         removePeer(key, s)
  PROVE  /\ TypeOK' /\ Shrinks /\ broadcast' = broadcast
         /\ \A k \in Keys : peers'[k] # peers[k] => k \in Removable(key)
         /\ \A c \in Conns :
              /\ conn'[c].owner = s[c].owner /\ conn'[c].loop = s[c].loop
              /\ conn'[c].who = s[c].who /\ conn'[c].known = s[c].known
              /\ conn'[c].bond = s[c].bond /\ (s[c].closed => conn'[c].closed)
<1>1. CASE Removable(key) = {}
  <2>1. conn' = s /\ peers' = peers /\ interests' = interests /\ broadcast' = broadcast
    BY <1>1 DEF removePeer
  <2> QED BY <2>1 DEF TypeOK, Shrinks
<1>2. CASE Removable(key) # {}
  <2>1. PICK k \in Removable(key) :
          /\ peers' = [peers EXCEPT ![k] = None]
          /\ interests' = interests \ {k}
          /\ conn' = [s EXCEPT ![peers[k]].closed = TRUE]
    BY <1>2 DEF removePeer
  <2>b. broadcast' = broadcast
    BY DEF removePeer
  <2>2. k \in Keys /\ peers[k] # None
    BY DEF Removable
  <2>3. peers[k] \in Conns
    BY <2>2 DEF TypeOK
  <2>4. conn' \in [Conns -> ConnStates] /\ conn'[peers[k]].closed
    <3> DEFINE c == peers[k]
    <3>1. \A r \in ConnStates : /\ [r EXCEPT !.closed = TRUE] \in ConnStates
                                /\ [r EXCEPT !.closed = TRUE].closed = TRUE
      BY DEF ConnStates
    <3>2. conn' = [s EXCEPT ![c] = [s[c] EXCEPT !.closed = TRUE]]
      BY <2>1
    <3>3. conn'[c] = [s[c] EXCEPT !.closed = TRUE] /\ s[c] \in ConnStates
      BY <2>3, <3>2
    <3> QED BY <2>3, <3>1, <3>2, <3>3
  <2>5. \A c \in Conns :
              /\ conn'[c].owner = s[c].owner /\ conn'[c].loop = s[c].loop
              /\ conn'[c].who = s[c].who /\ conn'[c].known = s[c].known
              /\ conn'[c].bond = s[c].bond /\ (s[c].closed => conn'[c].closed)
    BY <2>1, <2>3 DEF ConnStates
  <2>6. peers' \in [Keys -> Conns \cup {None}] /\ interests' \subseteq Identities
    BY <2>1 DEF TypeOK
  <2>7. \A j \in Keys : j # k => peers'[j] = peers[j]
    BY <2>1 DEF TypeOK
  <2>8. peers'[k] = None
    BY <2>1, <2>2 DEF TypeOK
  <2> QED BY <2>2, <2>4, <2>5, <2>6, <2>7, <2>8, <2>b DEF TypeOK, Shrinks
<1> QED BY <1>1, <1>2

\* Steps that only advance goroutines and close the entries they take out keep
\* the invariant.
LEMMA ShrinkKeeps ==
  ASSUME MeshInv, TypeOK', Shrinks, Advances
  PROVE  MeshInv'
<1> USE DEF MeshInv
<1>1. \A k \in Keys : peers[k] # None => peers[k] \in Conns
  BY DEF TypeOK
<1>2. EntriesKeyed'
  BY <1>1 DEF EntriesKeyed, Shrinks, Advances
<1>3. EntriesOwned'
  BY <1>1 DEF EntriesOwned, Shrinks, Advances
<1>4. \A c \in Conns : InTable(c)' => InTable(c)
  <2> SUFFICES ASSUME NEW c \in Conns, NEW k \in Keys, peers'[k] = c PROVE InTable(c)
    BY DEF InTable
  <2>1. c # None
    BY MeshAssumption
  <2> QED BY <2>1 DEF Shrinks, InTable
<1>5. Owned'
  BY DEF Owned, Advances
<1>6. OnePerSeed'
  BY DEF OnePerSeed, Advances
<1>7. Rejected'
  BY <1>4 DEF Rejected, Advances
<1>8. Fresh'
  <2> SUFFICES ASSUME BondRequired, NEW c \in Conns,
                      conn'[c].loop \in Active \ {"bond"}, conn'[c].bond = "unchecked"
               PROVE  Waiting(c)' \/ (~InTable(c)' /\ conn'[c].closed)
    BY DEF Fresh
  <2>1. Waiting(c) \/ (~InTable(c) /\ conn[c].closed)
    BY DEF Fresh, Advances
  <2>2. CASE ~InTable(c) /\ conn[c].closed
    BY <2>2, <1>4 DEF Advances
  <2>3. CASE Waiting(c)
    <3>1. /\ peers[OrigKey(c)] = c /\ ~conn[c].known /\ c # None /\ OrigKey(c) \in Keys
          /\ conn'[c].loop \in {"read", "frame"} /\ ~conn'[c].known
      BY <2>3, KeyFacts, MeshAssumption DEF Waiting, Advances
    <3>2. CASE peers'[OrigKey(c)] = c
      BY <3>1, <3>2 DEF Waiting
    <3>3. CASE peers'[OrigKey(c)] # c
      <4>1. peers'[OrigKey(c)] = None /\ conn'[c].closed
        BY <3>1, <3>3 DEF Shrinks
      <4>2. ~InTable(c)'
        <5> SUFFICES ASSUME NEW k \in Keys, peers'[k] = c PROVE FALSE
          BY DEF InTable
        <5>1. peers[k] = c
          BY <3>1 DEF Shrinks
        <5>2. k = OrigKey(c)
          BY <3>1, <5>1 DEF EntriesKeyed
        <5> QED BY <3>1, <4>1, <5>2
      <4> QED BY <4>1, <4>2
    <3> QED BY <3>2, <3>3
  <2> QED BY <2>1, <2>2, <2>3
<1> QED BY <1>2, <1>3, <1>5, <1>6, <1>7, <1>8

\* Two entries with one origKey, one of them owned by a goroutine, are the same.
LEMMA Sole ==
  ASSUME MeshInv, NEW c \in Conns, conn[c].owner \notin {"none", "dial"},
         NEW k \in Keys, peers[k] # None, OrigKey(peers[k]) = OrigKey(c)
  PROVE  peers[k] = c
<1>1. peers[k] \in Conns
  BY DEF MeshInv, TypeOK
<1>2. conn[peers[k]].owner # "none"
  BY DEF MeshInv, EntriesOwned
<1> QED BY <1>1, <1>2, KeyFacts DEF MeshInv, OnePerSeed

\* What lies under the origKey of an owned connection is that connection.
LEMMA UnderOrigKey ==
  ASSUME MeshInv, NEW c \in Conns, conn[c].owner \notin {"none", "dial"},
         peers[OrigKey(c)] # None
  PROVE  peers[OrigKey(c)] = c /\ ~conn[c].known
<1> DEFINE key == OrigKey(c)
           d == peers[key]
<1>1. key \in Keys /\ key \notin Identities
  BY KeyFacts
<1>2. d \in Conns
  BY <1>1 DEF MeshInv, TypeOK
<1>3. conn[d].who \in Identities
  BY <1>1, <1>2 DEF MeshInv, EntriesOwned, Owned
<1>4. ~conn[d].known /\ key = OrigKey(d)
  BY <1>1, <1>3 DEF MeshInv, EntriesKeyed
<1> QED BY <1>1, <1>4, Sole

\* A reconnect loop dials with a connection nothing refers to.
LEMMA DialStep ==
  ASSUME MeshInv, NEW c \in Conns, Dial(c)
  PROVE  MeshInv'
<1> DEFINE f == [Free EXCEPT !.owner = "dial"]
<1>1. /\ conn \in [Conns -> ConnStates] /\ conn' = [conn EXCEPT ![c] = f]
      /\ UNCHANGED <<peers, interests, broadcast>> /\ Unused(c)
      /\ \A d \in Conns : SeedOf[d] = SeedOf[c] => conn[d].owner = "none"
  BY DEF MeshInv, TypeOK, Dial
<1>2. /\ f \in ConnStates /\ f.owner = "dial" /\ f.loop = "none" /\ f.bond = "unchecked"
  BY DEF Free, ConnStates
<1> HIDE DEF f
<1>3. conn'[c] = f /\ \A d \in Conns : d # c => conn'[d] = conn[d]
  BY <1>1
<1>4. \A k \in Keys : peers[k] # c
  BY <1>1 DEF Unused, InTable
<1>5. \A k \in Keys : peers[k] # None => peers[k] \in Conns
  BY DEF MeshInv, TypeOK
<1>6. TypeOK'
  BY <1>1, <1>2 DEF MeshInv, TypeOK
<1>7. EntriesKeyed' /\ EntriesOwned'
  BY <1>1, <1>3, <1>4, <1>5 DEF MeshInv, EntriesKeyed, EntriesOwned
<1>8. Owned' /\ OnePerSeed'
  BY <1>1, <1>2, <1>3 DEF MeshInv, Owned, OnePerSeed, Active
<1>9. \A d \in Conns : InTable(d)' <=> InTable(d)
  BY <1>1 DEF InTable
<1>10. Rejected' /\ Fresh'
  BY <1>1, <1>2, <1>3, <1>9 DEF MeshInv, Rejected, Fresh, Waiting, Active
<1> QED BY <1>6, <1>7, <1>8, <1>10 DEF MeshInv

\* AcceptPeer or a dialled seed enters its connection under a free key.
LEMMA ConnectStep ==
  ASSUME MeshInv, NEW c \in Conns, NEW i \in Identities, Connect(c, i)
  PROVE  MeshInv'
<1> DEFINE key == OrigKey(c)
<1>1. key \in Keys /\ key \notin Identities
  BY KeyFacts
<1>2. /\ conn \in [Conns -> ConnStates] /\ peers \in [Keys -> Conns \cup {None}]
      /\ interests \subseteq Identities /\ broadcast \in BOOLEAN
  BY DEF MeshInv, TypeOK
<1>3. /\ peers' = [peers EXCEPT ![key] = c]
      /\ conn' = [conn EXCEPT ![c] = Connected(i)]
      /\ interests' = interests /\ broadcast' = broadcast
      /\ IF SeedOf[c] = NoSeed THEN Unused(c) ELSE conn[c].owner = "dial"
  BY DEF Connect
<1>4. /\ Connected(i) \in ConnStates
      /\ Connected(i).owner = "announce" /\ Connected(i).loop = "read"
      /\ Connected(i).who = i /\ Connected(i).known = FALSE
      /\ Connected(i).closed = FALSE /\ Connected(i).bond = "unchecked"
  BY DEF Connected, Free, ConnStates
<1>c. c # None
  BY MeshAssumption
<1> HIDE DEF key
<1>5. TypeOK'
  BY <1>1, <1>2, <1>3, <1>4 DEF TypeOK
<1>6. /\ conn'[c] = Connected(i)
      /\ \A d \in Conns : d # c => conn'[d] = conn[d]
      /\ peers'[key] = c
      /\ \A k \in Keys : k # key => peers'[k] = peers[k]
  BY <1>1, <1>2, <1>3
<1>7. \A k \in Keys : peers[k] # c
  BY <1>3, <1>c DEF Unused, InTable, MeshInv, EntriesOwned
<1>8. EntriesKeyed'
  BY <1>2, <1>4, <1>6, <1>7 DEF MeshInv, EntriesKeyed, key
<1>9. EntriesOwned'
  BY <1>2, <1>4, <1>6, <1>7 DEF MeshInv, EntriesOwned
<1>10. Owned'
  BY <1>4, <1>6 DEF MeshInv, Owned
<1>11. OnePerSeed'
  BY <1>3, <1>4, <1>6 DEF MeshInv, OnePerSeed
<1>12. \A d \in Conns : d # c => (InTable(d)' => InTable(d))
  BY <1>6 DEF InTable
<1>13. Rejected'
  BY <1>4, <1>6, <1>12 DEF MeshInv, Rejected
<1>14. Fresh'
  <2> SUFFICES ASSUME BondRequired, NEW d \in Conns,
                      conn'[d].loop \in Active \ {"bond"}, conn'[d].bond = "unchecked"
               PROVE  Waiting(d)' \/ (~InTable(d)' /\ conn'[d].closed)
    BY DEF Fresh
  <2>1. CASE d = c
    BY <2>1, <1>4, <1>6 DEF key, Waiting
  <2>2. CASE d # c
    <3>1. conn'[d] = conn[d] /\ conn[d].owner \notin {"none", "dial"}
      BY <2>2, <1>6 DEF MeshInv, Owned
    <3>2. Waiting(d) \/ (~InTable(d) /\ conn[d].closed)
      BY <3>1 DEF MeshInv, Fresh
    <3>3. CASE ~InTable(d) /\ conn[d].closed
      BY <2>2, <3>1, <3>3, <1>12
    <3>4. CASE Waiting(d)
      <4>1. OrigKey(d) # key
        BY <2>2, <3>1, <1>3, KeyFacts DEF key, MeshInv, OnePerSeed
      <4> QED BY <3>1, <3>4, <4>1, <1>6, KeyFacts DEF Waiting
    <3> QED BY <3>2, <3>3, <3>4
  <2> QED BY <2>1, <2>2
<1> QED BY <1>5, <1>8, <1>9, <1>10, <1>11, <1>13, <1>14 DEF MeshInv

\* The first message moves an entry to its identity, over an older connection
\* of that identity if there is one.
LEMMA RevealStep ==
  ASSUME MeshInv, NEW c \in Conns, Reveal(c)
  PROVE  MeshInv'
<1> DEFINE key == OrigKey(c)
           who == conn[c].who
           next == IF BondRequired THEN "bond" ELSE "handle"
<1>1. key \in Keys /\ key \notin Identities
  BY KeyFacts
<1>2. /\ conn \in [Conns -> ConnStates] /\ peers \in [Keys -> Conns \cup {None}]
      /\ interests \subseteq Identities /\ broadcast \in BOOLEAN
  BY DEF MeshInv, TypeOK
<1>3. conn[c].loop = "frame" /\ conn[c].owner \notin {"none", "dial"} /\ who \in Identities
  BY DEF MeshInv, Owned, Reveal, Active
<1>4. peers[key] # None
  BY DEF Reveal
<1>5. peers[key] = c
  BY <1>3, <1>4, UnderOrigKey
<1>6. /\ peers' = [peers EXCEPT ![who] = c, ![key] = None]
      /\ conn' = [conn EXCEPT ![c].known = TRUE, ![c].loop = next]
      /\ interests' = interests /\ broadcast' = broadcast
  BY <1>5 DEF Reveal
<1>7. who \in Keys /\ who # key
  BY <1>1, <1>3 DEF Keys
<1>8. /\ peers' \in [Keys -> Conns \cup {None}]
      /\ peers'[who] = c /\ peers'[key] = None
      /\ \A k \in Keys : k # who /\ k # key => peers'[k] = peers[k]
  BY <1>1, <1>2, <1>6, <1>7
<1>9. \A r \in ConnStates :
        LET q == [r EXCEPT !.known = TRUE, !.loop = next]
        IN  /\ q \in ConnStates /\ q.known = TRUE /\ q.loop = next
            /\ q.who = r.who /\ q.owner = r.owner /\ q.bond = r.bond
  BY DEF ConnStates
<1>10. conn' = [conn EXCEPT ![c] = [conn[c] EXCEPT !.known = TRUE, !.loop = next]]
  BY <1>6
<1>11. /\ conn' \in [Conns -> ConnStates]
       /\ conn'[c].known = TRUE /\ conn'[c].loop = next
       /\ conn'[c].who = who /\ conn'[c].owner = conn[c].owner
       /\ \A d \in Conns : d # c => conn'[d] = conn[d]
  BY <1>2, <1>9, <1>10
<1>12. TypeOK'
  BY <1>2, <1>6, <1>8, <1>11 DEF TypeOK
<1>13. \A k \in Keys : k # key => peers[k] # c
  BY <1>1, <1>5, UnderOrigKey, <1>3, <1>4, MeshAssumption DEF MeshInv, EntriesKeyed
<1>14. c # None
  BY MeshAssumption
<1> HIDE DEF key, who
<1>15. EntriesKeyed'
  <2> SUFFICES ASSUME NEW k \in Keys, peers'[k] # None
               PROVE  k = IF conn'[peers'[k]].known THEN conn'[peers'[k]].who
                          ELSE OrigKey(peers'[k])
    BY DEF EntriesKeyed
  <2>1. CASE k = who
    BY <2>1, <1>8, <1>11
  <2>2. CASE k # who
    <3>1. k # key /\ peers'[k] = peers[k]
      BY <2>2, <1>8
    <3>2. peers[k] # c /\ peers[k] \in Conns
      BY <3>1, <1>2, <1>13
    <3> QED BY <3>1, <3>2, <1>11 DEF MeshInv, EntriesKeyed
  <2> QED BY <2>1, <2>2
<1>16. EntriesOwned'
  BY <1>2, <1>3, <1>8, <1>11 DEF MeshInv, EntriesOwned
<1>17. Owned'
  BY <1>3, <1>11 DEF MeshInv, Owned, next, Active
<1>18. OnePerSeed'
  BY <1>11 DEF MeshInv, OnePerSeed
<1>19. \A d \in Conns : d # c => (InTable(d)' => InTable(d))
  BY <1>8, MeshAssumption DEF InTable
<1>20. conn'[c].bond = conn[c].bond
  BY <1>2, <1>9, <1>10
<1>21. conn[c].bond # "rejected"
  BY <1>1, <1>5 DEF MeshInv, Rejected, InTable
<1>22. Rejected'
  BY <1>11, <1>19, <1>20, <1>21 DEF MeshInv, Rejected
<1>23. Fresh'
  <2> SUFFICES ASSUME BondRequired, NEW d \in Conns,
                      conn'[d].loop \in Active \ {"bond"}, conn'[d].bond = "unchecked"
               PROVE  Waiting(d)' \/ (~InTable(d)' /\ conn'[d].closed)
    BY DEF Fresh
  <2>1. d # c
    BY <1>11 DEF next
  <2>2. conn'[d] = conn[d] /\ (Waiting(d) \/ (~InTable(d) /\ conn[d].closed))
    BY <2>1, <1>11 DEF MeshInv, Fresh
  <2>3. CASE ~InTable(d) /\ conn[d].closed
    BY <2>1, <2>2, <2>3, <1>19
  <2>4. CASE Waiting(d)
    <3>1. OrigKey(d) # key /\ OrigKey(d) # who /\ OrigKey(d) \in Keys
      BY <2>1, <2>4, <1>3, <1>5, KeyFacts DEF Waiting
    <3> QED BY <2>2, <2>4, <3>1, <1>8 DEF Waiting
  <2> QED BY <2>2, <2>3, <2>4
<1> QED BY <1>12, <1>15, <1>16, <1>17, <1>18, <1>22, <1>23 DEF MeshInv

\* Cleanup finds the entry of its own connection or none.
LEMMA CleanupFinds ==
  ASSUME MeshInv, NEW c \in Conns, conn[c].owner \notin {"none", "dial"},
         NEW k \in Removable(OrigKey(c))
  PROVE  k \in Keys /\ peers[k] = c
<1>1. OrigKey(c) \in Keys
  BY KeyFacts
<1>2. CASE peers[OrigKey(c)] # None
  BY <1>1, <1>2, UnderOrigKey DEF Removable
<1>3. CASE peers[OrigKey(c)] = None
  <2>1. k \in Keys /\ peers[k] # None /\ OrigKey(peers[k]) = OrigKey(c)
    BY <1>3 DEF Removable
  <2> QED BY <2>1, Sole
<1> QED BY <1>2, <1>3

\* An owner takes its own connection out.
LEMMA CleanupStep ==
  ASSUME MeshInv, NEW c \in Conns, Cleanup(c)
  PROVE  MeshInv'
<1> DEFINE s == [conn EXCEPT ![c].owner = "none"]
           key == OrigKey(c)
<1>1. key \in Keys
  BY KeyFacts
<1>2. TypeOK /\ conn \in [Conns -> ConnStates]
  BY DEF MeshInv, TypeOK
<1>3. conn[c].loop = "done" /\ conn[c].owner = "remove" /\ removePeer(key, s)
  BY DEF Cleanup, MeshInv, Owned
<1>4. /\ s \in [Conns -> ConnStates]
      /\ s[c].owner = "none" /\ s[c].loop = conn[c].loop /\ s[c].who = conn[c].who
      /\ s[c].known = conn[c].known /\ s[c].bond = conn[c].bond
      /\ s[c].closed = conn[c].closed
      /\ \A d \in Conns : d # c => s[d] = conn[d]
  BY <1>2 DEF ConnStates
<1> HIDE DEF s, key
<1>5. /\ TypeOK' /\ Shrinks
      /\ \A d \in Conns :
              /\ conn'[d].owner = s[d].owner /\ conn'[d].loop = s[d].loop
              /\ conn'[d].who = s[d].who /\ conn'[d].known = s[d].known
              /\ conn'[d].bond = s[d].bond /\ (s[d].closed => conn'[d].closed)
  BY <1>1, <1>2, <1>3, <1>4, RemoveFrame
<1>6. /\ conn'[c].owner = "none" /\ conn'[c].loop = "done"
      /\ \A d \in Conns :
           /\ conn'[d].loop = conn[d].loop /\ conn'[d].who = conn[d].who
           /\ conn'[d].known = conn[d].known /\ conn'[d].bond = conn[d].bond
           /\ conn[d].closed => conn'[d].closed
           /\ d # c => conn'[d].owner = conn[d].owner
  BY <1>3, <1>4, <1>5
<1>7. \A k \in Keys : peers[k] # None => peers[k] \in Conns
  BY DEF MeshInv, TypeOK
<1>8. \A k \in Keys : peers'[k] # c
  <2> SUFFICES ASSUME NEW k \in Keys, peers'[k] = c PROVE FALSE
    OBVIOUS
  <2>1. c # None
    BY MeshAssumption
  <2>2. peers[k] = c
    BY <2>1, <1>5 DEF Shrinks
  <2>3. k = IF conn[c].known THEN conn[c].who ELSE key
    BY <2>1, <2>2 DEF MeshInv, EntriesKeyed, key
  <2>4. \A j \in Keys : peers[j] = c => j = k
    BY <2>1, <2>2, <2>3 DEF MeshInv, EntriesKeyed, key
  <2>5. Removable(key) # {}
    BY <2>1, <2>2 DEF Removable, key
  <2>6. PICK j \in Removable(key) : peers' = [peers EXCEPT ![j] = None]
    BY <1>3, <2>5 DEF removePeer
  <2>7. j \in Keys /\ peers[j] = c
    BY <1>3, CleanupFinds DEF key
  <2>8. peers'[k] = None
    BY <2>4, <2>6, <2>7, <1>2 DEF TypeOK
  <2> QED BY <2>1, <2>8
<1>9. EntriesKeyed'
  BY <1>5, <1>6, <1>7 DEF MeshInv, EntriesKeyed, Shrinks
<1>10. EntriesOwned'
  BY <1>5, <1>6, <1>7, <1>8 DEF MeshInv, EntriesOwned, Shrinks
<1>11. Owned'
  BY <1>6 DEF MeshInv, Owned, Active
<1>12. OnePerSeed'
  BY <1>6 DEF MeshInv, OnePerSeed
<1>13. \A d \in Conns : InTable(d)' => InTable(d)
  BY <1>5, MeshAssumption DEF Shrinks, InTable
<1>14. Rejected'
  BY <1>6, <1>13 DEF MeshInv, Rejected
<1>15. Fresh'
  <2> SUFFICES ASSUME BondRequired, NEW d \in Conns,
                      conn'[d].loop \in Active \ {"bond"}, conn'[d].bond = "unchecked"
               PROVE  Waiting(d)' \/ (~InTable(d)' /\ conn'[d].closed)
    BY DEF Fresh
  <2>1. d # c /\ (Waiting(d) \/ (~InTable(d) /\ conn[d].closed))
    BY <1>6 DEF MeshInv, Fresh, Active
  <2>2. CASE ~InTable(d) /\ conn[d].closed
    BY <2>2, <1>6, <1>13
  <2>3. CASE Waiting(d)
    <3>1. peers'[OrigKey(d)] = peers[OrigKey(d)]
      <4>1. OrigKey(d) \in Keys /\ peers[OrigKey(d)] # c
        BY <2>1, <2>3, KeyFacts DEF Waiting
      <4>2. \A k \in Keys : peers'[k] # peers[k] => peers[k] = c
        BY <1>1, <1>2, <1>3, <1>4, RemoveFrame, CleanupFinds DEF key
      <4> QED BY <4>1, <4>2
    <3> QED BY <2>3, <3>1, <1>6 DEF Waiting
  <2> QED BY <2>1, <2>2, <2>3
<1> QED BY <1>5, <1>9, <1>10, <1>11, <1>12, <1>14, <1>15 DEF MeshInv

\* The steps that change one connection and leave the table alone.
LEMMA LocalStep ==
  ASSUME MeshInv, NEW c \in Conns,
         \/ DialFails(c) \/ Announced(c) \/ AcceptFails(c) \/ Done(c) \/ Break(c)
         \/ Receive(c) \/ LaterMessage(c) \/ BondVerified(c) \/ OnTopics(c)
         \/ OnOther(c) \/ Forward(c) \/ Forwarded(c) \/ ReadEnds(c)
  PROVE  MeshInv'
<1> USE DEF DialFails, Announced, AcceptFails, Done, Break, Receive, LaterMessage,
            BondVerified, OnTopics, OnOther, Forward, Forwarded, ReadEnds
<1>1. /\ conn \in [Conns -> ConnStates] /\ peers' = peers /\ broadcast' = broadcast
      /\ TypeOK
  BY DEF MeshInv, TypeOK
<1>2. PICK r \in ConnStates : conn' = [conn EXCEPT ![c] = r]
  BY <1>1 DEF ConnStates
<1>3. conn'[c] = r /\ \A d \in Conns : d # c => conn'[d] = conn[d]
  BY <1>1, <1>2
<1>4. TypeOK'
  <2>1. OnTopics(c) => conn[c].who \in Identities
    BY DEF MeshInv, Owned, Active
  <2>2. CASE OnTopics(c)
    <3>1. interests' = interests \cup {conn[c].who}
      BY <2>2
    <3> QED BY <1>1, <1>2, <2>1, <2>2, <3>1 DEF TypeOK
  <2>3. CASE ~OnTopics(c)
    <3>1. interests' = interests
      BY <2>3
    <3> QED BY <1>1, <1>2, <3>1 DEF TypeOK
  <2> QED BY <2>2, <2>3
<1>5. Shrinks
  BY <1>1 DEF Shrinks
<1>6. /\ r.who = conn[c].who /\ r.known = conn[c].known
      /\ conn[c].closed => r.closed
      /\ r.owner # "none" => conn[c].owner # "none"
      /\ r.owner \notin {"none", "dial"} <=> conn[c].owner \notin {"none", "dial"}
      /\ r.loop \in Active => conn[c].loop \in Active
      /\ r.loop = "bond" => conn[c].loop = "bond"
      /\ r.bond = "rejected" => conn[c].bond = "rejected"
  BY <1>1, <1>2, <1>3 DEF ConnStates, Active
<1>u. r.bond = "unchecked" => conn[c].bond = "unchecked"
  BY <1>1, <1>2, <1>3 DEF ConnStates
<1>v. conn[c].loop = "bond" => r.loop = "bond" \/ r.bond = "verified"
  <2>1. CASE BondVerified(c)
    BY <1>1, <1>2, <1>3, <2>1 DEF ConnStates
  <2>2. CASE DialFails(c) \/ Announced(c) \/ AcceptFails(c) \/ Done(c) \/ Break(c)
    BY <1>1, <1>2, <1>3, <2>2 DEF ConnStates
  <2>3. CASE \/ Receive(c) \/ LaterMessage(c) \/ OnTopics(c) \/ OnOther(c) \/ Forward(c)
             \/ Forwarded(c) \/ ReadEnds(c)
    BY <2>3
  <2> QED BY <2>1, <2>2, <2>3
<1>7. r.owner = "remove" => r.loop = "done"
  BY <1>1, <1>2, <1>3 DEF ConnStates, MeshInv, Owned
<1>8. ASSUME BondRequired, r.loop \in Active \ {"bond"}, r.bond = "unchecked"
      PROVE  /\ conn[c].loop \in Active \ {"bond"} /\ conn[c].bond = "unchecked"
             /\ Waiting(c) => r.loop \in {"read", "frame"}
  <2>1. conn[c].loop \in Active \ {"bond"} /\ conn[c].bond = "unchecked"
    BY <1>6, <1>8, <1>u, <1>v
  <2>2. CASE LaterMessage(c)
    BY <2>2, <2>1, MeshAssumption DEF Waiting
  <2>3. CASE ~LaterMessage(c)
    BY <1>1, <1>2, <1>3, <1>8, <2>1, <2>3 DEF ConnStates, Active, Waiting
  <2> QED BY <2>1, <2>2, <2>3
<1>9. Advances
  BY <1>3, <1>6, <1>7, <1>8 DEF Advances, MeshInv, Owned, Waiting
<1> QED BY <1>4, <1>5, <1>9, ShrinkKeeps

\* A rejected bond takes its identity out of the table, and the connection with
\* it or before it.
LEMMA RejectStep ==
  ASSUME MeshInv, NEW c \in Conns, BondRejected(c)
  PROVE  MeshInv'
<1> DEFINE s == [conn EXCEPT ![c].loop = "read", ![c].bond = "rejected"]
           who == conn[c].who
<1>1. TypeOK /\ conn \in [Conns -> ConnStates]
  BY DEF MeshInv, TypeOK
<1>2. conn[c].loop = "bond" /\ removePeer(who, s)
  BY DEF BondRejected
<1>3. who \in Keys /\ conn[c].known /\ conn[c].owner # "remove"
  BY <1>2 DEF MeshInv, Owned, Rejected, Active, Keys
<1>4. /\ s \in [Conns -> ConnStates]
      /\ s[c].loop = "read" /\ s[c].bond = "rejected" /\ s[c].owner = conn[c].owner
      /\ s[c].who = conn[c].who /\ s[c].known = conn[c].known
      /\ s[c].closed = conn[c].closed
      /\ \A d \in Conns : d # c => s[d] = conn[d]
  BY <1>1 DEF ConnStates
<1> HIDE DEF s, who
<1>5. /\ TypeOK' /\ Shrinks
      /\ \A d \in Conns :
            /\ conn'[d].owner = s[d].owner /\ conn'[d].loop = s[d].loop
            /\ conn'[d].who = s[d].who /\ conn'[d].known = s[d].known
            /\ conn'[d].bond = s[d].bond /\ (s[d].closed => conn'[d].closed)
  BY <1>1, <1>2, <1>3, <1>4, RemoveFrame
<1>6. ~InTable(c)'
  <2> SUFFICES ASSUME NEW k \in Keys, peers'[k] = c PROVE FALSE
    BY DEF InTable
  <2>1. c # None
    BY MeshAssumption
  <2>2. peers[k] = c
    BY <2>1, <1>5 DEF Shrinks
  <2>3. k = who
    BY <2>1, <2>2, <1>3 DEF MeshInv, EntriesKeyed, who
  <2>4. Removable(who) = {who}
    BY <2>1, <2>2, <2>3 DEF Removable
  <2>5. peers' = [peers EXCEPT ![who] = None]
    BY <1>2, <2>4 DEF removePeer
  <2> QED BY <1>1, <1>3, <2>1, <2>3, <2>5 DEF TypeOK
<1>7. Advances
  <2>1. /\ conn'[c].owner = conn[c].owner /\ conn'[c].who = conn[c].who
        /\ conn'[c].known = conn[c].known
        /\ conn[c].closed => conn'[c].closed
        /\ conn'[c].loop = "read" /\ conn'[c].bond = "rejected"
    BY <1>4, <1>5
  <2>2. \A d \in Conns : d # c =>
          /\ conn'[d].owner = conn[d].owner /\ conn'[d].who = conn[d].who
          /\ conn'[d].known = conn[d].known
          /\ conn[d].closed => conn'[d].closed
          /\ conn'[d].loop = conn[d].loop /\ conn'[d].bond = conn[d].bond
          /\ conn[d].owner = "remove" => conn[d].loop = "done"
    BY <1>4, <1>5 DEF MeshInv, Owned
  <2> QED BY <1>2, <1>3, <1>6, <2>1, <2>2 DEF Advances, Active, Waiting, InTable
<1> QED BY <1>5, <1>7, ShrinkKeeps

\* A slash warning takes its target out.
LEMMA SlashedStep ==
  ASSUME MeshInv, NEW c \in Conns, NEW target \in Identities, OnSlashed(c, target)
  PROVE  MeshInv'
<1> DEFINE s == [conn EXCEPT ![c].loop = "forward"]
<1>1. TypeOK /\ conn \in [Conns -> ConnStates] /\ target \in Keys
  BY DEF MeshInv, TypeOK, Keys
<1>2. conn[c].loop = "handle" /\ removePeer(target, s)
  BY DEF OnSlashed
<1>3. /\ s \in [Conns -> ConnStates]
      /\ s[c].loop = "forward" /\ s[c].bond = conn[c].bond /\ s[c].owner = conn[c].owner
      /\ s[c].who = conn[c].who /\ s[c].known = conn[c].known
      /\ s[c].closed = conn[c].closed
      /\ \A d \in Conns : d # c => s[d] = conn[d]
  BY <1>1 DEF ConnStates
<1> HIDE DEF s
<1>4. /\ TypeOK' /\ Shrinks
      /\ \A d \in Conns :
            /\ conn'[d].owner = s[d].owner /\ conn'[d].loop = s[d].loop
            /\ conn'[d].who = s[d].who /\ conn'[d].known = s[d].known
            /\ conn'[d].bond = s[d].bond /\ (s[d].closed => conn'[d].closed)
  BY <1>1, <1>2, <1>3, RemoveFrame
<1>5. Advances
  BY <1>2, <1>3, <1>4 DEF Advances, Active, Waiting, MeshInv, Owned
<1> QED BY <1>4, <1>5, ShrinkKeeps

\* The node's own finding takes its target out.
LEMMA DeregisterStep ==
  ASSUME MeshInv, NEW target \in Identities, Deregister(target)
  PROVE  MeshInv'
<1>1. TypeOK /\ conn \in [Conns -> ConnStates] /\ target \in Keys
  BY DEF MeshInv, TypeOK, Keys
<1>2. /\ TypeOK' /\ Shrinks
      /\ \A d \in Conns :
            /\ conn'[d].owner = conn[d].owner /\ conn'[d].loop = conn[d].loop
            /\ conn'[d].who = conn[d].who /\ conn'[d].known = conn[d].known
            /\ conn'[d].bond = conn[d].bond /\ (conn[d].closed => conn'[d].closed)
  BY <1>1, RemoveFrame DEF Deregister
<1>3. Advances
  BY <1>2 DEF Advances, Active, Waiting, MeshInv, Owned
<1> QED BY <1>2, <1>3, ShrinkKeeps

\* Stop closes every connection and empties the table.
LEMMA StopStep ==
  ASSUME MeshInv, Stop
  PROVE  MeshInv'
<1>1. conn \in [Conns -> ConnStates] /\ peers \in [Keys -> Conns \cup {None}]
      /\ interests \subseteq Identities /\ broadcast \in BOOLEAN
  BY DEF MeshInv, TypeOK
<1>2. \A c \in Conns :
        conn'[c] = IF InTable(c) THEN [conn[c] EXCEPT !.closed = TRUE] ELSE conn[c]
  BY DEF Stop
<1>3. \A r \in ConnStates :
        LET q == [r EXCEPT !.closed = TRUE]
        IN  /\ q \in ConnStates /\ q.closed = TRUE /\ q.loop = r.loop
            /\ q.who = r.who /\ q.owner = r.owner /\ q.bond = r.bond
            /\ q.known = r.known
  BY DEF ConnStates
<1>4. conn' \in [Conns -> ConnStates]
  BY <1>1, <1>2, <1>3 DEF Stop
<1>5. \A c \in Conns :
        /\ conn'[c].loop = conn[c].loop /\ conn'[c].who = conn[c].who
        /\ conn'[c].owner = conn[c].owner /\ conn'[c].bond = conn[c].bond
        /\ conn'[c].known = conn[c].known
        /\ conn[c].closed => conn'[c].closed
        /\ InTable(c) => conn'[c].closed
  BY <1>1, <1>2, <1>3
<1>6. TypeOK'
  BY <1>1, <1>4 DEF Stop, TypeOK
<1>7. Shrinks
  BY <1>1, <1>5 DEF Stop, Shrinks, InTable
<1>8. Advances
  BY <1>5 DEF Advances, Active, Waiting, MeshInv, Owned
<1> QED BY <1>6, <1>7, <1>8, ShrinkKeeps

------------------------------------------------------------------------------
\* No connection is in the table at first.
LEMMA InvInit == Init => MeshInv
<1> SUFFICES ASSUME Init PROVE MeshInv
  OBVIOUS
<1>1. /\ Free \in ConnStates /\ Free.owner = "none" /\ Free.loop = "none"
      /\ Free.bond = "unchecked"
  BY DEF Free, ConnStates
<1>2. \A c \in Conns : conn[c] = Free
  BY DEF Init
<1>3. \A k \in Keys : peers[k] = None
  BY DEF Init
<1>4. TypeOK
  BY <1>1 DEF Init, TypeOK
<1> QED BY <1>1, <1>2, <1>3, <1>4
     DEF MeshInv, EntriesKeyed, EntriesOwned, Owned, OnePerSeed, Rejected, Fresh, Active

\* Every step of the manager keeps the invariant.
LEMMA InvStep == MeshInv /\ [Next]_vars => MeshInv'
<1> SUFFICES ASSUME MeshInv, [Next]_vars PROVE MeshInv'
  OBVIOUS
<1>1. CASE UNCHANGED vars \/ Broadcast \/ BroadcastEnds
  <2>1. UNCHANGED <<peers, interests, conn>> /\ broadcast' \in BOOLEAN
    BY <1>1 DEF vars, Broadcast, BroadcastEnds, MeshInv, TypeOK
  <2>2. TypeOK'
    BY <2>1 DEF MeshInv, TypeOK
  <2> QED BY <2>1, <2>2 DEF MeshInv, EntriesKeyed, EntriesOwned, Owned, OnePerSeed,
                            Rejected, Fresh, Waiting, InTable
<1>2. ASSUME NEW c \in Conns, NEW i \in Identities, Connect(c, i)
      PROVE  MeshInv'
  BY <1>2, ConnectStep
<1>3. ASSUME NEW c \in Conns, Owner(c) \/ ReadLoop(c) \/ Break(c)
      PROVE  MeshInv'
  <2>1. ASSUME NEW target \in Identities, OnSlashed(c, target)
        PROVE  MeshInv'
    BY <2>1, SlashedStep
  <2> QED BY <1>3, <2>1, LocalStep, DialStep, RejectStep, CleanupStep, RevealStep
          DEF Owner, ReadLoop
<1>4. ASSUME NEW target \in Identities, Deregister(target)
      PROVE  MeshInv'
  BY <1>4, DeregisterStep
<1>5. CASE Stop
  BY <1>5, StopStep
<1> QED BY <1>1, <1>2, <1>3, <1>4, <1>5 DEF Next

\* The peer table and the goroutines of its connections satisfy the invariant
\* in every state.
THEOREM MeshInvariant == Spec => []MeshInv
BY InvInit, InvStep, PTL DEF Spec

\* m.peers, m.interests and the connections keep their types.
THEOREM MeshTypeCorrect == Spec => []TypeOK
BY MeshInvariant, PTL DEF MeshInv

\* For any number of connections: every entry is under the key by which it will
\* be looked for.
THEOREM EntriesStayKeyed == Spec => []EntriesKeyed
BY MeshInvariant, PTL DEF MeshInv

\* For any number of connections: only a failed AcceptPeer leaves an entry that
\* nobody will remove.
THEOREM EntriesStayOwned == Spec => []EntriesOwned
BY MeshInvariant, PTL DEF MeshInv

\* For any interleaving of connections of one identity: a message is handled
\* without a verified bond only on a connection that is out of the table, closed
\* with a frame in hand or rejected in place of a newer one.
THEOREM UnbondedOutOfTable == Spec => []HandledBonded
<1>1. MeshInv => HandledBonded
  <2> SUFFICES ASSUME MeshInv, BondRequired, NEW c \in Conns,
                      conn[c].loop \in {"handle", "forward", "send"},
                      conn[c].bond # "verified"
               PROVE  ~InTable(c) /\ (conn[c].closed \/ conn[c].bond = "rejected")
    BY DEF HandledBonded
  <2>1. conn[c].bond \in {"unchecked", "rejected"}
    BY DEF MeshInv, TypeOK, ConnStates
  <2> QED BY <2>1 DEF MeshInv, Rejected, Fresh, Waiting, Active
<1> QED BY <1>1, MeshInvariant, PTL

\* For any number of connections: the cleanup after transport.Done() removes
\* the entry of its own connection or none.
THEOREM CleanupIsPrecise == Spec => CleanupRemovesOwn
<1>1. MeshInv /\ [Next]_vars =>
        [\A c \in Conns : Cleanup(c) =>
           \A k \in Keys : peers'[k] # peers[k] => peers[k] = c]_vars
  <2> SUFFICES ASSUME MeshInv, NEW c \in Conns, Cleanup(c), NEW k \in Keys,
                      peers'[k] # peers[k]
               PROVE  peers[k] = c
    OBVIOUS
  <2> DEFINE s == [conn EXCEPT ![c].owner = "none"]
  <2>1. OrigKey(c) \in Keys /\ conn[c].owner \notin {"none", "dial"} /\ removePeer(OrigKey(c), s)
    BY KeyFacts DEF Cleanup
  <2>2. TypeOK /\ s \in [Conns -> ConnStates]
    BY DEF MeshInv, TypeOK, ConnStates
  <2> HIDE DEF s
  <2>3. k \in Removable(OrigKey(c))
    BY <2>1, <2>2, RemoveFrame
  <2> QED BY <2>1, <2>3, CleanupFinds
<1> QED BY <1>1, MeshInvariant, PTL DEF Spec, CleanupRemovesOwn
==============================================================================
