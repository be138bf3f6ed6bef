---------------------------- MODULE OverlayProofs ----------------------------
(***************************************************************************)
(* The overlay, internal/overlay: SHIP gossip, for every mesh topology, any   *)
(* number of identities per node and any TTL and interval; and the engine,    *)
(* for any number of submissions at one time, any transactions and topics.    *)
(***************************************************************************)
EXTENDS ShipGossip, OverlayEngine, SequenceTheorems, TLAPS

Directories == [Identities -> Ages]

Unique(ids) == \A i, j \in ids : NodeOf[i] = NodeOf[j] => i = j

Known(d) == {i \in Identities : d[i] # Absent}

ShipInv == TypeOK /\ OneIdentityPerDomain

------------------------------------------------------------------------------
(* What the operations on one directory keep                                *)

\* Ages are closed under the passing of time and never turn into Absent.
LEMMA AgeFacts == /\ Absent \in Ages /\ 0 \in Ages /\ 0 # Absent
                  /\ \A x \in Ages : x \in 0..TTL => x + 1 \in Ages /\ x + 1 # Absent
BY ShipAssumption DEF Absent, Ages

\* AddSHIPPeer leaves one identity per domain.
LEMMA AddKeepsUnique ==
  ASSUME NEW d \in Directories, Unique(Known(d)), NEW i \in Identities
  PROVE  AddSHIPPeer(d, i) \in Directories /\ Unique(Known(AddSHIPPeer(d, i)))
<1> DEFINE e == AddSHIPPeer(d, i)
<1>1. e \in Directories
  BY AgeFacts DEF AddSHIPPeer, removeStaleDomain, Directories
<1>2. /\ e[i] = 0
      /\ \A j \in Identities : j # i => e[j] = IF NodeOf[j] = NodeOf[i] THEN Absent ELSE d[j]
  BY DEF AddSHIPPeer, removeStaleDomain, Directories
<1> HIDE DEF e
<1>3. Unique(Known(e))
  BY <1>2 DEF Unique, Known
<1> QED BY <1>1, <1>3 DEF e

\* A sync that names one identity per domain leaves one per domain.
LEMMA SyncKeepsUnique ==
  ASSUME NEW d \in Directories, Unique(Known(d)),
         NEW ids \in SUBSET Identities, Unique(ids)
  PROVE  AddSync(d, ids) \in Directories /\ Unique(Known(AddSync(d, ids)))
<1>1. AddSync(d, ids) \in Directories
  BY AgeFacts DEF AddSync, Directories
<1>2. Unique(Known(AddSync(d, ids)))
  BY AgeFacts DEF AddSync, Unique, Known
<1> QED BY <1>1, <1>2

\* Taking entries out leaves one identity per domain.
LEMMA DropKeepsUnique ==
  ASSUME NEW d \in Directories, Unique(Known(d)), NEW e,
         e \in Directories, \A i \in Identities : e[i] = Absent \/ d[i] # Absent
  PROVE  Unique(Known(e))
BY DEF Unique, Known

\* SweepExpired only takes entries out.
LEMMA SweepKeeps ==
  ASSUME NEW d \in Directories
  PROVE  /\ SweepExpired(d) \in Directories
         /\ \A i \in Identities : SweepExpired(d)[i] = Absent \/ d[i] # Absent
BY AgeFacts DEF SweepExpired, Directories

\* CleanupOnBoot only takes entries out.
LEMMA CleanupKeeps ==
  ASSUME NEW d \in Directories, NEW n, NEW i
  PROVE  /\ CleanupOnBoot(d, n, i) \in Directories
         /\ \A j \in Identities : CleanupOnBoot(d, n, i)[j] = Absent \/ d[j] # Absent
BY AgeFacts DEF CleanupOnBoot, Directories

\* What a node sends names nobody it was not given.
LEMMA SendFacts ==
  ASSUME NEW a \in Nodes, NEW to \in SUBSET Nodes, NEW ids \in SUBSET Identities
  PROVE  /\ Send(a, to, ids) \subseteq Messages
         /\ \A m \in Send(a, to, ids) : m.ids = ids
BY DEF Send, Sync, Messages

------------------------------------------------------------------------------
(* The step from one directory or the network to the whole state            *)

\* The invariant, directory by directory.
LEMMA InvForm ==
  ShipInv <=> /\ TypeOK
              /\ \A n \in Nodes : Unique(Known(dir[n]))
              /\ \A m \in net : Unique(m.ids)
BY DEF ShipInv, OneIdentityPerDomain, Unique, Known, Entries, Has

\* A step that replaces the directory of one node.
LEMMA DirStep ==
  ASSUME ShipInv, NEW n \in Nodes, NEW e \in Directories, Unique(Known(e)),
         dir' = [dir EXCEPT ![n] = e]
  PROVE  /\ dir' \in [Nodes -> [Identities -> Ages]]
         /\ \A k \in Nodes : Unique(Known(dir'[k]))
<1>1. /\ dir \in [Nodes -> [Identities -> Ages]]
      /\ \A k \in Nodes : Unique(Known(dir[k]))
  BY InvForm DEF TypeOK
<1>2. dir'[n] = e /\ \A k \in Nodes : k # n => dir'[k] = dir[k]
  BY <1>1
<1>3. dir' \in [Nodes -> [Identities -> Ages]]
  BY <1>1 DEF Directories
<1> QED BY <1>1, <1>2, <1>3

\* Directories are empty at first.
LEMMA ShipInit == Init => ShipInv
<1> SUFFICES ASSUME Init PROVE ShipInv
  OBVIOUS
<1>1. TypeOK
  BY AgeFacts, ShipAssumption DEF Init, TypeOK
<1>2. \A n \in Nodes : Entries(n) = {}
  BY DEF Init, Entries, Has
<1> QED BY <1>1, <1>2 DEF Init, ShipInv, OneIdentityPerDomain

\* Every step of the nodes keeps the invariant.
LEMMA ShipStep == ShipInv /\ [Next]_vars => ShipInv'
<1> SUFFICES ASSUME ShipInv, [Next]_vars PROVE ShipInv'
  OBVIOUS
<1>0. /\ up \subseteq Nodes /\ mesh \in Meshes /\ linked \subseteq mesh /\ net \subseteq Messages
      /\ ident \in [Nodes -> Identities]
      /\ dir \in [Nodes -> Directories]
      /\ since \in [Nodes -> 0..Interval]
      /\ 0 \in 0..Interval
      /\ \A n \in Nodes : dir[n] \in Directories /\ Unique(Known(dir[n]))
      /\ \A m \in net : Unique(m.ids)
  BY InvForm, ShipAssumption DEF TypeOK, Directories
<1>form. ShipInv' <=> /\ TypeOK'
                      /\ \A n \in Nodes : Unique(Known(dir'[n]))
                      /\ \A m \in net' : Unique(m.ids)
  BY DEF ShipInv, OneIdentityPerDomain, Unique, Known, Entries, Has
<1>1. CASE UNCHANGED vars
  BY <1>1, <1>0, <1>form DEF vars, TypeOK, Directories
<1>2. ASSUME NEW n \in Nodes, NEW i \in Identities, Boot(n, i)
      PROVE  ShipInv'
  <2> DEFINE d == CleanupOnBoot(dir[n], n, i)
             e == IF n \in Registering THEN AddSHIPPeer(d, i) ELSE d
  <2>1. d \in Directories /\ Unique(Known(d))
    BY <1>0, CleanupKeeps, DropKeepsUnique
  <2>2. e \in Directories /\ Unique(Known(e))
    BY <2>1, AddKeepsUnique
  <2>3. dir' = [dir EXCEPT ![n] = e]
    BY <1>2 DEF Boot
  <2> HIDE DEF d, e
  <2>4. /\ dir' \in [Nodes -> [Identities -> Ages]]
        /\ \A k \in Nodes : Unique(Known(dir'[k]))
    BY <2>2, <2>3, DirStep
  <2>5. TypeOK'
    BY <1>0, <1>2, <2>4 DEF Boot, TypeOK
  <2> QED BY <1>0, <1>2, <1>form, <2>4, <2>5 DEF Boot
<1>3. ASSUME NEW n \in Nodes, NEW i \in Identities, Discover(n, i)
      PROVE  ShipInv'
  <2>1. AddSHIPPeer(dir[n], i) \in Directories /\ Unique(Known(AddSHIPPeer(dir[n], i)))
    BY <1>0, AddKeepsUnique
  <2>2. dir' = [dir EXCEPT ![n] = AddSHIPPeer(dir[n], i)]
    BY <1>3 DEF Discover
  <2>3. /\ dir' \in [Nodes -> [Identities -> Ages]]
        /\ \A k \in Nodes : Unique(Known(dir'[k]))
    BY <2>1, <2>2, DirStep
  <2>4. TypeOK'
    BY <1>0, <1>3, <2>3 DEF Discover, TypeOK
  <2> QED BY <1>0, <1>3, <1>form, <2>3, <2>4 DEF Discover
<1>4. ASSUME NEW n \in Nodes, NEW i \in Identities, Deregister(n, i)
      PROVE  ShipInv'
  <2> DEFINE e == [dir[n] EXCEPT ![i] = Absent]
  <2>1. e \in Directories /\ \A j \in Identities : e[j] = Absent \/ dir[n][j] # Absent
    BY <1>0, AgeFacts DEF Directories
  <2>2. dir' = [dir EXCEPT ![n] = e]
    BY <1>4 DEF Deregister
  <2> HIDE DEF e
  <2>3. Unique(Known(e))
    BY <1>0, <2>1, DropKeepsUnique
  <2>4. /\ dir' \in [Nodes -> [Identities -> Ages]]
        /\ \A k \in Nodes : Unique(Known(dir'[k]))
    BY <2>1, <2>2, <2>3, DirStep
  <2>5. TypeOK'
    BY <1>0, <1>4, <2>4 DEF Deregister, TypeOK
  <2> QED BY <1>0, <1>4, <1>form, <2>4, <2>5 DEF Deregister
<1>5. ASSUME NEW n \in Nodes, Sweep(n)
      PROVE  ShipInv'
  <2>1. SweepExpired(dir[n]) \in Directories /\ Unique(Known(SweepExpired(dir[n])))
    BY <1>0, SweepKeeps, DropKeepsUnique
  <2>2. dir' = [dir EXCEPT ![n] = SweepExpired(dir[n])]
    BY <1>5 DEF Sweep
  <2>3. /\ dir' \in [Nodes -> [Identities -> Ages]]
        /\ \A k \in Nodes : Unique(Known(dir'[k]))
    BY <2>1, <2>2, DirStep
  <2>4. TypeOK'
    BY <1>0, <1>5, <2>3 DEF Sweep, TypeOK
  <2> QED BY <1>0, <1>5, <1>form, <2>3, <2>4 DEF Sweep
<1>6. ASSUME NEW n \in Nodes, ReannounceToAll(n)
      PROVE  ShipInv'
  <2> DEFINE sent == Send(n, Peers(n), OwnEntries(n))
  <2>1. Peers(n) \in SUBSET Nodes /\ OwnEntries(n) \in SUBSET Identities
    BY DEF Peers, OwnEntries, Entries
  <2>2. Unique(OwnEntries(n))
    BY DEF OwnEntries, Unique
  <2>3. sent \subseteq Messages /\ \A m \in sent : Unique(m.ids)
    BY <2>1, <2>2, SendFacts
  <2>4. net' = net \cup sent /\ dir' = dir
    BY <1>6 DEF ReannounceToAll
  <2> HIDE DEF sent
  <2>5. TypeOK'
    BY <1>0, <1>6, <2>3, <2>4 DEF ReannounceToAll, TypeOK, Directories
  <2> QED BY <1>0, <1>form, <2>3, <2>4, <2>5
<1>7. ASSUME NEW a \in Nodes, NEW b \in Nodes, LinkUp(a, b)
      PROVE  ShipInv'
  <2> DEFINE sa == Send(a, {b}, Entries(a))
             sb == Send(b, {a}, Entries(b))
  <2>1. \A n \in Nodes : Entries(n) \in SUBSET Identities /\ Unique(Entries(n))
    BY DEF ShipInv, OneIdentityPerDomain, Unique, Entries
  <2>2. sa \subseteq Messages /\ \A m \in sa : Unique(m.ids)
    BY <2>1, SendFacts
  <2>3. sb \subseteq Messages /\ \A m \in sb : Unique(m.ids)
    BY <2>1, SendFacts
  <2>4. net' = net \cup sa \cup sb /\ dir' = dir
    BY <1>7 DEF LinkUp
  <2> HIDE DEF sa, sb
  <2>5. TypeOK'
    BY <1>0, <1>7, <2>2, <2>3, <2>4 DEF LinkUp, TypeOK, Directories
  <2> QED BY <1>0, <1>form, <2>2, <2>3, <2>4, <2>5
<1>8. ASSUME NEW a \in Nodes, NEW b \in Nodes, Deliver(a, b)
      PROVE  ShipInv'
  <2>1. PICK m \in net : m.from = a /\ m.to = b /\ OnSHIPSync(m)
    BY <1>8 DEF Deliver
  <2> DEFINE sent == Send(m.to, ForwardTo(m.to, m.from), m.ids)
  <2>2. m.ids \in SUBSET Identities /\ Unique(m.ids)
    BY <1>0 DEF Messages
  <2>3. AddSync(dir[b], m.ids) \in Directories /\ Unique(Known(AddSync(dir[b], m.ids)))
    BY <1>0, <2>2, SyncKeepsUnique
  <2>4. dir' = [dir EXCEPT ![b] = AddSync(dir[b], m.ids)]
    BY <2>1 DEF OnSHIPSync
  <2>5. /\ dir' \in [Nodes -> [Identities -> Ages]]
        /\ \A k \in Nodes : Unique(Known(dir'[k]))
    BY <2>3, <2>4, DirStep
  <2>6. ForwardTo(m.to, m.from) \in SUBSET Nodes
    BY DEF ForwardTo, Peers
  <2>7. sent \subseteq Messages /\ \A x \in sent : Unique(x.ids)
    BY <2>1, <2>2, <2>6, SendFacts
  <2>8. net' = (net \ {m}) \cup sent
    BY <2>1 DEF OnSHIPSync
  <2> HIDE DEF sent
  <2>9. TypeOK'
    BY <1>0, <2>1, <2>5, <2>7, <2>8 DEF OnSHIPSync, TypeOK
  <2> QED BY <1>0, <1>form, <2>5, <2>7, <2>8, <2>9
<1>9. ASSUME NEW n \in Nodes, Halt(n)
      PROVE  ShipInv'
  <2>1. net' \subseteq net /\ dir' = dir
    BY <1>9 DEF Halt
  <2>2. TypeOK'
    BY <1>0, <1>9, <2>1 DEF Halt, TypeOK, Directories
  <2> QED BY <1>0, <1>form, <2>1, <2>2
<1>10. ASSUME NEW l \in mesh, LinkDown(l)
       PROVE  ShipInv'
  <2>1. net' \subseteq net /\ dir' = dir
    BY <1>10 DEF LinkDown
  <2>2. TypeOK'
    BY <1>0, <1>10, <2>1 DEF LinkDown, TypeOK, Directories
  <2> QED BY <1>0, <1>form, <2>1, <2>2
<1>11. CASE Tick
  <2>1. \A n \in Nodes : \A i \in Identities :
          dir'[n][i] = IF dir[n][i] \in 0..TTL THEN dir[n][i] + 1 ELSE dir[n][i]
    BY <1>11 DEF Tick
  <2>2. \A n \in Nodes, i \in Identities : dir[n][i] \in Ages
    BY <1>0 DEF Directories
  <2>3. dir' \in [Nodes -> [Identities -> Ages]]
    BY <1>11, <2>2, AgeFacts DEF Tick
  <2>4. \A n \in Nodes : Known(dir'[n]) \subseteq Known(dir[n])
    BY <2>1, <2>2 DEF Known, Absent
  <2>5. since' \in [Nodes -> 0..Interval]
    BY <1>0, <1>11, ShipAssumption DEF Tick
  <2>6. TypeOK'
    BY <1>0, <1>11, <2>3, <2>5 DEF Tick, TypeOK
  <2>7. \A n \in Nodes : Unique(Known(dir'[n]))
    BY <1>0, <2>4 DEF Unique
  <2> QED BY <1>0, <1>11, <1>form, <2>6, <2>7 DEF Tick
<1> QED BY <1>1, <1>2, <1>3, <1>4, <1>5, <1>6, <1>7, <1>8, <1>9, <1>10, <1>11
     DEF Next, Timers

\* Directories and messages satisfy the invariant in every state.
THEOREM ShipInvariant == Spec => []ShipInv
BY ShipInit, ShipStep, PTL DEF Spec

\* Directories, messages and timers keep their types.
THEOREM ShipTypeCorrect == Spec => []TypeOK
BY ShipInvariant, PTL DEF ShipInv

\* In every mesh, however often nodes change their keys: no directory and no
\* ship_sync names two identities for one domain.
THEOREM DomainsStayUnique == Spec => []OneIdentityPerDomain
BY ShipInvariant, PTL DEF ShipInv

------------------------------------------------------------------------------
(* The engine                                                               *)

\* The key of an outpoint in the topic a submission is at, and that of a coin it found.
KeyOf(j, o) == outputKey(Topic(j), o)
Coin(j, n) == KeyOf(j, Ins[job[j].tx][job[j].prev[n]])
TouchedBy(j) == Touched(job[j].tx, job[j].topics)
AtTopic(j) == job[j].pc \in {"find", "store", "remove"}

Jobs == [pc : {"idle", "topic", "find", "store", "remove"}, tx : Txs \cup {""},
         topics : TopicLists \cup {<<>>}, k : Nat \ {0}, i : Nat \ {0},
         prev : Seq(Nat), sure : SUBSET Keys]
Reconciliations == [pc : {"off", "check"}, todo : SUBSET Keys, dead : SUBSET Keys,
                    unsure : SUBSET Keys, spent : SUBSET Outpoints]

\* A submission at a topic is at a known one of its list, and the coins it found
\* are inputs of its transaction.
JobOK(j) ==
  /\ InSubmit(j) => job[j].tx \in Txs /\ job[j].topics \in TopicLists
  /\ ~InSubmit(j) => job[j].sure = {}
  /\ AtTopic(j) => /\ job[j].k <= Len(job[j].topics) /\ Topic(j) \in topics
                   /\ \A n \in 1..Len(job[j].prev) :
                        job[j].prev[n] \in 1..Len(Ins[job[j].tx]) /\ Coin(j, n) \in Keys

EngineTypeInv ==
  /\ topics \subseteq Topics /\ db \subseteq Keys /\ failed \subseteq Keys /\ mined \subseteq Txs
  /\ told \in [Keys -> {"nothing", "admitted", "removed"}]
  /\ job \in [Submitters -> Jobs] /\ rec \in Reconciliations
  /\ \A j \in Submitters : JobOK(j)

\* Reconcile works alone.
LockInv == rec.pc = "check" => \A j \in Submitters : ~InSubmit(j)

\* A key a submission is sure of is one that it may write and nobody else may;
\* what was told of a key that may be written was told by that submission.
SureOf(j) ==
  InSubmit(j) =>
    /\ job[j].sure \subseteq TouchedBy(j)
    /\ \A h \in Submitters : h # j /\ InSubmit(h) => job[j].sure \cap TouchedBy(h) = {}
    /\ \A key \in TouchedBy(j) : told[key] # "nothing" =>
         /\ key \in job[j].sure
         /\ told[key] = "admitted" => key[2] \in Outputs(job[j].tx)
         /\ told[key] = "removed" => key[2] \in Inputs(job[j].tx)
SureInv == \A j \in Submitters : SureOf(j)

\* Only advertisements are stored.
ContentInv == \A key \in db : ContentOf(key) # NoContent

\* What a submission has done about its topic so far.
Kept(j, v) ==
  KeyOf(j, <<job[j].tx, v>>) \in job[j].sure \ failed => KeyOf(j, <<job[j].tx, v>>) \in db

PassOf(j) ==
  /\ AtTopic(j) => \A n \in 1..Len(job[j].prev) : ContentOf(Coin(j, n)) # NoContent
  /\ job[j].pc \in {"find", "store"} =>
       \A n \in 1..Len(job[j].prev) : Coin(j, n) \in job[j].sure => Coin(j, n) \in db
  /\ job[j].pc = "store" => \A v \in Admitted(job[j].tx) : v < job[j].i => Kept(j, v)
  /\ job[j].pc = "remove" =>
       /\ \A v \in Admitted(job[j].tx) : Kept(j, v)
       /\ \A n \in 1..Len(job[j].prev) :
            n < job[j].i /\ Coin(j, n) \in job[j].sure \ failed => Coin(j, n) \notin db
PassInv == \A j \in Submitters : PassOf(j)

\* What Reconcile has still to remove.
ReconcileInv ==
  rec.pc = "check" =>
    /\ \A o \in rec.spent : SpentOnChain(o)
    /\ \A key \in db \ failed :
         key[2] \in rec.spent => key \in rec.todo \cup rec.dead \cup rec.unsure

EngineInv == /\ EngineTypeInv /\ LockInv /\ SureInv /\ ContentInv /\ PassInv /\ ReconcileInv
             /\ SteakTrue

------------------------------------------------------------------------------
(* Submissions                                                              *)

\* The steps of a submission within its list of topics.
WithinSubmit(j) == \/ SelectTopic(j) \/ FindSpent(j) \/ Admit(j) \/ StoreOutput(j)
                   \/ StoresDone(j) \/ RemoveOutput(j) \/ RemovalsDone(j)

\* The records at rest.
LEMMA RestJobs ==
  /\ Idle \in Jobs /\ Idle.pc = "idle" /\ Idle.sure = {}
  /\ NoReconcile \in Reconciliations /\ NoReconcile.pc = "off"
BY DEF Idle, Jobs, NoReconcile, Reconciliations

\* The keys a submission works on are its own to touch, and none of them is both
\* an output and an input of its transaction.
LEMMA OwnKeys ==
  ASSUME EngineTypeInv, NEW j \in Submitters, AtTopic(j)
  PROVE  /\ job[j].tx \in Txs /\ Topic(j) \in Topics
         /\ Outputs(job[j].tx) \cap Inputs(job[j].tx) = {}
         /\ \A v \in Admitted(job[j].tx) : LET key == KeyOf(j, <<job[j].tx, v>>)
              IN  key \in TouchedBy(j) /\ key \in Keys /\ key[2] \in Outputs(job[j].tx)
                  /\ ContentOf(key) # NoContent
         /\ \A n \in 1..Len(job[j].prev) :
              Coin(j, n) \in TouchedBy(j) /\ Coin(j, n) \in Keys
              /\ Coin(j, n)[2] \in Inputs(job[j].tx)
<1> USE OverlayAssumption
<1>1. /\ job[j].tx \in Txs /\ job[j].topics \in TopicLists /\ Topic(j) \in Topics
      /\ job[j].k \in 1..Len(job[j].topics) /\ Len(job[j].topics) \in Nat
  <2>1. JobOK(j) /\ job[j] \in Jobs /\ InSubmit(j)
    BY DEF EngineTypeInv, AtTopic, InSubmit
  <2>2. job[j].topics \in Seq(STRING) /\ job[j].k \in Nat \ {0}
    BY <2>1 DEF JobOK, Jobs
  <2> QED BY <2>1, <2>2, LenProperties DEF JobOK, EngineTypeInv
<1>2. \A o \in Outputs(job[j].tx) \cup Inputs(job[j].tx) :
         KeyOf(j, o) \in Keys => KeyOf(j, o) \in TouchedBy(j)
  BY <1>1 DEF KeyOf, Topic, TouchedBy, Touched
<1>3. Outputs(job[j].tx) \cap Inputs(job[j].tx) = {}
  BY <1>1 DEF Outputs, Inputs
<1>4. ASSUME NEW v \in Admitted(job[j].tx)
      PROVE  LET key == KeyOf(j, <<job[j].tx, v>>)
             IN  key \in TouchedBy(j) /\ key \in Keys /\ key[2] \in Outputs(job[j].tx)
                 /\ ContentOf(key) # NoContent
  <2>1. <<job[j].tx, v>> \in Outputs(job[j].tx) /\ <<job[j].tx, v>> \in Outpoints
    BY <1>1 DEF Admitted, Outputs, Outpoints
  <2> QED BY <1>1, <1>2, <2>1 DEF KeyOf, outputKey, Keys, ContentOf, Admitted
<1>5. ASSUME NEW n \in 1..Len(job[j].prev)
      PROVE  Coin(j, n) \in TouchedBy(j) /\ Coin(j, n) \in Keys
             /\ Coin(j, n)[2] \in Inputs(job[j].tx)
  <2>1. job[j].prev[n] \in 1..Len(Ins[job[j].tx]) /\ Coin(j, n) \in Keys
    BY DEF EngineTypeInv, JobOK
  <2>2. Ins[job[j].tx][job[j].prev[n]] \in Inputs(job[j].tx)
    BY <2>1 DEF Inputs
  <2> QED BY <1>2, <2>1, <2>2 DEF Coin, KeyOf, outputKey
<1> QED BY <1>1, <1>3, <1>4, <1>5

\* A submission goes to another place of its loops.
Moves(j, pc, k, i, p) ==
  job' = [job EXCEPT ![j] = [job[j] EXCEPT !.pc = pc, !.k = k, !.i = i, !.prev = p]]

\* It remains the same submission then, and the others stay where they are.
LEMMA JobMoves ==
  ASSUME EngineTypeInv, NEW j \in Submitters,
         NEW pc \in {"idle", "topic", "find", "store", "remove"}, NEW k \in Nat \ {0},
         NEW i \in Nat \ {0}, NEW p \in Seq(Nat), Moves(j, pc, k, i, p)
  PROVE  /\ job' \in [Submitters -> Jobs]
         /\ \A h \in Submitters : h # j => job'[h] = job[h]
         /\ job'[j].pc = pc /\ job'[j].k = k /\ job'[j].i = i /\ job'[j].prev = p
         /\ job'[j].tx = job[j].tx /\ job'[j].topics = job[j].topics
         /\ job'[j].sure = job[j].sure
<1> DEFINE r == [job[j] EXCEPT !.pc = pc, !.k = k, !.i = i, !.prev = p]
<1>0. job \in [Submitters -> Jobs] /\ job[j] \in Jobs
  BY DEF EngineTypeInv
<1>1. /\ r \in Jobs
      /\ r.pc = pc /\ r.k = k /\ r.i = i /\ r.prev = p
      /\ r.tx = job[j].tx /\ r.topics = job[j].topics /\ r.sure = job[j].sure
  BY <1>0 DEF Jobs
<1> HIDE DEF r
<1>2. job' = [job EXCEPT ![j] = r]
  BY DEF Moves, r
<1> QED BY <1>0, <1>1, <1>2

\* The numbers and lists the steps go on with.
LEMMA JobNumbers ==
  ASSUME EngineTypeInv, NEW j \in Submitters
  PROVE  /\ job[j].k \in Nat \ {0} /\ job[j].i \in Nat \ {0} /\ job[j].prev \in Seq(Nat)
         /\ job[j].k + 1 \in Nat \ {0} /\ job[j].i + 1 \in Nat \ {0} /\ 1 \in Nat \ {0}
         /\ Append(job[j].prev, job[j].i) \in Seq(Nat) /\ <<>> \in Seq(Nat)
         /\ Len(job[j].prev) \in Nat
         /\ \A v \in Admitted(job[j].tx) : v \in Nat /\ v + 1 \in Nat \ {0}
<1>1. job[j] \in Jobs
  BY DEF EngineTypeInv
<1>2. job[j].k \in Nat \ {0} /\ job[j].i \in Nat \ {0} /\ job[j].prev \in Seq(Nat)
  BY <1>1 DEF Jobs
<1>3. \A v \in Admitted(job[j].tx) : v \in Nat /\ v + 1 \in Nat \ {0}
  BY DEF Admitted
<1> QED BY <1>2, <1>3, AppendProperties, LenProperties

\* Where each step within a submission leaves it.
Selects(j) == /\ job[j].k <= Len(job[j].topics) /\ Topic(j) \in topics
              /\ Moves(j, "find", job[j].k, 1, <<>>)
Misses(j)  == job[j].pc = "find" /\ Moves(j, "find", job[j].k, job[j].i + 1, job[j].prev)
Finds(j)   == /\ job[j].pc = "find" /\ job[j].i \in 1..Len(Ins[job[j].tx])
              /\ KeyOf(j, Ins[job[j].tx][job[j].i]) \in db
              /\ Moves(j, "find", job[j].k, job[j].i + 1, Append(job[j].prev, job[j].i))
Begins(j)  == job[j].pc = "find" /\ Moves(j, "store", job[j].k, 1, job[j].prev)
Stored(j, v) == /\ job[j].pc = "store" /\ v \in ToStore(j) /\ \A u \in ToStore(j) : v <= u
                /\ Write(KeyOf(j, <<job[j].tx, v>>), TRUE)
                /\ Moves(j, "store", job[j].k, v + 1, job[j].prev)
Turns(j)   == /\ job[j].pc = "store" /\ ToStore(j) = {}
              /\ Moves(j, "remove", job[j].k, 1, job[j].prev)
Removes(j) == /\ job[j].pc = "remove" /\ job[j].i \in 1..Len(job[j].prev)
              /\ Write(Coin(j, job[j].i), FALSE)
              /\ Moves(j, "remove", job[j].k, job[j].i + 1, job[j].prev)
Leaves(j)  == Moves(j, "topic", job[j].k + 1, job[j].i, job[j].prev)

LEMMA SubmitMoves ==
  ASSUME EngineTypeInv, NEW j \in Submitters, WithinSubmit(j)
  PROVE  /\ InSubmit(j) /\ UNCHANGED <<topics, rec, mined>>
         /\ \/ Selects(j) /\ UNCHANGED <<db, failed, told>>
            \/ Misses(j) /\ UNCHANGED <<db, failed, told>>
            \/ Finds(j) /\ UNCHANGED <<db, failed, told>>
            \/ Begins(j) /\ UNCHANGED <<db, failed, told>>
            \/ (\E v \in ToStore(j) : Stored(j, v)) /\ UNCHANGED told
            \/ Turns(j) /\ UNCHANGED <<db, failed, told>>
            \/ Removes(j) /\ UNCHANGED told
            \/ Leaves(j) /\ UNCHANGED <<db, failed>> /\ (RemovalsDone(j) \/ UNCHANGED told)
<1>0. /\ job \in [Submitters -> Jobs] /\ job[j] \in Jobs
      /\ job[j].k \in Nat \ {0} /\ job[j].i \in Nat \ {0} /\ job[j].prev \in Seq(Nat)
  BY DEF EngineTypeInv, Jobs
<1>1. NextTopic(j) => Leaves(j)
  BY <1>0 DEF NextTopic, Leaves, Moves, Jobs
<1>2. SelectTopic(j) => Selects(j) \/ Leaves(j)
  BY <1>0, <1>1 DEF SelectTopic, Selects, Moves, Jobs
<1>3. ASSUME FindSpent(j) PROVE Misses(j) \/ Finds(j)
  <2>1. job[j].pc = "find" /\ job[j].i \in 1..Len(Ins[job[j].tx])
    <3>1. job[j].tx \in Txs
      BY <1>3 DEF FindSpent, EngineTypeInv, JobOK, InSubmit
    <3>2. Len(Ins[job[j].tx]) \in Nat
      BY <3>1, OverlayAssumption, LenProperties
    <3> QED BY <1>0, <1>3, <3>2 DEF FindSpent
  <2> DEFINE p == IF KeyOf(j, Ins[job[j].tx][job[j].i]) \in db
                  THEN Append(job[j].prev, job[j].i) ELSE job[j].prev
  <2>2. job' = [job EXCEPT ![j].i = @ + 1, ![j].prev = p]
    BY <1>3 DEF FindSpent, KeyOf
  <2> HIDE DEF p
  <2>3. Moves(j, "find", job[j].k, job[j].i + 1, p)
    BY <1>0, <2>1, <2>2 DEF Moves, Jobs
  <2> QED BY <2>1, <2>3 DEF p, Misses, Finds
<1>4. Admit(j) => Begins(j) \/ Leaves(j)
  BY <1>0, <1>1 DEF Admit, Begins, Moves, Jobs
<1>5. ASSUME StoreOutput(j) PROVE \E v \in ToStore(j) : Stored(j, v)
  <2>1. PICK v \in ToStore(j) : /\ \A u \in ToStore(j) : v <= u
                                /\ job' = [job EXCEPT ![j].i = v + 1]
                                /\ Write(KeyOf(j, <<job[j].tx, v>>), TRUE)
    BY <1>5 DEF StoreOutput, KeyOf
  <2>2. job[j].pc = "store"
    BY <1>5 DEF StoreOutput
  <2>3. Moves(j, "store", job[j].k, v + 1, job[j].prev)
    BY <1>0, <2>1, <2>2 DEF Moves, Jobs
  <2> QED BY <2>1, <2>2, <2>3 DEF Stored
<1>6. StoresDone(j) => Turns(j)
  BY <1>0 DEF StoresDone, Turns, Moves, Jobs
<1>7. ASSUME RemoveOutput(j) PROVE Removes(j)
  <2>1. job[j].pc = "remove" /\ job[j].i \in 1..Len(job[j].prev)
    BY <1>0, <1>7, LenProperties DEF RemoveOutput
  <2>2. Moves(j, "remove", job[j].k, job[j].i + 1, job[j].prev)
    BY <1>0, <1>7 DEF RemoveOutput, Moves, Jobs
  <2> QED BY <1>7, <2>1, <2>2 DEF RemoveOutput, Removes, Coin, KeyOf
<1>8. RemovalsDone(j) => Leaves(j)
  BY <1>1 DEF RemovalsDone
<1>9. CASE SelectTopic(j) \/ FindSpent(j) \/ Admit(j)
  BY <1>2, <1>3, <1>4, <1>9 DEF SelectTopic, FindSpent, Admit, InSubmit
<1>10. CASE StoreOutput(j) \/ RemoveOutput(j)
  BY <1>5, <1>7, <1>10 DEF StoreOutput, RemoveOutput, InSubmit
<1>11. CASE StoresDone(j) \/ RemovalsDone(j)
  BY <1>6, <1>8, <1>11 DEF StoresDone, RemovalsDone, InSubmit
<1> QED BY <1>9, <1>10, <1>11 DEF WithinSubmit

\* A write of a key touches nothing else.
LEMMA WriteFrame ==
  ASSUME NEW key, NEW present \in BOOLEAN, Write(key, present)
  PROVE  /\ \A other : other # key => /\ other \in db' <=> other \in db
                                      /\ other \in failed' <=> other \in failed
         /\ key \notin failed' => (key \in db' <=> present)
         /\ db' \subseteq db \cup {key} /\ failed' \subseteq failed \cup {key}
         /\ ~present => db' \subseteq db
BY DEF Write

\* The places themselves, as JobMoves needs them.
LEMMA SubmitPlaces ==
  ASSUME EngineTypeInv, NEW j \in Submitters, WithinSubmit(j)
  PROVE  \E pc \in {"idle", "topic", "find", "store", "remove"}, k \in Nat \ {0},
            i \in Nat \ {0}, p \in Seq(Nat) :
           /\ Moves(j, pc, k, i, p) /\ pc # "idle"
           /\ pc # "topic" => k = job[j].k
           /\ p = <<>> \/ p = job[j].prev
              \/ (p = Append(job[j].prev, job[j].i) /\ Finds(j))
           /\ AtTopic(j) \/ pc = "topic" \/ (Selects(j) /\ p = <<>>)
<1>0. /\ job[j].k \in Nat \ {0} /\ job[j].i \in Nat \ {0} /\ job[j].prev \in Seq(Nat)
      /\ job[j].k + 1 \in Nat \ {0} /\ job[j].i + 1 \in Nat \ {0} /\ 1 \in Nat \ {0}
      /\ Append(job[j].prev, job[j].i) \in Seq(Nat) /\ <<>> \in Seq(Nat)
  BY JobNumbers
<1>1. \A v \in ToStore(j) : v + 1 \in Nat \ {0}
  BY DEF ToStore, Admitted
<1>2. CASE Selects(j)
  BY <1>0, <1>2 DEF Selects
<1>3. CASE Misses(j)
  BY <1>0, <1>3 DEF Misses, AtTopic
<1>4. CASE Finds(j)
  BY <1>0, <1>4 DEF Finds, AtTopic
<1>5. CASE Begins(j)
  BY <1>0, <1>5 DEF Begins, AtTopic
<1>6. ASSUME NEW v \in ToStore(j), Stored(j, v)
      PROVE  AtTopic(j) /\ Moves(j, "store", job[j].k, v + 1, job[j].prev)
  BY <1>6 DEF Stored, AtTopic
<1>7. CASE Turns(j)
  BY <1>0, <1>7 DEF Turns, AtTopic
<1>8. CASE Removes(j)
  BY <1>0, <1>8 DEF Removes, AtTopic
<1>9. CASE Leaves(j)
  BY <1>0, <1>9 DEF Leaves
<1>10. CASE \E v \in ToStore(j) : Stored(j, v)
  BY <1>0, <1>1, <1>6, <1>10
<1> QED BY <1>2, <1>3, <1>4, <1>5, <1>7, <1>8, <1>9, <1>10, SubmitMoves

\* A step within a submission changes neither what it is about nor another one.
LEMMA SubmitFrame ==
  ASSUME EngineTypeInv, NEW j \in Submitters, WithinSubmit(j)
  PROVE  /\ job' \in [Submitters -> Jobs]
         /\ \A h \in Submitters : h # j => job'[h] = job[h]
         /\ InSubmit(j) /\ InSubmit(j)'
         /\ job'[j].tx = job[j].tx /\ job'[j].topics = job[j].topics
         /\ job'[j].sure = job[j].sure
         /\ UNCHANGED <<topics, rec, mined>>
<1>1. PICK pc \in {"idle", "topic", "find", "store", "remove"}, k \in Nat \ {0},
           i \in Nat \ {0}, p \in Seq(Nat) : Moves(j, pc, k, i, p) /\ pc # "idle"
  BY SubmitPlaces
<1> QED BY <1>1, JobMoves, SubmitMoves DEF InSubmit

\* It writes only keys that it may touch.
LEMMA SubmitWrites ==
  ASSUME EngineTypeInv, NEW j \in Submitters, WithinSubmit(j)
  PROVE  \/ UNCHANGED <<db, failed>>
         \/ \E key \in TouchedBy(j) \cap Keys, present \in BOOLEAN : Write(key, present)
<1>1. ASSUME NEW v \in ToStore(j), Stored(j, v)
      PROVE  \E key \in TouchedBy(j) \cap Keys : Write(key, TRUE)
  <2>1. AtTopic(j) /\ v \in Admitted(job[j].tx) /\ Write(KeyOf(j, <<job[j].tx, v>>), TRUE)
    BY <1>1 DEF Stored, AtTopic, ToStore
  <2> QED BY <2>1, OwnKeys
<1>2. ASSUME Removes(j)
      PROVE  \E key \in TouchedBy(j) \cap Keys : Write(key, FALSE)
  <2>1. /\ AtTopic(j) /\ job[j].i \in 1..Len(job[j].prev)
        /\ Write(Coin(j, job[j].i), FALSE)
    BY <1>2 DEF Removes, AtTopic
  <2> QED BY <2>1, OwnKeys
<1> QED BY <1>1, <1>2, SubmitMoves

------------------------------------------------------------------------------
(* Types                                                                    *)

\* A submission that nothing was done to.
LEMMA JobFrame ==
  ASSUME EngineTypeInv, NEW j \in Submitters, job'[j] = job[j], topics \subseteq topics'
  PROVE  JobOK(j)'
<1>1. Topic(j)' = Topic(j) /\ \A n : Coin(j, n)' = Coin(j, n)
  BY DEF Topic, Coin, KeyOf
<1>2. JobOK(j)
  BY DEF EngineTypeInv
<1> QED BY <1>1, <1>2 DEF JobOK, InSubmit, AtTopic

\* What a submission found stays what it was while it is at a topic.
LEMMA SameCoins ==
  ASSUME NEW j \in Submitters, job'[j].tx = job[j].tx, job'[j].topics = job[j].topics,
         job'[j].k = job[j].k
  PROVE  /\ Topic(j)' = Topic(j) /\ \A o : KeyOf(j, o)' = KeyOf(j, o)
         /\ TouchedBy(j)' = TouchedBy(j)
         /\ \A n : job'[j].prev[n] = job[j].prev[n] => Coin(j, n)' = Coin(j, n)
BY DEF Topic, KeyOf, TouchedBy, Coin

\* The coins after one more was found.
LEMMA OneMoreCoin ==
  ASSUME EngineTypeInv, NEW j \in Submitters, AtTopic(j), NEW p,
         p = Append(job[j].prev, job[j].i)
  PROVE  /\ Len(p) = Len(job[j].prev) + 1 /\ Len(job[j].prev) \in Nat
         /\ \A n \in 1..Len(p) : \/ n \in 1..Len(job[j].prev) /\ p[n] = job[j].prev[n]
                                 \/ n = Len(p) /\ p[n] = job[j].i
<1>1. job[j] \in Jobs
  BY DEF EngineTypeInv
<1>2. job[j].prev \in Seq(Nat) /\ job[j].i \in Nat /\ Len(job[j].prev) \in Nat
  BY <1>1, LenProperties DEF Jobs
<1>3. /\ Len(p) = Len(job[j].prev) + 1
      /\ \A n \in 1..Len(job[j].prev) : p[n] = job[j].prev[n]
      /\ p[Len(job[j].prev) + 1] = job[j].i
  BY <1>2, AppendProperties
<1> QED BY <1>2, <1>3

\* A submission keeps the types.
LEMMA SubmitTypes ==
  ASSUME EngineTypeInv, NEW j \in Submitters, WithinSubmit(j)
  PROVE  EngineTypeInv'
<1>1. db' \subseteq Keys /\ failed' \subseteq Keys
  BY SubmitWrites, WriteFrame DEF EngineTypeInv
<1>2. told' \in [Keys -> {"nothing", "admitted", "removed"}]
  <2>1. CASE RemovalsDone(j)
    <3>1. \A key \in Keys : told[key] \in {"nothing", "admitted", "removed"}
      BY DEF EngineTypeInv
    <3> QED BY <2>1, <3>1 DEF RemovalsDone
  <2>2. CASE UNCHANGED told
    BY <2>2 DEF EngineTypeInv
  <2> QED BY <2>1, <2>2, SubmitMoves
<1>3. \A h \in Submitters : h # j => JobOK(h)'
  BY SubmitFrame, JobFrame
<1>4. JobOK(j)'
  <2>0. JobOK(j) /\ InSubmit(j) /\ db \subseteq Keys
    BY SubmitFrame DEF EngineTypeInv
  <2>1. PICK pc \in {"idle", "topic", "find", "store", "remove"}, k \in Nat \ {0},
             i \in Nat \ {0}, p \in Seq(Nat) :
           /\ Moves(j, pc, k, i, p) /\ pc # "idle"
           /\ pc # "topic" => k = job[j].k
           /\ p = <<>> \/ p = job[j].prev
              \/ (p = Append(job[j].prev, job[j].i) /\ Finds(j))
           /\ AtTopic(j) \/ pc = "topic" \/ (Selects(j) /\ p = <<>>)
    BY SubmitPlaces
  <2>2. /\ job'[j].pc = pc /\ pc # "idle" /\ job'[j].k = k /\ job'[j].prev = p
        /\ job'[j].tx = job[j].tx /\ job'[j].topics = job[j].topics
    BY <2>1, JobMoves
  <2>3. CASE pc = "topic"
    BY <2>0, <2>2, <2>3 DEF JobOK, InSubmit, AtTopic
  <2>4. CASE pc # "topic"
    <3>1. k = job[j].k /\ topics' = topics
      BY <2>1, <2>4, SubmitFrame
    <3>2. Topic(j)' = Topic(j) /\ \A n : p[n] = job[j].prev[n] => Coin(j, n)' = Coin(j, n)
      BY <2>2, <3>1, SameCoins
    <3>3. job[j].k <= Len(job[j].topics) /\ Topic(j) \in topics
      <4>1. CASE AtTopic(j)
        BY <2>0, <4>1 DEF JobOK
      <4>2. CASE ~AtTopic(j)
        BY <2>1, <2>4, <4>2 DEF Selects
      <4> QED BY <4>1, <4>2
    <3>4. ASSUME NEW n \in 1..Len(p)
          PROVE  p[n] \in 1..Len(Ins[job[j].tx]) /\ Coin(j, n)' \in Keys
      <4>1. CASE p = <<>>
        BY <3>4, <4>1
      <4>2. CASE p = job[j].prev /\ AtTopic(j)
        BY <2>0, <3>2, <3>4, <4>2 DEF JobOK
      <4>3. CASE p = Append(job[j].prev, job[j].i) /\ Finds(j)
        <5>1. AtTopic(j)
          BY <4>3 DEF Finds, AtTopic
        <5>2. CASE n \in 1..Len(job[j].prev) /\ p[n] = job[j].prev[n]
          BY <2>0, <3>2, <5>1, <5>2 DEF JobOK
        <5>3. CASE p[n] = job[j].i
          <6>1. Coin(j, n)' = KeyOf(j, Ins[job[j].tx][job[j].i])
            BY <2>2, <3>1, <5>3, SameCoins DEF Coin
          <6> QED BY <2>0, <4>3, <5>3, <6>1 DEF Finds
        <5> QED BY <3>4, <4>3, <5>1, <5>2, <5>3, OneMoreCoin
      <4> QED BY <2>1, <2>4, <4>1, <4>2, <4>3 DEF Finds, AtTopic
    <3> QED BY <2>0, <2>2, <3>1, <3>2, <3>3, <3>4 DEF JobOK, InSubmit, AtTopic
  <2> QED BY <2>3, <2>4
<1> QED BY <1>1, <1>2, <1>3, <1>4, SubmitFrame DEF EngineTypeInv

\* What a Submit puts in place of the records of the submissions.
LEMMA SubmitBegins ==
  ASSUME EngineTypeInv, NEW j \in Submitters, NEW tx \in Txs, NEW ts \in TopicLists,
         Submit(j, tx, ts)
  PROVE  /\ job' \in [Submitters -> Jobs] /\ ~InSubmit(j)
         /\ job'[j].pc = "topic" /\ job'[j].tx = tx /\ job'[j].topics = ts
         /\ job'[j].sure = Touched(tx, ts) \ Busy(Touched(tx, ts))
         /\ \A h \in Submitters : h # j =>
              /\ job'[h].pc = job[h].pc /\ job'[h].tx = job[h].tx
              /\ job'[h].topics = job[h].topics /\ job'[h].k = job[h].k
              /\ job'[h].i = job[h].i /\ job'[h].prev = job[h].prev
              /\ job'[h].sure = job[h].sure \ Touched(tx, ts)
         /\ \A key \in Keys : told'[key] = IF key \in Touched(tx, ts) THEN "nothing" ELSE told[key]
         /\ told' \in [Keys -> {"nothing", "admitted", "removed"}]
         /\ rec.pc = "off" /\ UNCHANGED <<topics, db, rec, mined, failed>>
<1> DEFINE touched == Touched(tx, ts)
           sure == touched \ Busy(touched)
           r == [Idle EXCEPT !.pc = "topic", !.tx = tx, !.topics = ts, !.sure = sure]
           q(h) == [job[h] EXCEPT !.sure = @ \ touched]
<1>0. touched \subseteq Keys /\ \A h \in Submitters : job[h] \in Jobs
  BY DEF Touched, EngineTypeInv
<1>1. /\ r \in Jobs /\ r.pc = "topic" /\ r.tx = tx /\ r.topics = ts /\ r.sure = sure
  <2>1. sure \subseteq Keys
    BY <1>0
  <2> HIDE DEF sure
  <2> QED BY <2>1, RestJobs DEF Jobs
<1>2. ASSUME NEW h \in Submitters
      PROVE  /\ q(h) \in Jobs /\ q(h).pc = job[h].pc /\ q(h).tx = job[h].tx
             /\ q(h).topics = job[h].topics /\ q(h).k = job[h].k
             /\ q(h).i = job[h].i /\ q(h).prev = job[h].prev
             /\ q(h).sure = job[h].sure \ touched
  BY <1>0 DEF Jobs
<1>3. /\ job' = [h \in Submitters |-> IF h = j THEN r ELSE q(h)]
      /\ told' = [key \in Keys |-> IF key \in touched THEN "nothing" ELSE told[key]]
      /\ job[j].pc = "idle" /\ rec.pc = "off" /\ UNCHANGED <<topics, db, rec, mined, failed>>
  BY DEF Submit, RLock
<1> HIDE DEF r, q, touched, sure
<1>4. told' \in [Keys -> {"nothing", "admitted", "removed"}]
  BY <1>3 DEF EngineTypeInv
<1>5. /\ job' \in [Submitters -> Jobs] /\ job'[j] = r
      /\ \A h \in Submitters : h # j => job'[h] = q(h)
  BY <1>1, <1>2, <1>3
<1> QED BY <1>1, <1>2, <1>3, <1>4, <1>5 DEF InSubmit, touched, sure

\* All other steps leave each submission as it is or end it.
Rests == \A h \in Submitters : job'[h] = job[h] \/ job'[h] = Idle

LEMMA OtherSteps ==
  ASSUME EngineTypeInv, LockInv, [EngineNext]_engineVars,
         \A j \in Submitters : ~WithinSubmit(j),
         \A j \in Submitters, tx \in Txs, ts \in TopicLists : ~Submit(j, tx, ts)
  PROVE  /\ Rests /\ job' \in [Submitters -> Jobs]
         /\ \/ UNCHANGED <<db, failed, told>>
            \/ DeleteSpent /\ \A j \in Submitters : ~InSubmit(j)
         /\ mined \subseteq mined' /\ mined' \subseteq Txs /\ topics' \subseteq Topics
         /\ topics \subseteq topics' \/ \A j \in Submitters : ~InSubmit(j)'
<1>0. /\ job \in [Submitters -> Jobs] /\ mined \subseteq Txs /\ topics \subseteq Topics
      /\ \A j \in Submitters : job[j] \in Jobs
  BY DEF EngineTypeInv
<1>1. ASSUME NEW j \in Submitters, Answer(j)
      PROVE  /\ \A h \in Submitters : job'[h] = job[h] \/ job'[h] = Idle
             /\ job' \in [Submitters -> Jobs] /\ UNCHANGED <<topics, db, mined, told, failed>>
  BY <1>0, <1>1, RestJobs DEF Answer
<1>2. ASSUME NEW t \in Topics, RegisterTopic(t)
      PROVE  /\ topics \subseteq topics' /\ topics' \subseteq Topics
             /\ UNCHANGED <<job, db, mined, told, failed>>
  BY <1>0, <1>2 DEF RegisterTopic
<1>3. ASSUME NEW tx \in Txs, Mine(tx)
      PROVE  /\ mined \subseteq mined' /\ mined' \subseteq Txs
             /\ UNCHANGED <<job, db, topics, told, failed>>
  BY <1>0, <1>3 DEF Mine
<1>4. ASSUME Reconcile \/ CheckOutput \/ ReconcileEnds
      PROVE  UNCHANGED <<job, db, mined, topics, told, failed>>
  BY <1>4 DEF Reconcile, CheckOutput, ReconcileEnds
<1>5. ASSUME DeleteSpent
      PROVE  UNCHANGED <<job, mined, topics>> /\ \A j \in Submitters : ~InSubmit(j)
  BY <1>5 DEF DeleteSpent, LockInv
<1>6. ASSUME Crash
      PROVE  /\ \A h \in Submitters : job'[h] = Idle /\ ~InSubmit(h)'
             /\ job' \in [Submitters -> Jobs] /\ topics' = {}
             /\ UNCHANGED <<db, mined, told, failed>>
  BY <1>6, RestJobs DEF Crash, InSubmit
<1>7. CASE UNCHANGED engineVars
  BY <1>0, <1>7 DEF engineVars, Rests
<1>8. CASE \E j \in Submitters : Answer(j)
  BY <1>0, <1>1, <1>8 DEF Rests
<1>9. CASE (\E t \in Topics : RegisterTopic(t)) \/ (\E tx \in Txs : Mine(tx))
  BY <1>0, <1>2, <1>3, <1>9 DEF Rests
<1>10. CASE Reconcile \/ CheckOutput \/ ReconcileEnds \/ DeleteSpent
  BY <1>0, <1>4, <1>5, <1>10 DEF Rests
<1>11. CASE Crash
  BY <1>0, <1>6, <1>11 DEF Rests
<1> QED BY <1>7, <1>8, <1>9, <1>10, <1>11 DEF EngineNext, Step, WithinSubmit

\* Every step keeps the types of what Reconcile knows, and works alone.
LEMMA ReconcileTypes ==
  ASSUME EngineTypeInv, LockInv, [EngineNext]_engineVars
  PROVE  rec' \in Reconciliations /\ LockInv'
<1>0. rec \in Reconciliations
  BY DEF EngineTypeInv
<1>1. ASSUME NEW j \in Submitters, WithinSubmit(j)
      PROVE  rec' = rec /\ InSubmit(j)
  BY <1>1, SubmitFrame
<1>2. ASSUME NEW j \in Submitters, NEW tx \in Txs, NEW ts \in TopicLists, Submit(j, tx, ts)
      PROVE  rec' = rec /\ rec.pc = "off"
  BY <1>2, SubmitBegins
<1>3. CASE Reconcile
  <2>1. [NoReconcile EXCEPT !.pc = "check", !.todo = db,
                            !.spent = {o \in Outpoints : SpentOnChain(o)}] \in Reconciliations
    BY DEF EngineTypeInv, NoReconcile, Reconciliations
  <2> QED BY <1>3, <2>1 DEF Reconcile, LockInv, InSubmit
<1>4. CASE CheckOutput
  <2>1. PICK key \in rec.todo :
           \/ rec' = [rec EXCEPT !.todo = @ \ {key},
                                 !.dead = IF SpentOnChain(key[2]) THEN @ \cup {key} ELSE @]
           \/ rec' = [rec EXCEPT !.todo = @ \ {key}, !.unsure = @ \cup {key}]
    BY <1>4 DEF CheckOutput
  <2>2. key \in Keys
    BY <1>0 DEF Reconciliations
  <2>3. CASE rec' = [rec EXCEPT !.todo = @ \ {key}, !.unsure = @ \cup {key}]
    <3>1. rec' \in Reconciliations /\ rec'.pc = rec.pc
      BY <1>0, <2>2, <2>3 DEF Reconciliations
    <3> QED BY <1>4, <3>1 DEF CheckOutput, LockInv, InSubmit
  <2>4. CASE rec' = [rec EXCEPT !.todo = @ \ {key},
                                !.dead = IF SpentOnChain(key[2]) THEN @ \cup {key} ELSE @]
    <3>1. PICK dead \in SUBSET Keys : rec' = [rec EXCEPT !.todo = @ \ {key}, !.dead = dead]
      BY <1>0, <2>2, <2>4 DEF Reconciliations
    <3>2. rec' \in Reconciliations /\ rec'.pc = rec.pc
      BY <1>0, <2>2, <3>1 DEF Reconciliations
    <3> QED BY <1>4, <3>2 DEF CheckOutput, LockInv, InSubmit
  <2> QED BY <2>1, <2>3, <2>4
<1>5. CASE DeleteSpent
  <2>1. PICK key \in rec.dead : rec' = [rec EXCEPT !.dead = @ \ {key}]
    BY <1>5 DEF DeleteSpent
  <2>2. rec' \in Reconciliations /\ rec'.pc = rec.pc
    BY <1>0, <2>1 DEF Reconciliations
  <2> QED BY <1>5, <2>2 DEF DeleteSpent, LockInv, InSubmit
<1>6. CASE ReconcileEnds \/ Crash
  BY <1>6, RestJobs DEF ReconcileEnds, Crash, LockInv
<1>7. ASSUME NEW j \in Submitters, Answer(j) PROVE rec' = rec /\ InSubmit(j)
  BY <1>7 DEF Answer, InSubmit
<1>8. CASE (\E t \in Topics : RegisterTopic(t)) \/ (\E tx \in Txs : Mine(tx))
           \/ UNCHANGED engineVars
  BY <1>0, <1>8 DEF RegisterTopic, Mine, engineVars, LockInv, InSubmit
<1>9. CASE \E j \in Submitters : WithinSubmit(j) \/ Answer(j)
  <2>1. rec.pc # "check"
    BY <1>1, <1>7, <1>9 DEF LockInv
  <2> QED BY <1>0, <1>1, <1>7, <1>9, <2>1 DEF LockInv
<1>10. CASE \E j \in Submitters, tx \in Txs, ts \in TopicLists : Submit(j, tx, ts)
  BY <1>0, <1>2, <1>10 DEF LockInv
<1> QED BY <1>3, <1>4, <1>5, <1>6, <1>8, <1>9, <1>10 DEF EngineNext, Step, WithinSubmit

\* Every step keeps the types.
LEMMA EngineTypesStep ==
  EngineTypeInv /\ LockInv /\ [EngineNext]_engineVars => EngineTypeInv' /\ LockInv'
<1> SUFFICES ASSUME EngineTypeInv, LockInv, [EngineNext]_engineVars
             PROVE  EngineTypeInv'
  BY ReconcileTypes
<1>1. CASE \E j \in Submitters : WithinSubmit(j)
  BY <1>1, SubmitTypes
<1>2. ASSUME NEW j \in Submitters, NEW tx \in Txs, NEW ts \in TopicLists, Submit(j, tx, ts)
      PROVE  EngineTypeInv'
  <2>1. JobOK(j)'
    BY <1>2, SubmitBegins DEF JobOK, InSubmit, AtTopic
  <2>2. ASSUME NEW h \in Submitters, h # j PROVE JobOK(h)'
    <3>1. /\ job'[h].pc = job[h].pc /\ job'[h].tx = job[h].tx
          /\ job'[h].topics = job[h].topics /\ job'[h].k = job[h].k
          /\ job'[h].prev = job[h].prev /\ job'[h].sure \subseteq job[h].sure
          /\ topics' = topics
      BY <1>2, <2>2, SubmitBegins
    <3>2. Topic(h)' = Topic(h) /\ \A n : Coin(h, n)' = Coin(h, n)
      BY <3>1, SameCoins
    <3>3. JobOK(h)
      BY DEF EngineTypeInv
    <3> QED BY <3>1, <3>2, <3>3 DEF JobOK, InSubmit, AtTopic
  <2> QED BY <1>2, <2>1, <2>2, SubmitBegins DEF EngineTypeInv
<1>3. CASE /\ \A j \in Submitters : ~WithinSubmit(j)
           /\ \A j \in Submitters, tx \in Txs, ts \in TopicLists : ~Submit(j, tx, ts)
  <2>1. ASSUME NEW h \in Submitters PROVE JobOK(h)'
    <3>1. CASE job'[h] = Idle
      BY <3>1, RestJobs DEF JobOK, InSubmit, AtTopic
    <3>2. CASE job'[h] = job[h] /\ topics \subseteq topics'
      BY <3>2, JobFrame
    <3>3. CASE job'[h] = job[h] /\ ~InSubmit(h)'
      <4>1. job[h].sure = {}
        BY <3>3 DEF EngineTypeInv, JobOK, InSubmit
      <4> QED BY <3>3, <4>1 DEF JobOK, InSubmit, AtTopic
    <3> QED BY <1>3, <3>1, <3>2, <3>3, OtherSteps DEF Rests
  <2>2. CASE UNCHANGED <<db, failed, told>>
    BY <1>3, <2>1, <2>2, OtherSteps, ReconcileTypes DEF EngineTypeInv
  <2>3. CASE DeleteSpent
    <3>1. PICK key \in rec.dead : Write(key, FALSE) /\ told' = [told EXCEPT ![key] = "nothing"]
      BY <2>3 DEF DeleteSpent
    <3>2. key \in Keys
      BY DEF EngineTypeInv, Reconciliations
    <3>3. db' \subseteq Keys /\ failed' \subseteq Keys
      BY <3>1, <3>2, WriteFrame DEF EngineTypeInv
    <3>4. told' \in [Keys -> {"nothing", "admitted", "removed"}]
      BY <3>1 DEF EngineTypeInv
    <3> QED BY <1>3, <2>1, <3>3, <3>4, OtherSteps, ReconcileTypes DEF EngineTypeInv
  <2> QED BY <1>3, <2>2, <2>3, OtherSteps
<1> QED BY <1>1, <1>2, <1>3

------------------------------------------------------------------------------
(* What the answers say                                                     *)

\* What RemovalsDone tells of a key.
LEMMA Tells ==
  ASSUME EngineTypeInv, NEW j \in Submitters, RemovalsDone(j), NEW key \in Keys
  PROVE  /\ job[j].pc = "remove" /\ job[j].i > Len(job[j].prev)
         /\ \/ told'[key] = told[key]
            \/ told'[key] = "nothing"
            \/ /\ key \in job[j].sure /\ told'[key] = "admitted"
               /\ \E v \in Admitted(job[j].tx) : key = KeyOf(j, <<job[j].tx, v>>)
            \/ /\ key \in job[j].sure /\ told'[key] = "removed"
               /\ \E n \in 1..Len(job[j].prev) : key = Coin(j, n)
<1> DEFINE tx == job[j].tx
           in == {outputKey(Topic(j), <<tx, v>>) : v \in Admitted(tx)}
           out == UNION {{outputKey(Topic(j), Ins[tx][i]) : i \in remapToInputIdx(j, n)} :
                           n \in 1..Len(job[j].prev)}
<1>1. told'[key] = CASE key \in in \cap job[j].sure -> "admitted"
                     [] key \in out \cap job[j].sure -> "removed"
                     [] key \in job[j].sure /\ key[1] = Topic(j) -> "nothing"
                     [] OTHER -> told[key]
  BY DEF RemovalsDone
<1>2. key \in in => \E v \in Admitted(tx) : key = KeyOf(j, <<tx, v>>)
  BY DEF KeyOf
<1>3. ASSUME key \in out PROVE \E n \in 1..Len(job[j].prev) : key = Coin(j, n)
  <2>1. PICK n \in 1..Len(job[j].prev) :
           \E i \in remapToInputIdx(j, n) : key = outputKey(Topic(j), Ins[tx][i])
    BY <1>3
  <2> QED BY <2>1 DEF remapToInputIdx, Coin, KeyOf
<1> HIDE DEF in, out
<1>4. \/ told'[key] = told[key] \/ told'[key] = "nothing"
      \/ told'[key] = "admitted" /\ key \in in \cap job[j].sure
      \/ told'[key] = "removed" /\ key \in out \cap job[j].sure
  BY <1>1
<1> QED BY <1>2, <1>3, <1>4 DEF RemovalsDone

\* The keys of a submission are those of its transaction and topics.
LEMMA SameTouched ==
  ASSUME NEW j \in Submitters, job'[j].tx = job[j].tx, job'[j].topics = job[j].topics
  PROVE  TouchedBy(j)' = TouchedBy(j)
BY DEF TouchedBy

\* Every step keeps submissions sure of their own keys only.
LEMMA SureStep ==
  EngineTypeInv /\ LockInv /\ SureInv /\ [EngineNext]_engineVars => SureInv'
<1> SUFFICES ASSUME EngineTypeInv, LockInv, SureInv, [EngineNext]_engineVars, NEW h \in Submitters
             PROVE  SureOf(h)'
  BY DEF SureInv
<1>0. SureOf(h) /\ TouchedBy(h) \subseteq Keys
  BY DEF SureInv, TouchedBy, Touched
<1>1. ASSUME NEW j \in Submitters, WithinSubmit(j) PROVE SureOf(h)'
  <2>1. \A g \in Submitters : /\ TouchedBy(g)' = TouchedBy(g) /\ InSubmit(g)' = InSubmit(g)
                              /\ job'[g].sure = job[g].sure /\ job'[g].tx = job[g].tx
    BY <1>1, SubmitFrame, SameTouched DEF InSubmit
  <2>2. ASSUME NEW key \in TouchedBy(h), InSubmit(h), told'[key] # "nothing"
        PROVE  /\ key \in job[h].sure
               /\ told'[key] = "admitted" => key[2] \in Outputs(job[h].tx)
               /\ told'[key] = "removed" => key[2] \in Inputs(job[h].tx)
    <3>1. CASE told'[key] = told[key]
      BY <1>0, <2>2, <3>1 DEF SureOf
    <3>2. CASE told'[key] # told[key]
      <4>1. /\ RemovalsDone(j) /\ AtTopic(j) /\ key \in job[j].sure
            /\ \/ /\ told'[key] = "admitted"
                  /\ \E v \in Admitted(job[j].tx) : key = KeyOf(j, <<job[j].tx, v>>)
               \/ /\ told'[key] = "removed"
                  /\ \E n \in 1..Len(job[j].prev) : key = Coin(j, n)
        BY <1>0, <1>1, <2>2, <3>2, SubmitMoves, Tells DEF AtTopic
      <4>2. h = j
        BY <1>0, <1>1, <2>2, <4>1, SubmitFrame DEF SureInv, SureOf
      <4> QED BY <4>1, <4>2, OwnKeys
    <3> QED BY <3>1, <3>2
  <2>3. InSubmit(h) => /\ job[h].sure \subseteq TouchedBy(h)
                       /\ \A g \in Submitters : g # h /\ InSubmit(g) =>
                            job[h].sure \cap TouchedBy(g) = {}
    BY <1>0 DEF SureOf
  <2> QED BY <2>1, <2>2, <2>3 DEF SureOf
<1>2. ASSUME NEW j \in Submitters, NEW tx \in Txs, NEW ts \in TopicLists, Submit(j, tx, ts)
      PROVE  SureOf(h)'
  <2> DEFINE touched == Touched(tx, ts)
  <2>1. /\ TouchedBy(j)' = touched /\ touched \subseteq Keys
        /\ \A g \in Submitters : g # j => TouchedBy(g)' = TouchedBy(g) /\ InSubmit(g)' = InSubmit(g)
    BY <1>2, SubmitBegins, SameTouched DEF TouchedBy, Touched, InSubmit
  <2>2. \A key \in Keys : told'[key] = IF key \in touched THEN "nothing" ELSE told[key]
    BY <1>2, SubmitBegins
  <2>3. CASE h = j
    <3>1. job'[j].sure = touched \ Busy(touched)
      BY <1>2, SubmitBegins
    <3>2. \A g \in Submitters : InSubmit(g) => touched \cap TouchedBy(g) \subseteq Busy(touched)
      BY DEF Busy, TouchedBy
    <3> HIDE DEF touched
    <3> QED BY <2>1, <2>2, <2>3, <3>1, <3>2 DEF SureOf
  <2>4. CASE h # j
    <3>1. job'[h].sure = job[h].sure \ touched /\ job'[h].tx = job[h].tx
      BY <1>2, <2>4, SubmitBegins
    <3> HIDE DEF touched
    <3> QED BY <1>0, <2>1, <2>2, <2>4, <3>1 DEF SureOf
  <2> QED BY <2>3, <2>4
<1>3. CASE /\ \A j \in Submitters : ~WithinSubmit(j)
           /\ \A j \in Submitters, tx \in Txs, ts \in TopicLists : ~Submit(j, tx, ts)
  <2>1. \A g \in Submitters : InSubmit(g)' => InSubmit(g) /\ job'[g] = job[g]
    BY <1>3, OtherSteps, RestJobs DEF Rests, InSubmit
  <2>2. \A g \in Submitters : InSubmit(g)' => TouchedBy(g)' = TouchedBy(g)
    BY <2>1, SameTouched
  <2>3. InSubmit(h)' => told' = told
    BY <1>3, <2>1, OtherSteps
  <2> QED BY <1>0, <2>1, <2>2, <2>3 DEF SureOf
<1> QED BY <1>1, <1>2, <1>3

\* A submission's steps at a topic leave what another one is sure of alone.
LEMMA OthersAlone ==
  ASSUME EngineTypeInv, SureInv, NEW j \in Submitters, WithinSubmit(j),
         NEW h \in Submitters, h # j, InSubmit(h), NEW key \in job[h].sure
  PROVE  (key \in db' <=> key \in db) /\ (key \in failed' <=> key \in failed)
<1>1. key \notin TouchedBy(j)
  BY SubmitFrame DEF SureInv, SureOf
<1> QED BY <1>1, SubmitWrites, WriteFrame

\* Only advertisements are ever stored.
LEMMA ContentStep ==
  EngineTypeInv /\ LockInv /\ ContentInv /\ [EngineNext]_engineVars => ContentInv'
<1> SUFFICES ASSUME EngineTypeInv, LockInv, ContentInv, [EngineNext]_engineVars
             PROVE  \A key \in db' : key \in db \/ ContentOf(key) # NoContent
  BY DEF ContentInv, ContentOf
<1>1. ASSUME NEW j \in Submitters, WithinSubmit(j)
      PROVE  \A key \in db' : key \in db \/ ContentOf(key) # NoContent
  <2>1. ASSUME NEW v \in ToStore(j), Stored(j, v)
        PROVE  \A key \in db' : key \in db \/ ContentOf(key) # NoContent
    <3>1. AtTopic(j) /\ v \in Admitted(job[j].tx) /\ Write(KeyOf(j, <<job[j].tx, v>>), TRUE)
      BY <2>1 DEF Stored, AtTopic, ToStore
    <3>2. ContentOf(KeyOf(j, <<job[j].tx, v>>)) # NoContent
      BY <3>1, OwnKeys
    <3> QED BY <3>1, <3>2, WriteFrame
  <2>2. Removes(j) => db' \subseteq db
    BY WriteFrame DEF Removes
  <2> QED BY <1>1, <2>1, <2>2, SubmitMoves
<1>2. ASSUME NEW j \in Submitters, NEW tx \in Txs, NEW ts \in TopicLists, Submit(j, tx, ts)
      PROVE  db' = db
  BY <1>2, SubmitBegins
<1>3. DeleteSpent => db' \subseteq db
  BY WriteFrame DEF DeleteSpent
<1> QED BY <1>1, <1>2, <1>3, OtherSteps

------------------------------------------------------------------------------
(* What a submission has done so far                                        *)

\* A submission that stays where it is, and whose keys nobody writes.
LEMMA PassFrame ==
  ASSUME PassInv, NEW h \in Submitters,
         job'[h].pc = job[h].pc, job'[h].tx = job[h].tx, job'[h].topics = job[h].topics,
         job'[h].k = job[h].k, job'[h].i = job[h].i, job'[h].prev = job[h].prev,
         job'[h].sure \subseteq job[h].sure,
         AtTopic(h) => \A key \in job[h].sure : /\ key \in db' <=> key \in db
                                                /\ key \in failed' <=> key \in failed
  PROVE  PassOf(h)'
<1>1. /\ \A o : KeyOf(h, o)' = KeyOf(h, o)
      /\ \A n : Coin(h, n)' = Coin(h, n)
      /\ AtTopic(h)' = AtTopic(h)
  BY SameCoins DEF AtTopic
<1>2. PassOf(h)
  BY DEF PassInv
<1>3. ASSUME NEW v, AtTopic(h), Kept(h, v) PROVE Kept(h, v)'
  BY <1>1, <1>3 DEF Kept
<1> QED BY <1>1, <1>2, <1>3 DEF PassOf, ContentOf, AtTopic

\* A submission keeps up with its own steps.
LEMMA PassOwn ==
  ASSUME EngineTypeInv, PassInv, ContentInv, NEW j \in Submitters, WithinSubmit(j)
  PROVE  PassOf(j)'
<1>0. /\ PassOf(j) /\ job[j].i \in Nat \ {0} /\ Len(job[j].prev) \in Nat
  BY JobNumbers DEF PassInv
<1>m. /\ Leaves(j) => job'[j].pc = "topic"
      /\ Selects(j) => job'[j].pc = "find" /\ job'[j].prev = <<>>
      /\ Misses(j) => /\ job'[j].pc = "find" /\ job'[j].prev = job[j].prev
                      /\ job'[j].k = job[j].k
      /\ Finds(j) => /\ job'[j].pc = "find" /\ job'[j].k = job[j].k
                     /\ job'[j].prev = Append(job[j].prev, job[j].i)
      /\ Begins(j) => /\ job'[j].pc = "store" /\ job'[j].prev = job[j].prev
                      /\ job'[j].k = job[j].k /\ job'[j].i = 1
      /\ Turns(j) => /\ job'[j].pc = "remove" /\ job'[j].prev = job[j].prev
                     /\ job'[j].k = job[j].k /\ job'[j].i = 1
      /\ Removes(j) => /\ job'[j].pc = "remove" /\ job'[j].prev = job[j].prev
                       /\ job'[j].k = job[j].k /\ job'[j].i = job[j].i + 1
      /\ \A v \in ToStore(j) : Stored(j, v) =>
            /\ job'[j].pc = "store" /\ job'[j].prev = job[j].prev
            /\ job'[j].k = job[j].k /\ job'[j].i = v + 1
  <2> DEFINE N == Nat \ {0}
             Pcs == {"idle", "topic", "find", "store", "remove"}
             S == Seq(Nat)
  <2>1. ASSUME NEW pc \in Pcs, NEW k \in N, NEW i \in N, NEW p \in S, Moves(j, pc, k, i, p)
        PROVE  job'[j].pc = pc /\ job'[j].k = k /\ job'[j].i = i /\ job'[j].prev = p
    BY <2>1, JobMoves
  <2>2. /\ job[j].k \in N /\ job[j].i \in N /\ job[j].prev \in S
        /\ job[j].k + 1 \in N /\ job[j].i + 1 \in N /\ 1 \in N
        /\ Append(job[j].prev, job[j].i) \in S /\ <<>> \in S
        /\ \A v \in ToStore(j) : v + 1 \in N
    BY JobNumbers DEF ToStore
  <2>3. /\ "topic" \in Pcs /\ "find" \in Pcs /\ "store" \in Pcs /\ "remove" \in Pcs
    OBVIOUS
  <2> HIDE DEF N, S, Pcs
  <2>4. Leaves(j) => job'[j].pc = "topic"
    BY <2>1, <2>2, <2>3 DEF Leaves
  <2>5. Selects(j) => job'[j].pc = "find" /\ job'[j].prev = <<>>
    BY <2>1, <2>2, <2>3 DEF Selects
  <2>6. Misses(j) => /\ job'[j].pc = "find" /\ job'[j].prev = job[j].prev
                     /\ job'[j].k = job[j].k
    BY <2>1, <2>2, <2>3 DEF Misses
  <2>7. Finds(j) => /\ job'[j].pc = "find" /\ job'[j].k = job[j].k
                    /\ job'[j].prev = Append(job[j].prev, job[j].i)
    <3> DEFINE p == Append(job[j].prev, job[j].i)
    <3>1. p \in S /\ (Finds(j) => Moves(j, "find", job[j].k, job[j].i + 1, p))
      BY <2>2 DEF Finds
    <3> HIDE DEF p
    <3>2. Finds(j) => job'[j].pc = "find" /\ job'[j].k = job[j].k /\ job'[j].prev = p
      BY <2>1, <2>2, <2>3, <3>1
    <3> QED BY <3>2 DEF p
  <2>8. Begins(j) => /\ job'[j].pc = "store" /\ job'[j].prev = job[j].prev
                     /\ job'[j].k = job[j].k /\ job'[j].i = 1
    BY <2>1, <2>2, <2>3 DEF Begins
  <2>9. Turns(j) => /\ job'[j].pc = "remove" /\ job'[j].prev = job[j].prev
                    /\ job'[j].k = job[j].k /\ job'[j].i = 1
    BY <2>1, <2>2, <2>3 DEF Turns
  <2>10. Removes(j) => /\ job'[j].pc = "remove" /\ job'[j].prev = job[j].prev
                       /\ job'[j].k = job[j].k /\ job'[j].i = job[j].i + 1
    BY <2>1, <2>2, <2>3 DEF Removes
  <2>11. ASSUME NEW v \in ToStore(j), Stored(j, v)
         PROVE  /\ job'[j].pc = "store" /\ job'[j].prev = job[j].prev
                /\ job'[j].k = job[j].k /\ job'[j].i = v + 1
    BY <2>1, <2>2, <2>3, <2>11 DEF Stored
  <2> QED BY <2>4, <2>5, <2>6, <2>7, <2>8, <2>9, <2>10, <2>11
<1>s. /\ job'[j].tx = job[j].tx /\ job'[j].topics = job[j].topics /\ job'[j].sure = job[j].sure
  BY SubmitFrame
<1>k. ASSUME job'[j].k = job[j].k
      PROVE  /\ \A o : KeyOf(j, o)' = KeyOf(j, o)
             /\ job'[j].prev = job[j].prev => \A n : Coin(j, n)' = Coin(j, n)
  BY <1>s, <1>k, SameCoins
<1>1. CASE Leaves(j)
  BY <1>m, <1>1 DEF PassOf, AtTopic
<1>2. CASE Selects(j)
  <2>1. job'[j].pc = "find" /\ job'[j].prev = <<>>
    BY <1>m, <1>2
  <2> QED BY <2>1 DEF PassOf
<1>3. CASE Misses(j) /\ UNCHANGED <<db, failed>>
  <2>1. job'[j].pc = "find" /\ job'[j].prev = job[j].prev /\ job'[j].k = job[j].k
    BY <1>m, <1>3
  <2> QED BY <1>0, <1>s, <1>k, <1>3, <2>1 DEF PassOf, AtTopic, Misses, ContentOf
<1>4. CASE Finds(j) /\ UNCHANGED <<db, failed>>
  <2> DEFINE p == Append(job[j].prev, job[j].i)
  <2>1. job'[j].pc = "find" /\ job'[j].prev = p /\ job'[j].k = job[j].k /\ AtTopic(j)
    BY <1>m, <1>4 DEF Finds, AtTopic
  <2>2. ASSUME NEW n \in 1..Len(p)
        PROVE  /\ ContentOf(Coin(j, n)') # NoContent
               /\ Coin(j, n)' \in job[j].sure => Coin(j, n)' \in db
    <3>1. CASE n \in 1..Len(job[j].prev) /\ p[n] = job[j].prev[n]
      <4>1. Coin(j, n)' = Coin(j, n)
        BY <1>s, <2>1, <3>1, SameCoins
      <4> QED BY <1>0, <1>4, <3>1, <4>1 DEF PassOf, AtTopic, Finds
    <3>2. CASE p[n] = job[j].i
      <4>1. Coin(j, n)' = KeyOf(j, Ins[job[j].tx][job[j].i])
        BY <1>s, <1>k, <2>1, <3>2 DEF Coin
      <4> QED BY <1>4, <4>1 DEF Finds, ContentInv
    <3> QED BY <2>1, <3>1, <3>2, OneMoreCoin
  <2> HIDE DEF p
  <2> QED BY <1>s, <1>4, <2>1, <2>2 DEF PassOf, ContentOf
<1>5. CASE Begins(j) /\ UNCHANGED <<db, failed>>
  <2>1. /\ job'[j].pc = "store" /\ job'[j].prev = job[j].prev /\ job'[j].k = job[j].k
        /\ job'[j].i = 1
    BY <1>m, <1>5
  <2>2. \A v \in Admitted(job[j].tx) : ~(v < 1)
    BY DEF Admitted
  <2> QED BY <1>0, <1>s, <1>k, <1>5, <2>1, <2>2 DEF PassOf, AtTopic, Begins, ContentOf
<1>6. ASSUME NEW v \in ToStore(j), Stored(j, v) PROVE PassOf(j)'
  <2> DEFINE key == KeyOf(j, <<job[j].tx, v>>)
  <2>1. /\ v \in Admitted(job[j].tx) /\ v \in Nat /\ v + 1 \in Nat \ {0} /\ AtTopic(j)
        /\ job[j].pc = "store" /\ Write(key, TRUE)
        /\ \A u \in Admitted(job[j].tx) : u \in Nat /\ (u >= job[j].i => v <= u)
    BY <1>6, JobNumbers DEF Stored, ToStore, AtTopic
  <2>2. /\ job'[j].pc = "store" /\ job'[j].prev = job[j].prev /\ job'[j].k = job[j].k
        /\ job'[j].i = v + 1
    BY <1>m, <1>6
  <2>3. ASSUME NEW n \in 1..Len(job[j].prev), Coin(j, n) \in job[j].sure
        PROVE  Coin(j, n) \in db'
    <3>1. Coin(j, n) # key
      BY <2>1, <2>3, OwnKeys
    <3> QED BY <1>0, <2>1, <2>3, <3>1, WriteFrame DEF PassOf
  <2>4. ASSUME NEW u \in Admitted(job[j].tx), u < v + 1,
               KeyOf(j, <<job[j].tx, u>>) \in job[j].sure \ failed'
        PROVE  KeyOf(j, <<job[j].tx, u>>) \in db'
    <3>1. CASE KeyOf(j, <<job[j].tx, u>>) = key
      BY <2>1, <2>4, <3>1, WriteFrame
    <3>2. CASE KeyOf(j, <<job[j].tx, u>>) # key
      <4>1. u # v
        BY <3>2
      <4>2. u < job[j].i
        <5>1. u \in Nat /\ v \in Nat /\ job[j].i \in Nat /\ (u >= job[j].i => v <= u)
          BY <1>0, <2>1
        <5> QED BY <2>4, <4>1, <5>1
      <4>3. Kept(j, u)
        BY <1>0, <2>1, <4>2 DEF PassOf
      <4>4. \A other : other # key => /\ other \in db' <=> other \in db
                                      /\ other \in failed' <=> other \in failed
        BY <2>1, WriteFrame
      <4> QED BY <2>4, <3>2, <4>3, <4>4 DEF Kept
    <3> QED BY <3>1, <3>2
  <2>5. \A n \in 1..Len(job[j].prev) : ContentOf(Coin(j, n)) # NoContent
    BY <1>0, <2>1 DEF PassOf
  <2> QED BY <1>s, <1>k, <2>2, <2>3, <2>4, <2>5 DEF PassOf, Kept, ContentOf
<1>7. CASE Turns(j) /\ UNCHANGED <<db, failed>>
  <2>1. /\ job'[j].pc = "remove" /\ job'[j].prev = job[j].prev /\ job'[j].k = job[j].k
        /\ job'[j].i = 1 /\ job[j].pc = "store" /\ AtTopic(j)
    BY <1>m, <1>7 DEF Turns, AtTopic
  <2>2. \A v \in Admitted(job[j].tx) : v < job[j].i
    BY <1>0, <1>7 DEF Turns, ToStore, Admitted
  <2>3. \A v \in Admitted(job[j].tx) : Kept(j, v)
    BY <1>0, <2>1, <2>2 DEF PassOf
  <2>4. \A n \in 1..Len(job[j].prev) : ContentOf(Coin(j, n)) # NoContent
    BY <1>0, <2>1 DEF PassOf
  <2>5. \A n \in 1..Len(job[j].prev) : ~(n < 1)
    BY <1>0
  <2> QED BY <1>s, <1>k, <1>7, <2>1, <2>3, <2>4, <2>5 DEF PassOf, Kept, ContentOf
<1>8. CASE Removes(j)
  <2> DEFINE key == Coin(j, job[j].i)
  <2>1. /\ job'[j].pc = "remove" /\ job'[j].prev = job[j].prev /\ job'[j].k = job[j].k
        /\ job'[j].i = job[j].i + 1 /\ job[j].pc = "remove" /\ AtTopic(j)
        /\ Write(key, FALSE) /\ job[j].i \in 1..Len(job[j].prev)
    BY <1>m, <1>8 DEF Removes, AtTopic
  <2>2. ASSUME NEW v \in Admitted(job[j].tx), KeyOf(j, <<job[j].tx, v>>) \in job[j].sure \ failed'
        PROVE  KeyOf(j, <<job[j].tx, v>>) \in db'
    <3>1. KeyOf(j, <<job[j].tx, v>>) # key
      BY <2>1, OwnKeys
    <3>2. Kept(j, v)
      BY <1>0, <2>1 DEF PassOf
    <3> QED BY <2>1, <2>2, <3>1, <3>2, WriteFrame DEF Kept
  <2>3. ASSUME NEW n \in 1..Len(job[j].prev), n < job[j].i + 1, Coin(j, n) \in job[j].sure \ failed'
        PROVE  Coin(j, n) \notin db'
    <3>1. CASE Coin(j, n) = key
      BY <2>1, <2>3, <3>1, WriteFrame
    <3>2. CASE Coin(j, n) # key
      <4>1. n < job[j].i
        BY <1>0, <2>3, <3>2
      <4> QED BY <1>0, <2>1, <2>3, <3>2, <4>1, WriteFrame DEF PassOf
    <3> QED BY <3>1, <3>2
  <2>4. \A n \in 1..Len(job[j].prev) : ContentOf(Coin(j, n)) # NoContent
    BY <1>0, <2>1 DEF PassOf
  <2> QED BY <1>s, <1>k, <2>1, <2>2, <2>3, <2>4 DEF PassOf, Kept, ContentOf
<1> QED BY <1>1, <1>2, <1>3, <1>4, <1>5, <1>6, <1>7, <1>8, SubmitMoves

\* Every step keeps what the submissions have done.
LEMMA PassStep ==
  EngineTypeInv /\ LockInv /\ SureInv /\ ContentInv /\ PassInv /\ [EngineNext]_engineVars
    => PassInv'
<1> SUFFICES ASSUME EngineTypeInv, LockInv, SureInv, ContentInv, PassInv, [EngineNext]_engineVars,
                    NEW h \in Submitters
             PROVE  PassOf(h)'
  BY DEF PassInv
<1>1. ASSUME NEW j \in Submitters, WithinSubmit(j) PROVE PassOf(h)'
  <2>1. CASE h = j
    BY <1>1, <2>1, PassOwn
  <2>2. CASE h # j
    <3>1. job'[h] = job[h]
      BY <1>1, <2>2, SubmitFrame
    <3>2. AtTopic(h) => \A key \in job[h].sure : /\ key \in db' <=> key \in db
                                                 /\ key \in failed' <=> key \in failed
      BY <1>1, <2>2, OthersAlone DEF AtTopic, InSubmit
    <3> QED BY <3>1, <3>2, PassFrame
  <2> QED BY <2>1, <2>2
<1>2. ASSUME NEW j \in Submitters, NEW tx \in Txs, NEW ts \in TopicLists, Submit(j, tx, ts)
      PROVE  PassOf(h)'
  <2>1. CASE h = j
    <3>1. job'[h].pc = "topic"
      BY <1>2, <2>1, SubmitBegins
    <3> QED BY <3>1 DEF PassOf, AtTopic
  <2>2. CASE h # j
    BY <1>2, <2>2, SubmitBegins, PassFrame
  <2> QED BY <2>1, <2>2
<1>3. CASE /\ \A j \in Submitters : ~WithinSubmit(j)
           /\ \A j \in Submitters, tx \in Txs, ts \in TopicLists : ~Submit(j, tx, ts)
  <2>1. CASE job'[h] = Idle
    BY <2>1, RestJobs DEF PassOf, AtTopic
  <2>2. CASE job'[h] = job[h] /\ ~InSubmit(h)
    BY <2>2 DEF PassOf, AtTopic, InSubmit
  <2>3. CASE job'[h] = job[h] /\ UNCHANGED <<db, failed>>
    BY <2>3, PassFrame
  <2> QED BY <1>3, <2>1, <2>2, <2>3, OtherSteps DEF Rests
<1> QED BY <1>1, <1>2, <1>3

------------------------------------------------------------------------------
(* Reconcile                                                                *)

\* Every step keeps track of what Reconcile has still to remove.
LEMMA ReconcileStep ==
  EngineTypeInv /\ LockInv /\ ReconcileInv /\ [EngineNext]_engineVars => ReconcileInv'
<1> SUFFICES ASSUME EngineTypeInv, LockInv, ReconcileInv, [EngineNext]_engineVars,
                    rec'.pc = "check"
             PROVE  /\ \A o \in rec'.spent : SpentOnChain(o)'
                    /\ \A key \in db' \ failed' : key[2] \in rec'.spent =>
                         key \in rec'.todo \cup rec'.dead \cup rec'.unsure
  BY DEF ReconcileInv
<1>0. rec \in Reconciliations
  BY DEF EngineTypeInv
<1>1. ASSUME NEW j \in Submitters, WithinSubmit(j) \/ Answer(j) PROVE FALSE
  <2>1. InSubmit(j) /\ rec' = rec
    BY <1>1, SubmitFrame DEF Answer, InSubmit
  <2> QED BY <2>1 DEF LockInv
<1>2. ASSUME NEW j \in Submitters, NEW tx \in Txs, NEW ts \in TopicLists, Submit(j, tx, ts)
      PROVE  FALSE
  BY <1>2, SubmitBegins
<1>3. CASE Reconcile
  <2>1. /\ rec'.todo = db /\ rec'.spent = {o \in Outpoints : SpentOnChain(o)}
        /\ db' = db /\ mined' = mined
    BY <1>3 DEF Reconcile, NoReconcile
  <2> QED BY <2>1 DEF SpentOnChain
<1>4. CASE CheckOutput
  <2>1. PICK key \in rec.todo :
           \/ rec' = [rec EXCEPT !.todo = @ \ {key},
                                 !.dead = IF SpentOnChain(key[2]) THEN @ \cup {key} ELSE @]
           \/ rec' = [rec EXCEPT !.todo = @ \ {key}, !.unsure = @ \cup {key}]
    BY <1>4 DEF CheckOutput
  <2>2. rec.pc = "check" /\ UNCHANGED <<db, failed, mined>>
    BY <1>4 DEF CheckOutput
  <2>3. /\ rec'.spent = rec.spent
        /\ rec.todo \cup rec.dead \cup rec.unsure \subseteq
             rec'.todo \cup rec'.dead \cup rec'.unsure \cup {key}
        /\ SpentOnChain(key[2]) => key \in rec'.dead \cup rec'.unsure
    <3>1. CASE rec' = [rec EXCEPT !.todo = @ \ {key}, !.unsure = @ \cup {key}]
      BY <1>0, <3>1 DEF Reconciliations
    <3>2. CASE rec' = [rec EXCEPT !.todo = @ \ {key},
                                  !.dead = IF SpentOnChain(key[2]) THEN @ \cup {key} ELSE @]
      <4> DEFINE dead == IF SpentOnChain(key[2]) THEN rec.dead \cup {key} ELSE rec.dead
      <4>1. /\ rec' = [rec EXCEPT !.todo = @ \ {key}, !.dead = dead]
            /\ rec.dead \subseteq dead /\ (SpentOnChain(key[2]) => key \in dead)
        BY <3>2
      <4> HIDE DEF dead
      <4> QED BY <1>0, <4>1 DEF Reconciliations
    <3> QED BY <2>1, <3>1, <3>2
  <2>4. \A o : SpentOnChain(o)' = SpentOnChain(o)
    BY <2>2 DEF SpentOnChain
  <2> QED BY <2>2, <2>3, <2>4 DEF ReconcileInv
<1>5. CASE DeleteSpent
  <2>1. PICK key \in rec.dead : Write(key, FALSE) /\ rec' = [rec EXCEPT !.dead = @ \ {key}]
    BY <1>5 DEF DeleteSpent
  <2>2. /\ rec.pc = "check" /\ rec'.spent = rec.spent /\ rec'.todo = rec.todo
        /\ rec'.unsure = rec.unsure /\ rec'.dead = rec.dead \ {key} /\ mined' = mined
    BY <1>0, <1>5, <2>1 DEF DeleteSpent, Reconciliations
  <2>3. \A other \in db' \ failed' : other # key /\ other \in db \ failed
    BY <2>1, WriteFrame
  <2>4. \A o : SpentOnChain(o)' = SpentOnChain(o)
    BY <2>2 DEF SpentOnChain
  <2> QED BY <2>2, <2>3, <2>4 DEF ReconcileInv
<1>6. CASE ReconcileEnds \/ Crash
  BY <1>6, RestJobs DEF ReconcileEnds, Crash
<1>7. ASSUME NEW tx \in Txs, Mine(tx)
      PROVE  mined \subseteq mined' /\ UNCHANGED <<rec, db, failed>>
  BY <1>7 DEF Mine
<1>8. CASE (\E t \in Topics : RegisterTopic(t)) \/ UNCHANGED engineVars
  <2>1. UNCHANGED <<rec, db, failed, mined>>
    BY <1>8 DEF RegisterTopic, engineVars
  <2> QED BY <2>1 DEF ReconcileInv, SpentOnChain
<1>9. CASE \E tx \in Txs : Mine(tx)
  BY <1>7, <1>9 DEF ReconcileInv, SpentOnChain
<1> QED BY <1>1, <1>2, <1>3, <1>4, <1>5, <1>6, <1>8, <1>9 DEF EngineNext, Step, WithinSubmit

\* Every step keeps the answers true.
LEMMA SteakStep ==
  EngineTypeInv /\ LockInv /\ SureInv /\ PassInv /\ SteakTrue /\ [EngineNext]_engineVars
    => SteakTrue'
<1> SUFFICES ASSUME EngineTypeInv, LockInv, SureInv, PassInv, SteakTrue, [EngineNext]_engineVars,
                    NEW key \in Keys, key \notin failed'
             PROVE  /\ told'[key] = "admitted" => key \in db'
                    /\ told'[key] = "removed" => key \notin db'
  BY DEF SteakTrue
<1>0. key \notin failed => /\ told[key] = "admitted" => key \in db
                           /\ told[key] = "removed" => key \notin db
  BY DEF SteakTrue
<1>1. ASSUME NEW j \in Submitters, WithinSubmit(j)
      PROVE  /\ told'[key] = "admitted" => key \in db'
             /\ told'[key] = "removed" => key \notin db'
  <2>1. CASE RemovalsDone(j)
    <3>1. UNCHANGED <<db, failed>> /\ AtTopic(j) /\ PassOf(j) /\ job[j].pc = "remove"
      BY <2>1 DEF RemovalsDone, AtTopic, PassInv
    <3>2. \A n \in 1..Len(job[j].prev) : n < job[j].i
      BY <2>1, JobNumbers DEF RemovalsDone
    <3>3. ASSUME NEW v \in Admitted(job[j].tx), key = KeyOf(j, <<job[j].tx, v>>),
                 key \in job[j].sure
          PROVE  key \in db
      <4>1. Kept(j, v)
        BY <3>1 DEF PassOf
      <4> QED BY <3>1, <3>3, <4>1 DEF Kept
    <3>4. ASSUME NEW n \in 1..Len(job[j].prev), key = Coin(j, n), key \in job[j].sure
          PROVE  key \notin db
      BY <3>1, <3>2, <3>4 DEF PassOf
    <3> QED BY <1>0, <2>1, <3>1, <3>3, <3>4, Tells
  <2>2. ASSUME NEW v \in ToStore(j), Stored(j, v), UNCHANGED told
        PROVE  /\ told'[key] = "admitted" => key \in db'
               /\ told'[key] = "removed" => key \notin db'
    <3> DEFINE written == KeyOf(j, <<job[j].tx, v>>)
    <3>1. AtTopic(j) /\ InSubmit(j) /\ v \in Admitted(job[j].tx) /\ Write(written, TRUE)
      BY <2>2 DEF Stored, AtTopic, ToStore, InSubmit
    <3>2. CASE key = written
      <4>1. told[key] # "removed"
        BY <3>1, <3>2, OwnKeys DEF SureInv, SureOf
      <4> QED BY <2>2, <3>1, <3>2, <4>1, WriteFrame
    <3>3. CASE key # written
      BY <1>0, <2>2, <3>1, <3>3, WriteFrame
    <3> QED BY <3>2, <3>3
  <2>3. ASSUME Removes(j), UNCHANGED told
        PROVE  /\ told'[key] = "admitted" => key \in db'
               /\ told'[key] = "removed" => key \notin db'
    <3> DEFINE written == Coin(j, job[j].i)
    <3>1. /\ AtTopic(j) /\ InSubmit(j) /\ job[j].i \in 1..Len(job[j].prev)
          /\ Write(written, FALSE)
      BY <2>3 DEF Removes, AtTopic, InSubmit
    <3>2. CASE key = written
      <4>1. told[key] # "admitted"
        BY <3>1, <3>2, OwnKeys DEF SureInv, SureOf
      <4> QED BY <2>3, <3>1, <3>2, <4>1, WriteFrame
    <3>3. CASE key # written
      BY <1>0, <2>3, <3>1, <3>3, WriteFrame
    <3> QED BY <3>2, <3>3
  <2> QED BY <1>0, <1>1, <2>1, <2>2, <2>3, SubmitMoves
<1>2. ASSUME NEW j \in Submitters, NEW tx \in Txs, NEW ts \in TopicLists, Submit(j, tx, ts)
      PROVE  /\ told'[key] \in {told[key], "nothing"} /\ UNCHANGED <<db, failed>>
  BY <1>2, SubmitBegins
<1>3. ASSUME DeleteSpent
      PROVE  /\ told'[key] = "admitted" => key \in db'
             /\ told'[key] = "removed" => key \notin db'
  <2>1. PICK dead \in rec.dead : Write(dead, FALSE) /\ told' = [told EXCEPT ![dead] = "nothing"]
    BY <1>3 DEF DeleteSpent
  <2>2. CASE key = dead
    <3>1. told'[key] = "nothing"
      BY <2>1, <2>2 DEF EngineTypeInv
    <3> QED BY <3>1
  <2>3. CASE key # dead
    <3>1. told'[key] = told[key]
      BY <2>1, <2>3 DEF EngineTypeInv
    <3> QED BY <1>0, <2>1, <2>3, <3>1, WriteFrame
  <2> QED BY <2>2, <2>3
<1> QED BY <1>0, <1>1, <1>2, <1>3, OtherSteps

------------------------------------------------------------------------------
(* The theorems about the engine                                            *)

\* An engine that has just been created satisfies the invariant.
LEMMA EngineInitInv == EngineInit => EngineInv
<1> SUFFICES ASSUME EngineInit PROVE EngineInv
  OBVIOUS
<1>1. \A j \in Submitters : job[j] = Idle
  BY DEF EngineInit
<1>2. EngineTypeInv
  BY <1>1, RestJobs DEF EngineInit, EngineTypeInv, JobOK, InSubmit, AtTopic
<1>3. SureInv /\ PassInv
  BY <1>1, RestJobs DEF SureInv, SureOf, PassInv, PassOf, InSubmit, AtTopic
<1>4. LockInv /\ ContentInv /\ ReconcileInv /\ SteakTrue
  BY RestJobs DEF EngineInit, LockInv, ContentInv, ReconcileInv, SteakTrue
<1> QED BY <1>2, <1>3, <1>4 DEF EngineInv

\* Every step keeps the invariant.
LEMMA EngineStepInv == EngineInv /\ [EngineNext]_engineVars => EngineInv'
BY EngineTypesStep, SureStep, ContentStep, PassStep, ReconcileStep, SteakStep DEF EngineInv

\* The invariant holds throughout.
THEOREM EngineInvariant == EngineSpec => []EngineInv
BY EngineInitInv, EngineStepInv, PTL DEF EngineSpec

\* Every variable of the engine keeps its type.
THEOREM EngineTypeCorrect == EngineSpec => []EngineTypes
<1>1. EngineInv => EngineTypes
  BY DEF EngineInv, EngineTypeInv, EngineTypes, JobOK, Jobs, Reconciliations
<1> QED BY <1>1, EngineInvariant, PTL

\* What the STEAKs say of a key is so for as long as no other submission and
\* no reconciliation has to do with it, whatever else is submitted.
THEOREM SteaksAreTrue == EngineSpec => []SteakTrue
<1>1. EngineInv => SteakTrue
  BY DEF EngineInv
<1> QED BY <1>1, EngineInvariant, PTL

\* While Submit replaces an advertisement, lookups find the old or the new one,
\* unless LevelDB refused to store the new one: Submit deletes the old one then
\* all the same.
THEOREM UpdatesLeaveNoGap == EngineSpec => []UpdateLeavesNoGap
<1>1. EngineInv => UpdateLeavesNoGap
  <2> SUFFICES ASSUME EngineInv, NEW j \in Submitters, job[j].pc \in {"store", "remove"},
                      NEW key \in Replaces(j)
               PROVE  \/ Lookup(Topic(j), ContentOf(key)) # {}
                      \/ job[j].pc = "remove" /\ Successors(j, key) \subseteq failed
    BY DEF UpdateLeavesNoGap
  <2>0. EngineTypeInv /\ PassOf(j) /\ AtTopic(j)
    BY DEF EngineInv, PassInv, AtTopic
  <2>1. PICK n \in 1..Len(job[j].prev) : key \in job[j].sure /\ key = Coin(j, n)
    BY DEF Replaces, Coin, KeyOf
  <2>2. CASE job[j].pc = "store"
    <3>1. key \in db /\ key[1] = Topic(j)
      BY <2>0, <2>1, <2>2 DEF PassOf, Coin, KeyOf, outputKey
    <3> QED BY <3>1 DEF Lookup, GetOutputsByTopic
  <2>3. ASSUME job[j].pc = "remove", NEW new \in Successors(j, key), new \notin failed
        PROVE  Lookup(Topic(j), ContentOf(key)) # {}
    <3>1. PICK v \in 1..Len(Outs[job[j].tx]) :
             new = KeyOf(j, <<job[j].tx, v>>) /\ new \in job[j].sure /\ ContentOf(new) = ContentOf(key)
      BY <2>3 DEF Successors, KeyOf
    <3>2. v \in Admitted(job[j].tx)
      BY <2>0, <2>1, <3>1 DEF PassOf, Admitted, ContentOf, KeyOf, outputKey
    <3>3. Kept(j, v)
      BY <2>0, <2>3, <3>2 DEF PassOf
    <3>4. new \in db /\ new[1] = Topic(j)
      BY <2>3, <3>1, <3>3 DEF Kept, KeyOf, outputKey
    <3> QED BY <3>1, <3>4 DEF Lookup, GetOutputsByTopic
  <2> QED BY <2>2, <2>3
<1> QED BY <1>1, EngineInvariant, PTL

\* Reconcile leaves no record of an output that was spent when it began, unless
\* the checker could not tell or LevelDB refused the delete.
THEOREM ReconciliationsHeal == EngineSpec => []ReconcileHeals
<1>1. EngineInv => ReconcileHeals
  BY DEF EngineInv, ReconcileInv, ReconcileHeals, Reconciled
<1> QED BY <1>1, EngineInvariant, PTL

==============================================================================
