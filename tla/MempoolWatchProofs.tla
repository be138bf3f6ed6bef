------------------------- MODULE MempoolWatchProofs --------------------------
(***************************************************************************)
(* For any transactions, addresses, subscribers and shards: what the watcher *)
(* tracks is what a restart would load, a subscriber hears of nothing the    *)
(* history lacks, the index counts its entries, and no announced             *)
(* transaction is forgotten.                                                 *)
(***************************************************************************)
EXTENDS MempoolWatch, FiniteSetTheorems, SequenceTheorems, TLAPS

\* The address an output pays.
Pays(o) == Outs[o[1]][o[2]]

\* What readLoop has found out where it is in a transaction.
JobInv ==
  /\ ~Running => job.pc = "read"
  /\ job.pc # "read" => job.tx \in Txs
  /\ job.pc \in {"scan", "persist", "spent"} => job.i \in 1..Length(job.tx)
  /\ job.pc = "persist" =>
       /\ job.i <= Len(Outs[job.tx]) /\ job.addr \in Addresses
       /\ job.addr = Outs[job.tx][job.i] /\ utxos[<<job.tx, job.i>>] = job.addr
  /\ job.pc = "spent" =>
       /\ job.i > Len(Outs[job.tx]) /\ job.addr \in Addresses
       /\ Input \in Outpoints /\ job.addr = Pays(Input) /\ utxos[Input] = NoAddr
       /\ HasDB => db[<<job.addr, Input>>] # "none" \/ <<job.addr, Input>> \in unsaved

\* An outpoint is tracked for, and stored under, the address it pays.
PaysInv ==
  /\ \A o \in Outpoints : utxos[o] \in {NoAddr, Pays(o)}
  /\ \A a \in Addresses, o \in Outpoints : db[<<a, o>>] # "none" => a = Pays(o)

\* The record readLoop is about to write: memory is ahead of it.
Ahead(a, o) ==
  \/ job.pc = "persist" /\ a = job.addr /\ o = <<job.tx, job.i>>
  \/ job.pc = "spent" /\ a = job.addr /\ o = Input

\* RestartGoesOn at any point of a transaction.
StoredInv ==
  HasDB /\ Running =>
    \A a \in Addresses, o \in Outpoints :
      <<a, o>> \notin unsaved /\ ~Ahead(a, o) => (utxos[o] = a <=> db[<<a, o>>] = "unspent")

Indexed == {t \in Txs : index[t] # NotSeen}

\* The counter with what readLoop and the evictor still have to tell it.
CountInv ==
  /\ IsFiniteSet(Indexed)
  /\ count = Cardinality(Indexed) - (IF job.pc = "count" THEN 1 ELSE 0) + evictor.n
  /\ ~evictor.on => evictor.n = 0

\* The inductive invariant.
WatchInv == /\ TypeOK /\ JobInv /\ PaysInv /\ StoredInv /\ HitsInHistory
            /\ CountInv /\ PendingAccounted

------------------------------------------------------------------------------
(* The monitor: no announced transaction is forgotten.                       *)

\* TypeOK in three parts, by who changes the variables.
MonitorTypes ==
  /\ main \in {"down", "started", "up", "alone", "stopping"}
  /\ connected \in BOOLEAN /\ reading \in BOOLEAN
  /\ pending \subseteq Txs /\ asked \subseteq Txs /\ lost \subseteq Txs
  /\ batch \in Seq(Txs) /\ flushing \in Seq(Txs)

IndexTypes ==
  /\ clock \in Nat /\ index \in [Txs -> Nat \cup {NotSeen}] /\ count \in Int
  /\ evictor \in [on : BOOLEAN, shard : Nat, cutoff : Int, n : Nat]

Jobs == [pc : {"read", "count", "check", "scan", "persist", "spent"},
         tx : Txs \cup {""}, i : Nat, addr : Addresses \cup {NoAddr}]

WatchTypes ==
  /\ watches \subseteq Addresses /\ unsaved \subseteq Keys
  /\ utxos \in [Outpoints -> Addresses \cup {NoAddr}]
  /\ db \in [Keys -> {"none", "unspent"} \cup Txs]
  /\ subs \in [Subscribers -> [on : BOOLEAN, queue : Seq(Hits)]]
  /\ job \in Jobs

\* The types by part.
LEMMA TypeParts == TypeOK <=> MonitorTypes /\ IndexTypes /\ WatchTypes
BY DEF TypeOK, MonitorTypes, IndexTypes, WatchTypes, Jobs

\* The elements of a sequence that grows by one, or is cut in two.
LEMMA RangeFacts ==
  ASSUME NEW S, NEW s \in Seq(S)
  PROVE  /\ Range(s) \subseteq S
         /\ Range(<<>>) = {}
         /\ \A e \in S : Range(Append(s, e)) = Range(s) \cup {e}
         /\ \A n \in 0..Len(s) :
              /\ SubSeq(s, 1, n) \in Seq(S) /\ SubSeq(s, n + 1, Len(s)) \in Seq(S)
              /\ Range(s) = Range(SubSeq(s, 1, n)) \cup Range(SubSeq(s, n + 1, Len(s)))
<1>1. Range(s) \subseteq S
  BY DEF Range
<1>2. Range(<<>>) = {}
  BY DEF Range
<1>3. ASSUME NEW e \in S PROVE Range(Append(s, e)) = Range(s) \cup {e}
  <2>1. DOMAIN Append(s, e) = DOMAIN s \cup {Len(s) + 1}
    OBVIOUS
  <2>2. \A i \in DOMAIN s : Append(s, e)[i] = s[i]
    OBVIOUS
  <2>3. Append(s, e)[Len(s) + 1] = e
    OBVIOUS
  <2> QED BY <2>1, <2>2, <2>3 DEF Range
<1>4. ASSUME NEW n \in 0..Len(s)
      PROVE  /\ SubSeq(s, 1, n) \in Seq(S) /\ SubSeq(s, n + 1, Len(s)) \in Seq(S)
             /\ Range(s) = Range(SubSeq(s, 1, n)) \cup Range(SubSeq(s, n + 1, Len(s)))
  <2> DEFINE a == SubSeq(s, 1, n)
  <2> DEFINE b == SubSeq(s, n + 1, Len(s))
  <2>1. /\ a \in Seq(S) /\ DOMAIN a = 1..n /\ \A i \in 1..n : a[i] = s[i]
    OBVIOUS
  <2>2. /\ b \in Seq(S) /\ DOMAIN b = 1..(Len(s) - n)
        /\ \A i \in 1..(Len(s) - n) : b[i] = s[n + i]
    OBVIOUS
  <2> HIDE DEF a, b
  <2>3. ASSUME NEW i \in DOMAIN s PROVE s[i] \in Range(a) \cup Range(b)
    <3>1. CASE i <= n
      BY <2>1, <3>1 DEF Range
    <3>2. CASE i > n
      <4>1. i - n \in 1..(Len(s) - n) /\ n + (i - n) = i
        BY <3>2
      <4> QED BY <2>2, <4>1 DEF Range
    <3> QED BY <3>1, <3>2
  <2>4. \A i \in 1..n : i \in DOMAIN s
    OBVIOUS
  <2>5. \A i \in 1..(Len(s) - n) : n + i \in DOMAIN s
    OBVIOUS
  <2> QED BY <2>1, <2>2, <2>3, <2>4, <2>5 DEF Range, a, b
<1> QED BY <1>1, <1>2, <1>3, <1>4

\* A process that has just begun, or ended, has no hash to remember.
LEMMA MemoryMonitor ==
  ASSUME NEW utxoSet, NEW started \in BOOLEAN, Memory(utxoSet, started),
         main' \in {"down", "started", "alone"}
  PROVE  MonitorTypes' /\ PendingAccounted'
<1>1. connected' \in BOOLEAN /\ reading' \in BOOLEAN
  BY Zenon DEF Memory
<1>2. /\ pending' = {} /\ batch' = <<>> /\ flushing' = <<>> /\ asked' = {} /\ lost' = {}
  BY DEF Memory
<1> QED BY <1>1, <1>2 DEF MonitorTypes, PendingAccounted

\* Between handleInv, batchLoop and the answers of the peer every pending hash
\* keeps a place.
LEMMA MonitorStep ==
  ASSUME MonitorTypes, PendingAccounted, [Next]_vars
  PROVE  MonitorTypes' /\ PendingAccounted'
<1>0. CASE UNCHANGED <<main, monitor>>
  BY <1>0 DEF monitor, MonitorTypes, PendingAccounted, Batching
<1>1. CASE SetupAlone \/ Dial \/ Close \/ Crash
  BY <1>1, MemoryMonitor DEF SetupAlone, Dial, Close, Crash, NewWatcher
<1>2. CASE StoreConnected \/ Stop \/ ReadLoopEnds
  <2>1. /\ connected' \in BOOLEAN /\ reading' \in BOOLEAN
        /\ UNCHANGED <<pending, batch, flushing, asked, lost>>
        /\ main' \in {"down", "started", "up", "alone", "stopping"}
        /\ main' \in {"started", "up"} => main \in {"started", "up"}
    <3>1. CASE StoreConnected
      <4>1. connected' \in BOOLEAN
        BY <3>1, Zenon DEF StoreConnected
      <4> QED BY <3>1, <4>1 DEF StoreConnected, MonitorTypes
    <3>2. CASE Stop
      BY <3>2 DEF Stop, monitor, MonitorTypes
    <3>3. CASE ReadLoopEnds
      <4>1. connected' \in BOOLEAN /\ reading' \in BOOLEAN
        BY <3>3, Zenon DEF ReadLoopEnds
      <4> QED BY <3>3, <4>1 DEF ReadLoopEnds, MonitorTypes
    <3> QED BY <1>2, <3>1, <3>2, <3>3
  <2> QED BY <2>1 DEF MonitorTypes, PendingAccounted, Batching
<1>3. ASSUME NEW t \in Txs, handleInv(t)
      PROVE  MonitorTypes' /\ PendingAccounted'
  <2>1. /\ pending' = pending \cup {t} /\ batch' = Append(batch, t)
        /\ UNCHANGED <<main, connected, reading, flushing, asked, lost>>
    BY <1>3 DEF handleInv
  <2>2. Range(batch') = Range(batch) \cup {t} /\ batch' \in Seq(Txs)
    BY <2>1, RangeFacts DEF MonitorTypes
  <2> QED BY <2>1, <2>2 DEF MonitorTypes, PendingAccounted, Batching
<1>4. ASSUME NEW t \in Txs, handleNotFound(t) \/ handleTx(t)
      PROVE  MonitorTypes' /\ PendingAccounted'
  <2>1. /\ pending' = pending \ {t} /\ asked' = asked \ {t}
        /\ UNCHANGED <<main, connected, reading, batch, flushing, lost>>
    BY <1>4 DEF handleNotFound, handleTx
  <2> QED BY <2>1 DEF MonitorTypes, PendingAccounted, Batching
<1>5. CASE takeBatch
  <2>1. /\ flushing = <<>> /\ flushing' = batch /\ batch' = <<>>
        /\ UNCHANGED <<main, connected, reading, pending, asked, lost>>
    BY <1>5 DEF takeBatch
  <2>2. Range(flushing) = {}
    BY <2>1, RangeFacts DEF MonitorTypes
  <2> QED BY <2>1, <2>2 DEF MonitorTypes, PendingAccounted, Batching
<1>6. CASE sendGetData
  <2> DEFINE n == IF Len(flushing) < MaxGetData THEN Len(flushing) ELSE MaxGetData
  <2> DEFINE hashes == Range(SubSeq(flushing, 1, n))
  <2>1. /\ flushing' = SubSeq(flushing, n + 1, Len(flushing))
        /\ \/ asked' = asked \cup hashes /\ UNCHANGED lost
           \/ lost' = lost \cup hashes /\ UNCHANGED asked
        /\ UNCHANGED <<main, connected, reading, pending, batch>>
    BY <1>6 DEF sendGetData
  <2>2. n \in 0..Len(flushing) /\ flushing \in Seq(Txs)
    <3>1. flushing \in Seq(Txs) /\ MaxGetData \in Nat
      BY WatchAssumption DEF MonitorTypes
    <3>2. Len(flushing) \in Nat
      BY <3>1
    <3> QED BY <3>1, <3>2
  <2> HIDE DEF n
  <2>3. /\ SubSeq(flushing, 1, n) \in Seq(Txs) /\ flushing' \in Seq(Txs)
        /\ Range(flushing) = hashes \cup Range(flushing')
    BY <2>1, <2>2, RangeFacts
  <2>4. hashes \subseteq Txs
    BY <2>3, RangeFacts
  <2> HIDE DEF hashes
  <2>5. asked' \subseteq Txs /\ lost' \subseteq Txs
        /\ asked' \cup lost' = asked \cup lost \cup hashes
    BY <2>1, <2>4 DEF MonitorTypes
  <2> QED BY <2>1, <2>3, <2>5 DEF MonitorTypes, PendingAccounted, Batching
<1>7. CASE UNCHANGED vars
  BY <1>0, <1>7 DEF vars
<1>8. CASE Next
  <2>1. CASE Tick \/ Expire \/ ExpireShard \/ ExpireEnds
    BY <1>0, <2>1 DEF Tick, Expire, ExpireShard, ExpireEnds
  <2>2. CASE ReadStep
    BY <1>0, <2>2 DEF ReadStep, CheckTx, CheckOutput, persist, CheckInput, persistSpend
  <2>3. CASE \/ \E a \in Addresses : AddWatch(a) \/ RemoveWatch(a)
             \/ \E s \in Subscribers : Subscribe(s) \/ Receive(s) \/ Unsubscribe(s)
    BY <1>0, <2>3 DEF AddWatch, RemoveWatch, Subscribe, Receive, Unsubscribe
  <2> QED BY <1>1, <1>2, <1>3, <1>4, <1>5, <1>6, <1>8, <2>1, <2>2, <2>3 DEF Next
<1> QED BY <1>7, <1>8

------------------------------------------------------------------------------
(* The index and its counter.                                                *)

\* readLoop between two messages.
LEMMA ReadingFacts == Reading \in Jobs /\ Reading.pc = "read"
BY DEF Reading, Jobs

\* What At(i) is: the next place in the transaction, or the next message.
LEMMA AtFacts ==
  ASSUME job \in Jobs, job.tx \in Txs, NEW i \in Nat
  PROVE  /\ At(i) \in Jobs
         /\ At(i).pc = "scan" \/ At(i) = Reading
         /\ At(i).pc = "scan" => At(i).tx = job.tx /\ At(i).i = i /\ i <= Length(job.tx)
<1>1. Reading \in Jobs /\ Reading.pc = "read"
  BY ReadingFacts
<1> DEFINE N == Nat
<1> DEFINE J == [job EXCEPT !.pc = "scan", !.i = i, !.addr = NoAddr]
<1>2. /\ job \in [pc : {"read", "count", "check", "scan", "persist", "spent"},
                  tx : Txs \cup {""}, i : N, addr : Addresses \cup {NoAddr}]
      /\ i \in N
  BY DEF Jobs
<1> HIDE DEF N
<1>3. /\ J \in [pc : {"read", "count", "check", "scan", "persist", "spent"},
                tx : Txs \cup {""}, i : N, addr : Addresses \cup {NoAddr}]
      /\ J.pc = "scan" /\ J.tx = job.tx /\ J.i = i
  BY <1>2
<1>4. J \in Jobs
  BY <1>3 DEF Jobs, N
<1>5. At(i) = IF i <= Length(job.tx) THEN J ELSE Reading
  BY DEF At
<1> HIDE DEF J
<1> QED BY <1>1, <1>3, <1>4, <1>5

\* Where Add sends readLoop.
LEMMA AddJob ==
  ASSUME NEW t \in Txs, NEW p \in {"count", "check"}
  PROVE  LET j == [Reading EXCEPT !.pc = p, !.tx = t]
         IN  j \in Jobs /\ j.pc = p /\ j.tx = t
BY DEF Reading, Jobs

\* The index of a process that has just begun is empty.
LEMMA MemoryIndex ==
  ASSUME NEW utxoSet, NEW started, Memory(utxoSet, started), clock' \in Nat
  PROVE  IndexTypes' /\ CountInv'
<1>1. /\ index' = [t \in Txs |-> NotSeen] /\ count' = 0 /\ evictor' = NoEvictor /\ job' = Reading
  BY DEF Memory
<1>2. Indexed' = {}
  BY <1>1 DEF Indexed
<1>3. IsFiniteSet({}) /\ Cardinality({}) = 0
  BY FS_EmptySet
<1>4. IndexTypes'
  BY <1>1 DEF IndexTypes, NoEvictor
<1>5. job'.pc = "read" /\ evictor'.n = 0
  BY <1>1 DEF NoEvictor, Reading
<1> QED BY <1>1, <1>2, <1>3, <1>4, <1>5 DEF CountInv

\* The counter lags behind the shards by exactly what readLoop and the evictor
\* are about to report.
LEMMA IndexStep ==
  ASSUME IndexTypes, CountInv, WatchTypes, job.pc # "read" => job.tx \in Txs, [Next]_vars
  PROVE  IndexTypes' /\ CountInv'
<1>c. Cardinality(Indexed) \in Nat
  BY FS_CardinalityType DEF CountInv
<1>i. /\ clock \in Nat /\ count \in Int /\ NotSeen \notin Nat
      /\ evictor.on \in BOOLEAN /\ evictor.shard \in Nat /\ evictor.cutoff \in Int
      /\ evictor.n \in Nat
      /\ evictor = [on |-> evictor.on, shard |-> evictor.shard, cutoff |-> evictor.cutoff,
                    n |-> evictor.n]
  BY DEF IndexTypes, NotSeen
<1>0. CASE /\ UNCHANGED indexVars
           /\ clock' \in Nat /\ job.pc # "count" /\ job'.pc # "count"
  BY <1>0 DEF indexVars, IndexTypes, CountInv, Indexed
<1>1. CASE UNCHANGED <<clock, indexVars, job>>
  BY <1>1 DEF indexVars, IndexTypes, CountInv, Indexed
<1>2. CASE SetupAlone \/ Dial \/ Close \/ Crash
  BY <1>i, <1>2, MemoryIndex DEF SetupAlone, Dial, Close, Crash, NewWatcher
<1>3. CASE Tick
  BY <1>i, <1>3 DEF Tick, indexVars, IndexTypes, CountInv, Indexed
<1>4. ASSUME NEW t \in Txs, handleTx(t)
      PROVE  IndexTypes' /\ CountInv'
  <2>1. job.pc = "read" /\ UNCHANGED <<clock, count, evictor>>
    BY <1>4 DEF handleTx, AtMessage
  <2>2. CASE UNCHANGED <<index, job>>
    BY <1>1, <2>1, <2>2 DEF indexVars
  <2>3. CASE job' = [Reading EXCEPT !.pc = "check", !.tx = t] /\ UNCHANGED index
    <3>1. job'.pc = "check"
      BY <2>3, AddJob
    <3> QED BY <1>0, <1>i, <2>1, <2>3, <3>1 DEF indexVars
  <2>4. CASE /\ index[t] = NotSeen /\ index' = [index EXCEPT ![t] = clock]
             /\ job' = [Reading EXCEPT !.pc = "count", !.tx = t]
    <3>1. job'.pc = "count"
      BY <2>4, AddJob
    <3>2. index' \in [Txs -> Nat \cup {NotSeen}] /\ Indexed' = Indexed \cup {t} /\ t \notin Indexed
      BY <1>i, <2>4 DEF IndexTypes, Indexed
    <3>3. IsFiniteSet(Indexed') /\ Cardinality(Indexed') = Cardinality(Indexed) + 1
      BY <3>2, FS_AddElement DEF CountInv
    <3> QED BY <1>c, <1>i, <2>1, <3>1, <3>2, <3>3 DEF IndexTypes, CountInv
  <2> QED BY <1>4, <2>2, <2>3, <2>4 DEF handleTx, Add
<1>5. CASE CheckTx
  <2>1. /\ job.pc \in {"count", "check"} /\ UNCHANGED <<clock, index, evictor>>
        /\ count' = IF job.pc = "count" THEN count + 1 ELSE count
        /\ job' = Reading \/ job' = At(1)
    BY <1>5 DEF CheckTx
  <2>2. job'.pc # "count"
    <3>1. At(1).pc # "count"
      <4>1. job \in Jobs /\ job.tx \in Txs
        BY <2>1 DEF WatchTypes
      <4> QED BY <4>1, AtFacts, ReadingFacts
    <3> QED BY <2>1, <3>1, ReadingFacts
  <2>3. count' \in Int /\ Indexed' = Indexed
    BY <1>i, <2>1 DEF Indexed
  <2> QED BY <1>c, <1>i, <2>1, <2>2, <2>3 DEF IndexTypes, CountInv
<1>6. CASE CheckOutput \/ persist \/ CheckInput \/ persistSpend
  <2>1. /\ UNCHANGED <<clock, indexVars>> /\ job.pc \in {"scan", "persist", "spent"}
        /\ \/ job'.pc \in {"persist", "spent"}
           \/ job' = At(job.i + 1)
    <3>1. \A a : \A p \in {"persist", "spent"} : [job EXCEPT !.pc = p, !.addr = a].pc = p
      BY DEF WatchTypes, Jobs
    <3> QED BY <1>6, <3>1 DEF CheckOutput, persist, CheckInput, persistSpend, Advance,
                              AtOutput, AtInput
  <2>2. job'.pc # "count"
    <3>1. At(job.i + 1).pc # "count"
      <4>1. job.i \in Nat /\ job \in Jobs
        BY DEF WatchTypes, Jobs
      <4>2. job.i + 1 \in Nat /\ job.tx \in Txs
        BY <2>1, <4>1
      <4> QED BY <4>1, <4>2, AtFacts, ReadingFacts
    <3> QED BY <2>1, <3>1
  <2> QED BY <1>0, <1>i, <2>1, <2>2
<1>7. CASE Expire
  <2>1. /\ ~evictor.on /\ UNCHANGED <<clock, index, count, job>>
        /\ evictor' = [on |-> TRUE, shard |-> 0, cutoff |-> clock - TTL, n |-> 0]
    BY <1>7 DEF Expire
  <2>2. evictor' \in [on : BOOLEAN, shard : Nat, cutoff : Int, n : Nat] /\ evictor'.n = 0
        /\ evictor'.on
    <3>0. TTL \in Nat
      BY WatchAssumption
    <3>1. clock - TTL \in Int
      BY <1>i, <3>0
    <3> QED BY <2>1, <3>1
  <2>3. evictor.n = 0 /\ Indexed' = Indexed
    BY <2>1 DEF CountInv, Indexed
  <2> QED BY <2>1, <2>2, <2>3 DEF IndexTypes, CountInv
<1>8. CASE ExpireShard
  <2> DEFINE old == {t \in Txs : /\ Shard[t] = evictor.shard /\ index[t] # NotSeen
                                 /\ index[t] < evictor.cutoff}
  <2>1. /\ evictor.on /\ UNCHANGED <<clock, count, job>>
        /\ index' = [t \in Txs |-> IF t \in old THEN NotSeen ELSE index[t]]
        /\ evictor' = [evictor EXCEPT !.shard = @ + 1, !.n = @ + Cardinality(old)]
    BY <1>8 DEF ExpireShard
  <2>2. old \subseteq Indexed
    BY DEF Indexed
  <2>3. index' \in [Txs -> Nat \cup {NotSeen}] /\ Indexed' = Indexed \ old
    BY <2>1 DEF IndexTypes, Indexed
  <2> HIDE DEF old
  <2>4. IsFiniteSet(old) /\ Cardinality(old) \in Nat /\ Indexed \cap old = old
    BY <2>2, FS_Subset, FS_CardinalityType DEF CountInv
  <2>5. /\ IsFiniteSet(Indexed \ old)
        /\ Cardinality(Indexed \ old) = Cardinality(Indexed) - Cardinality(Indexed \cap old)
    BY FS_Difference DEF CountInv
  <2>6. /\ evictor' = [on |-> evictor.on, shard |-> evictor.shard + 1,
                       cutoff |-> evictor.cutoff, n |-> evictor.n + Cardinality(old)]
    BY <1>i, <2>1
  <2>7. evictor.shard + 1 \in Nat /\ evictor.n + Cardinality(old) \in Nat
    BY <1>i, <2>4
  <2>8. /\ evictor' \in [on : BOOLEAN, shard : Nat, cutoff : Int, n : Nat]
        /\ evictor'.n = evictor.n + Cardinality(old) /\ evictor'.on
    BY <1>i, <2>1, <2>6, <2>7
  <2>9. Cardinality(Indexed') = Cardinality(Indexed) - Cardinality(old) /\ IsFiniteSet(Indexed')
    BY <2>3, <2>4, <2>5
  <2> QED BY <1>c, <1>i, <2>1, <2>3, <2>4, <2>8, <2>9 DEF IndexTypes, CountInv
<1>9. CASE ExpireEnds
  <2>1. /\ count' = count - evictor.n /\ evictor' = NoEvictor /\ UNCHANGED <<clock, index, job>>
    BY <1>9 DEF ExpireEnds
  <2>2. evictor' \in [on : BOOLEAN, shard : Nat, cutoff : Int, n : Nat] /\ evictor'.n = 0
    BY <2>1 DEF NoEvictor
  <2>3. count' \in Int /\ Indexed' = Indexed
    BY <1>i, <2>1 DEF Indexed
  <2> QED BY <1>c, <1>i, <2>1, <2>2, <2>3 DEF IndexTypes, CountInv
<1>10. CASE UNCHANGED vars
  BY <1>1, <1>10 DEF vars
<1>11. CASE Next
  <2>1. CASE StoreConnected \/ Stop \/ ReadLoopEnds \/ takeBatch \/ sendGetData
    BY <1>1, <2>1 DEF StoreConnected, Stop, ReadLoopEnds, takeBatch, sendGetData
  <2>2. CASE \E t \in Txs : handleInv(t) \/ handleNotFound(t)
    BY <1>1, <2>2 DEF handleInv, handleNotFound
  <2>3. CASE \/ \E a \in Addresses : AddWatch(a) \/ RemoveWatch(a)
             \/ \E s \in Subscribers : Subscribe(s) \/ Receive(s) \/ Unsubscribe(s)
    BY <1>1, <2>3 DEF AddWatch, RemoveWatch, Subscribe, Receive, Unsubscribe
  <2> QED BY <1>2, <1>3, <1>4, <1>5, <1>6, <1>7, <1>8, <1>9, <1>11, <2>1, <2>2, <2>3
        DEF Next, ReadStep
<1> QED BY <1>10, <1>11

------------------------------------------------------------------------------
(* The watcher: memory, database and subscribers.                            *)

\* The record exists, or its last Put failed.
Backed(key) == db[key] # "none" \/ key \in unsaved

\* The part of the invariant that is about the watcher.
WatcherInv == WatchTypes /\ JobInv /\ PaysInv /\ StoredInv /\ HitsInHistory

\* An outpoint names an output of a transaction.
LEMMA OutpointFacts ==
  /\ \A t \in Txs : \A v \in 1..Len(Outs[t]) : <<t, v>> \in Outpoints
  /\ \A o \in Outpoints : /\ o[1] \in Txs /\ o[2] \in 1..Len(Outs[o[1]])
                          /\ Pays(o) \in Addresses \cup {NoAddr}
<1>1. Outs \in [Txs -> Seq(Addresses \cup {NoAddr})]
  BY WatchAssumption
<1>2. \A t \in Txs : Outs[t] \in Seq(Addresses \cup {NoAddr})
  BY <1>1
<1>3. \A t \in Txs : \A v \in 1..Len(Outs[t]) : Outs[t][v] \in Addresses \cup {NoAddr}
  BY <1>2
<1>4. \A o \in Outpoints : o[1] \in Txs /\ o[2] \in 1..Len(Outs[o[1]])
  BY DEF Outpoints
<1> QED BY <1>3, <1>4 DEF Outpoints, Pays

\* The lengths of a transaction's lists.
LEMMA LengthFacts ==
  ASSUME NEW t \in Txs
  PROVE  /\ Len(Outs[t]) \in Nat /\ Len(Ins[t]) \in Nat
         /\ Length(t) = Len(Outs[t]) + Len(Ins[t]) /\ Length(t) \in Nat
<1>1. Outs \in [Txs -> Seq(Addresses \cup {NoAddr})] /\ Ins \in [Txs -> Seq(Txs \X Nat)]
  BY WatchAssumption
<1>2. Outs[t] \in Seq(Addresses \cup {NoAddr}) /\ Ins[t] \in Seq(Txs \X Nat)
  BY <1>1
<1>3. Len(Outs[t]) \in Nat /\ Len(Ins[t]) \in Nat
  BY <1>2
<1>4. Length(t) = Len(Outs[t]) + Len(Ins[t])
  BY DEF Length
<1>5. \A x, y \in Nat : x + y \in Nat
  OBVIOUS
<1> QED BY <1>3, <1>4, <1>5, Zenon

\* No transaction is taken for a state of a record.
LEMMA TxNames == NoAddr \notin Addresses /\ \A t \in Txs : t # "none" /\ t # "unspent"
BY WatchAssumption

\* A hit names the key of a record.
LEMMA HitKey ==
  ASSUME NEW hit \in Hits
  PROVE  hit \in Keys /\ hit[1] \in Addresses /\ hit[2] \in Outpoints /\ hit = <<hit[1], hit[2]>>
BY DEF Hits, Keys

\* What a subscriber has queued are hits.
LEMMA QueueTyped ==
  ASSUME NEW f \in [Subscribers -> [on : BOOLEAN, queue : Seq(Hits)]], NEW s \in Subscribers,
         NEW i \in 1..Len(f[s].queue)
  PROVE  f[s].queue[i] \in Hits
<1>1. f[s].queue \in Seq(Hits)
  OBVIOUS
<1> QED BY <1>1

\* Put writes one record, or notes that it could not.
LEMMA PutFacts ==
  ASSUME WatchTypes, NEW key \in Keys, NEW value \in {"unspent"} \cup Txs, Put(key, value)
  PROVE  /\ db' \in [Keys -> {"none", "unspent"} \cup Txs] /\ unsaved' \subseteq Keys
         /\ \A k \in Keys : k # key => /\ db'[k] = db[k]
                                       /\ k \in unsaved' <=> k \in unsaved
         /\ key \in unsaved' \/ db'[key] = value
         /\ db'[key] \in {db[key], value}
         /\ \A k \in Keys : Backed(k) \/ k = key => Backed(k)'
<1>1. value # "none"
  BY TxNames
<1>2. CASE db' = [db EXCEPT ![key] = value] /\ unsaved' = unsaved \ {key}
  BY <1>1, <1>2 DEF WatchTypes, Backed
<1>3. CASE unsaved' = unsaved \cup {key} /\ db' = db
  BY <1>3 DEF WatchTypes, Backed
<1> QED BY <1>2, <1>3 DEF Put

\* notify adds the hit to some queues and changes nothing else in them.
LEMMA NotifyFacts ==
  ASSUME WatchTypes, NEW addr \in Addresses, NEW out \in Outpoints, notify(addr, out)
  PROVE  /\ subs' \in [Subscribers -> [on : BOOLEAN, queue : Seq(Hits)]]
         /\ \A s \in Subscribers : \A i \in 1..Len(subs'[s].queue) :
              \/ subs'[s].queue[i] = <<addr, out>>
              \/ i \in 1..Len(subs[s].queue) /\ subs'[s].queue[i] = subs[s].queue[i]
<1>1. <<addr, out>> \in Hits
  BY DEF Hits
<1> DEFINE hit == <<addr, out>>
<1> HIDE DEF hit
<1>2. ASSUME NEW s \in Subscribers
      PROVE  /\ subs'[s] \in [on : BOOLEAN, queue : Seq(Hits)]
             /\ \A i \in 1..Len(subs'[s].queue) :
                  \/ subs'[s].queue[i] = hit
                  \/ i \in 1..Len(subs[s].queue) /\ subs'[s].queue[i] = subs[s].queue[i]
  <2>1. subs[s] \in [on : BOOLEAN, queue : Seq(Hits)]
    BY DEF WatchTypes
  <2> DEFINE q == Append(subs[s].queue, hit)
  <2>2. /\ q \in Seq(Hits)
        /\ \A i \in 1..Len(q) : q[i] = hit \/ (i \in 1..Len(subs[s].queue) /\ q[i] = subs[s].queue[i])
    <3>1. subs[s].queue \in Seq(Hits) /\ hit \in Hits
      BY <1>1, <2>1 DEF hit
    <3> QED BY <3>1
  <2>3. subs'[s] = [subs[s] EXCEPT !.queue = q] \/ subs'[s] = subs[s]
    BY DEF notify, hit
  <2> HIDE DEF q
  <2>4. CASE subs'[s] = subs[s]
    BY <2>1, <2>4
  <2>5. CASE subs'[s] = [subs[s] EXCEPT !.queue = q]
    <3>1. subs'[s].queue = q /\ subs'[s] \in [on : BOOLEAN, queue : Seq(Hits)]
      BY <2>1, <2>2, <2>5
    <3> QED BY <2>2, <3>1
  <2> QED BY <2>3, <2>4, <2>5
<1>3. subs' = [s \in Subscribers |-> subs'[s]]
  BY DEF notify
<1> QED BY <1>2, <1>3 DEF hit

\* Where the records only gain and the queues only gain a backed hit, the
\* subscribers' hits stay in the history.
LEMMA HitsKept ==
  ASSUME WatchTypes, HitsInHistory, WatchTypes',
         \A k \in Keys : Backed(k) => Backed(k)',
         \A s \in Subscribers : \A i \in 1..Len(subs'[s].queue) :
           \/ \E k \in Keys : k = subs'[s].queue[i] /\ Backed(k)'
           \/ \E j \in 1..Len(subs[s].queue) : subs'[s].queue[i] = subs[s].queue[j]
  PROVE  HitsInHistory'
<1> SUFFICES ASSUME HasDB, NEW s \in Subscribers, NEW i \in 1..Len(subs'[s].queue)
             PROVE  LET hit == subs'[s].queue[i]
                    IN  \/ hit[2] \in {o \in Outpoints : db'[<<hit[1], o>>] # "none"}
                        \/ hit \in unsaved'
  BY DEF HitsInHistory, History
<1>1. \E k \in Keys : k = subs'[s].queue[i] /\ Backed(k)'
  <2>1. ASSUME NEW j \in 1..Len(subs[s].queue), subs'[s].queue[i] = subs[s].queue[j]
        PROVE  \E k \in Keys : k = subs'[s].queue[i] /\ Backed(k)'
    <3> DEFINE k == subs[s].queue[j]
    <3>1. k \in Hits
      BY QueueTyped DEF WatchTypes
    <3>2. k[2] \in History(k[1]) \/ k \in unsaved
      BY DEF HitsInHistory
    <3> HIDE DEF k
    <3>3. k \in Keys /\ Backed(k)
      BY <3>1, <3>2, HitKey DEF History, Backed
    <3> QED BY <2>1, <3>3 DEF k
  <2> QED BY <2>1
<1>2. PICK k \in Keys : k = subs'[s].queue[i] /\ Backed(k)'
  BY <1>1
<1>3. k[2] \in Outpoints /\ k = <<k[1], k[2]>>
  BY DEF Keys
<1> QED BY <1>2, <1>3 DEF Backed

\* What loadUTXOs tracks is what the database has as unspent.
LEMMA LoadFacts ==
  ASSUME WatchTypes, PaysInv
  PROVE  /\ loadUTXOs \in [Outpoints -> Addresses \cup {NoAddr}]
         /\ \A o \in Outpoints : loadUTXOs[o] \in {NoAddr, Pays(o)}
         /\ \A a \in Addresses, o \in Outpoints :
              loadUTXOs[o] = a <=> db[<<a, o>>] = "unspent"
<1>1. ASSUME NEW o \in Outpoints
      PROVE  /\ loadUTXOs[o] \in Addresses \cup {NoAddr} /\ loadUTXOs[o] \in {NoAddr, Pays(o)}
             /\ \A a \in Addresses : loadUTXOs[o] = a <=> db[<<a, o>>] = "unspent"
  <2>1. \A a \in Addresses : db[<<a, o>>] = "unspent" => a = Pays(o)
    BY DEF PaysInv
  <2>2. CASE \E a \in Addresses : db[<<a, o>>] = "unspent"
    <3> DEFINE c == CHOOSE a \in Addresses : db[<<a, o>>] = "unspent"
    <3>1. loadUTXOs[o] = c /\ c \in Addresses /\ db[<<c, o>>] = "unspent"
      BY <2>2 DEF loadUTXOs
    <3> HIDE DEF c
    <3> QED BY <2>1, <3>1
  <2>3. CASE ~\E a \in Addresses : db[<<a, o>>] = "unspent"
    <3>1. loadUTXOs[o] = NoAddr
      BY <2>3 DEF loadUTXOs
    <3> QED BY <2>3, <3>1, TxNames
  <2> QED BY <2>2, <2>3
<1>2. loadUTXOs = [o \in Outpoints |-> loadUTXOs[o]]
  BY DEF loadUTXOs
<1> QED BY <1>1, <1>2

\* A process that begins with what the database has, or is down.
LEMMA MemoryWatch ==
  ASSUME WatcherInv, NEW utxoSet \in [Outpoints -> Addresses \cup {NoAddr}], NEW started,
         Memory(utxoSet, started), db' = db,
         \A o \in Outpoints : utxoSet[o] \in {NoAddr, Pays(o)},
         HasDB /\ main' # "down" =>
           \A a \in Addresses, o \in Outpoints : utxoSet[o] = a <=> db[<<a, o>>] = "unspent"
  PROVE  WatcherInv'
<1>1. /\ watches' = {} /\ utxos' = utxoSet /\ unsaved' = {} /\ job' = Reading
      /\ subs' = [s \in Subscribers |-> NoSub]
  BY DEF Memory
<1>2. NoSub \in [on : BOOLEAN, queue : Seq(Hits)] /\ NoSub.queue = <<>>
  BY DEF NoSub
<1>3. WatchTypes'
  BY <1>1, <1>2, ReadingFacts DEF WatcherInv, WatchTypes
<1>4. JobInv'
  BY <1>1, ReadingFacts DEF JobInv
<1>5. PaysInv'
  BY <1>1 DEF WatcherInv, PaysInv
<1>6. StoredInv'
  BY <1>1 DEF StoredInv, Running
<1>7. \A s \in Subscribers : subs'[s].queue = <<>>
  BY <1>1, <1>2
<1>8. HitsInHistory'
  BY <1>7 DEF HitsInHistory
<1> QED BY <1>3, <1>4, <1>5, <1>6, <1>8 DEF WatcherInv

\* readLoop moves on to another output, input or message.
LEMMA Moved ==
  ASSUME WatchTypes, JobInv, job.pc \in {"count", "check", "scan", "persist", "spent"},
         NEW i \in Nat, i >= 1, job' = At(i), main' = main, Running
  PROVE  /\ job' \in Jobs /\ job'.pc \in {"scan", "read"} /\ JobInv'
         /\ \A a, o : ~Ahead(a, o)'
<1>1. job \in Jobs /\ job.tx \in Txs
  BY DEF WatchTypes, JobInv
<1>2. /\ job' \in Jobs /\ job'.pc \in {"scan", "read"}
      /\ job'.pc = "scan" => job'.tx \in Txs /\ job'.i = i /\ i <= Length(job'.tx)
  BY <1>1, AtFacts, ReadingFacts
<1>3. job'.pc = "scan" => job'.i \in 1..Length(job'.tx)
  <2>1. ASSUME job'.pc = "scan" PROVE i \in 1..Length(job'.tx)
    BY <1>2, <2>1, LengthFacts
  <2> QED BY <1>2, <2>1
<1>4. JobInv'
  BY <1>2, <1>3 DEF JobInv, Running
<1> QED BY <1>2, <1>4 DEF Ahead

\* A step that leaves memory, records and queues as they are keeps the rest.
LEMMA QuietMove ==
  ASSUME WatcherInv, UNCHANGED <<main, utxos, db, unsaved, subs>>, watches' \subseteq Addresses,
         job' \in Jobs, JobInv', \A a, o : ~Ahead(a, o), \A a, o : ~Ahead(a, o)'
  PROVE  WatcherInv'
<1>1. WatchTypes'
  BY DEF WatcherInv, WatchTypes
<1>2. PaysInv' /\ HitsInHistory'
  BY DEF WatcherInv, PaysInv, HitsInHistory, History
<1>3. StoredInv'
  BY DEF WatcherInv, StoredInv, Running
<1> QED BY <1>1, <1>2, <1>3 DEF WatcherInv

\* An output that pays a watched address is tracked before its record is put.
LEMMA CheckOutputKeeps ==
  ASSUME WatcherInv, CheckOutput
  PROVE  WatcherInv'
<1> USE DEF WatcherInv
<1> DEFINE addr == Outs[job.tx][job.i]
<1> DEFINE o == <<job.tx, job.i>>
<1>1. /\ Running /\ job.pc = "scan" /\ job.i <= Len(Outs[job.tx])
      /\ UNCHANGED <<main, watches, db, unsaved, subs>>
      /\ \/ /\ addr \in watches /\ utxos' = [utxos EXCEPT ![o] = addr]
            /\ job' = [job EXCEPT !.pc = "persist", !.addr = addr]
         \/ Advance /\ utxos' = utxos
  BY DEF CheckOutput, AtOutput
<1>2. /\ job \in Jobs /\ job.tx \in Txs /\ job.i \in 1..Length(job.tx) /\ job.i \in Nat
      /\ \A a, p : ~Ahead(a, p)
  BY <1>1 DEF WatchTypes, JobInv, Jobs, Ahead
<1>3. CASE Advance /\ utxos' = utxos
  <2>1. job.i + 1 \in Nat /\ job.i + 1 >= 1
    BY <1>2
  <2>2. job' \in Jobs /\ JobInv' /\ \A a, p : ~Ahead(a, p)'
    BY <1>1, <1>3, <2>1, Moved DEF Advance
  <2> QED BY <1>1, <1>2, <1>3, <2>2, QuietMove DEF WatchTypes
<1>4. CASE /\ addr \in watches /\ utxos' = [utxos EXCEPT ![o] = addr]
           /\ job' = [job EXCEPT !.pc = "persist", !.addr = addr]
  <2>1. o \in Outpoints /\ addr = Pays(o) /\ addr \in Addresses
    <3>1. job.i \in 1..Len(Outs[job.tx])
      BY <1>1, <1>2, LengthFacts
    <3> QED BY <1>2, <1>4, <3>1, OutpointFacts DEF Pays, WatchTypes
  <2> HIDE DEF addr, o
  <2>2. /\ job' \in Jobs /\ job'.pc = "persist" /\ job'.tx = job.tx /\ job'.i = job.i
        /\ job'.addr = addr
    BY <1>2, <1>4, <2>1 DEF Jobs
  <2>3. /\ utxos' \in [Outpoints -> Addresses \cup {NoAddr}] /\ utxos'[o] = addr
        /\ \A p \in Outpoints : p # o => utxos'[p] = utxos[p]
    BY <1>4, <2>1 DEF WatchTypes
  <2>4. WatchTypes'
    BY <1>1, <2>2, <2>3 DEF WatchTypes
  <2>5. JobInv'
    <3>1. /\ Running' /\ job'.i <= Len(Outs[job'.tx]) /\ job'.i \in 1..Length(job'.tx)
          /\ job'.addr = Outs[job'.tx][job'.i] /\ utxos'[<<job'.tx, job'.i>>] = job'.addr
      BY <1>1, <1>2, <2>2, <2>3 DEF addr, o, Running
    <3> QED BY <1>2, <2>1, <2>2, <3>1 DEF JobInv
  <2>6. PaysInv'
    BY <1>1, <2>1, <2>3 DEF PaysInv
  <2>7. HitsInHistory'
    BY <1>1 DEF HitsInHistory, History
  <2>8. StoredInv'
    <3> SUFFICES ASSUME HasDB, NEW a \in Addresses, NEW p \in Outpoints,
                        <<a, p>> \notin unsaved, ~Ahead(a, p)'
                 PROVE  utxos'[p] = a <=> db[<<a, p>>] = "unspent"
      BY <1>1 DEF StoredInv
    <3>1. utxos[p] = a <=> db[<<a, p>>] = "unspent"
      BY <1>1, <1>2 DEF StoredInv
    <3>2. CASE p # o
      BY <2>3, <3>1, <3>2
    <3>3. CASE p = o
      <4>1. a # addr
        BY <2>2, <3>3 DEF Ahead, o
      <4>2. db[<<a, o>>] = "none"
        BY <2>1, <4>1 DEF PaysInv
      <4> QED BY <2>3, <3>3, <4>1, <4>2
    <3> QED BY <3>2, <3>3
  <2> QED BY <2>4, <2>5, <2>6, <2>7, <2>8
<1> QED BY <1>1, <1>3, <1>4

\* An input that spends a tracked output takes it out of memory first.
LEMMA CheckInputKeeps ==
  ASSUME WatcherInv, CheckInput
  PROVE  WatcherInv'
<1> USE DEF WatcherInv
<1> DEFINE o == Input
<1>1. /\ Running /\ job.pc = "scan" /\ job.i > Len(Outs[job.tx])
      /\ UNCHANGED <<main, watches, db, unsaved, subs>>
      /\ \/ /\ Tracked(o) /\ utxos' = [utxos EXCEPT ![o] = NoAddr]
            /\ job' = [job EXCEPT !.pc = "spent", !.addr = utxos[o]]
         \/ Advance /\ utxos' = utxos
  BY DEF CheckInput, AtInput
<1>2. /\ job \in Jobs /\ job.tx \in Txs /\ job.i \in 1..Length(job.tx) /\ job.i \in Nat
      /\ \A a, p : ~Ahead(a, p)
  BY <1>1 DEF WatchTypes, JobInv, Jobs, Ahead
<1>3. CASE Advance /\ utxos' = utxos
  <2>1. job.i + 1 \in Nat /\ job.i + 1 >= 1
    BY <1>2
  <2>2. job' \in Jobs /\ JobInv' /\ \A a, p : ~Ahead(a, p)'
    BY <1>1, <1>3, <2>1, Moved DEF Advance
  <2> QED BY <1>1, <1>2, <1>3, <2>2, QuietMove DEF WatchTypes
<1>4. CASE /\ Tracked(o) /\ utxos' = [utxos EXCEPT ![o] = NoAddr]
           /\ job' = [job EXCEPT !.pc = "spent", !.addr = utxos[o]]
  <2> DEFINE addr == utxos[o]
  <2>1. o \in Outpoints /\ addr = Pays(o) /\ addr \in Addresses
    BY <1>4 DEF Tracked, PaysInv, WatchTypes
  <2>2. HasDB => db[<<addr, o>>] # "none" \/ <<addr, o>> \in unsaved
    BY <1>1, <1>2, <2>1 DEF StoredInv
  <2> HIDE DEF addr
  <2>3. /\ job' \in Jobs /\ job'.pc = "spent" /\ job'.tx = job.tx /\ job'.i = job.i
        /\ job'.addr = addr
    BY <1>2, <1>4, <2>1 DEF Jobs, addr
  <2>4. Input' = o
    BY <2>3 DEF Input
  <2> HIDE DEF o
  <2>5. /\ utxos' \in [Outpoints -> Addresses \cup {NoAddr}] /\ utxos'[o] = NoAddr
        /\ \A p \in Outpoints : p # o => utxos'[p] = utxos[p]
    BY <1>4, <2>1 DEF WatchTypes
  <2>6. WatchTypes'
    BY <1>1, <2>3, <2>5 DEF WatchTypes
  <2>7. JobInv'
    <3>1. Running' /\ job'.i > Len(Outs[job'.tx]) /\ job'.i \in 1..Length(job'.tx)
      BY <1>1, <1>2, <2>3 DEF Running
    <3> QED BY <1>1, <1>2, <2>1, <2>2, <2>3, <2>4, <2>5, <3>1 DEF JobInv
  <2>8. PaysInv'
    BY <1>1, <2>5 DEF PaysInv
  <2>9. HitsInHistory'
    BY <1>1 DEF HitsInHistory, History
  <2>10. StoredInv'
    <3> SUFFICES ASSUME HasDB, NEW a \in Addresses, NEW p \in Outpoints,
                        <<a, p>> \notin unsaved, ~Ahead(a, p)'
                 PROVE  utxos'[p] = a <=> db[<<a, p>>] = "unspent"
      BY <1>1 DEF StoredInv
    <3>1. utxos[p] = a <=> db[<<a, p>>] = "unspent"
      BY <1>1, <1>2 DEF StoredInv
    <3>2. CASE p # o
      BY <2>5, <3>1, <3>2
    <3>3. CASE p = o
      <4>1. a # addr
        BY <2>3, <2>4, <3>3 DEF Ahead
      <4> QED BY <2>5, <3>1, <3>3, <4>1, TxNames DEF addr
    <3> QED BY <3>2, <3>3
  <2> QED BY <2>6, <2>7, <2>8, <2>9, <2>10
<1> QED BY <1>1, <1>3, <1>4

\* After a write the hit goes to the subscribers and readLoop moves on.
LEMMA WrittenKeeps ==
  ASSUME WatcherInv, Running, NEW a \in Addresses, NEW o \in Outpoints, a = Pays(o),
         job.pc \in {"persist", "spent"}, job.addr = a,
         \A p : Ahead(a, p) => p = o,
         notify(a, o), Advance, UNCHANGED <<main, watches, utxos>>,
         db' \in [Keys -> {"none", "unspent"} \cup Txs], unsaved' \subseteq Keys,
         \A k \in Keys : k # <<a, o>> => db'[k] = db[k] /\ (k \in unsaved' <=> k \in unsaved),
         \A k \in Keys : Backed(k) => Backed(k)',
         HasDB => Backed(<<a, o>>)',
         HasDB /\ <<a, o>> \notin unsaved' => (utxos[o] = a <=> db'[<<a, o>>] = "unspent")
  PROVE  WatcherInv'
<1> USE DEF WatcherInv
<1>1. /\ job \in Jobs /\ job.i \in Nat
      /\ \A b, p : Ahead(b, p) => b = a /\ p = o
  BY DEF WatchTypes, Jobs, Ahead
<1>2. job.i + 1 \in Nat /\ job.i + 1 >= 1
  BY <1>1
<1>3. job' \in Jobs /\ JobInv' /\ \A b, p : ~Ahead(b, p)'
  BY <1>2, Moved DEF Advance
<1>4. /\ subs' \in [Subscribers -> [on : BOOLEAN, queue : Seq(Hits)]]
      /\ \A s \in Subscribers : \A i \in 1..Len(subs'[s].queue) :
           \/ subs'[s].queue[i] = <<a, o>>
           \/ i \in 1..Len(subs[s].queue) /\ subs'[s].queue[i] = subs[s].queue[i]
  BY NotifyFacts
<1>5. WatchTypes'
  BY <1>3, <1>4 DEF WatchTypes
<1>6. <<a, o>> \in Keys
  BY DEF Keys
<1>7. PaysInv'
  <2>1. ASSUME NEW b \in Addresses, NEW p \in Outpoints, db'[<<b, p>>] # "none"
        PROVE  b = Pays(p)
    <3>1. <<b, p>> \in Keys
      BY DEF Keys
    <3>2. CASE <<b, p>> = <<a, o>>
      BY <3>2
    <3>3. CASE <<b, p>> # <<a, o>>
      BY <2>1, <3>1, <3>3 DEF PaysInv
    <3> QED BY <3>2, <3>3
  <2> QED BY <2>1 DEF PaysInv
<1>8. StoredInv'
  <2> SUFFICES ASSUME HasDB, NEW b \in Addresses, NEW p \in Outpoints, <<b, p>> \notin unsaved'
               PROVE  utxos[p] = b <=> db'[<<b, p>>] = "unspent"
    BY DEF StoredInv
  <2>1. <<b, p>> \in Keys
    BY DEF Keys
  <2>2. CASE <<b, p>> = <<a, o>>
    BY <2>2
  <2>3. CASE <<b, p>> # <<a, o>>
    <3>1. ~Ahead(b, p) /\ <<b, p>> \notin unsaved /\ db'[<<b, p>>] = db[<<b, p>>]
      BY <1>1, <2>1, <2>3
    <3> QED BY <3>1 DEF StoredInv
  <2> QED BY <2>2, <2>3
<1>9. HitsInHistory'
  <2>1. CASE ~HasDB
    BY <2>1 DEF HitsInHistory
  <2>2. CASE HasDB
    <3>1. \A s \in Subscribers : \A i \in 1..Len(subs'[s].queue) :
            \/ \E k \in Keys : k = subs'[s].queue[i] /\ Backed(k)'
            \/ \E j \in 1..Len(subs[s].queue) : subs'[s].queue[i] = subs[s].queue[j]
      BY <1>4, <1>6, <2>2
    <3> QED BY <1>5, <3>1, HitsKept
  <2> QED BY <2>1, <2>2
<1> QED BY <1>3, <1>5, <1>7, <1>8, <1>9

\* The record of a tracked output is put, or is known to be missing.
LEMMA PersistKeeps ==
  ASSUME WatcherInv, persist
  PROVE  WatcherInv'
<1> USE DEF WatcherInv
<1> DEFINE o == <<job.tx, job.i>>
<1> DEFINE key == <<job.addr, o>>
<1>1. /\ Running /\ job.pc = "persist" /\ Put(key, "unspent") /\ notify(job.addr, o)
      /\ Advance /\ UNCHANGED <<main, watches, utxos>>
  BY DEF persist
<1>2. /\ job.tx \in Txs /\ job.i \in 1..Length(job.tx) /\ job.i <= Len(Outs[job.tx])
      /\ job.addr \in Addresses /\ job.addr = Outs[job.tx][job.i] /\ utxos[o] = job.addr
  BY <1>1 DEF JobInv
<1>3. o \in Outpoints /\ job.addr = Pays(o)
  <2>1. job.i \in 1..Len(Outs[job.tx])
    BY <1>2, LengthFacts
  <2> QED BY <1>2, <2>1, OutpointFacts DEF Pays
<1>4. \A p : Ahead(job.addr, p) => p = o
  BY <1>1 DEF Ahead
<1> HIDE DEF o
<1>5. key \in Keys
  BY <1>2, <1>3 DEF Keys
<1>6. /\ db' \in [Keys -> {"none", "unspent"} \cup Txs] /\ unsaved' \subseteq Keys
      /\ \A k \in Keys : k # key => db'[k] = db[k] /\ (k \in unsaved' <=> k \in unsaved)
      /\ key \in unsaved' \/ db'[key] = "unspent"
      /\ \A k \in Keys : Backed(k) \/ k = key => Backed(k)'
  BY <1>1, <1>5, PutFacts
<1> QED BY <1>1, <1>2, <1>3, <1>4, <1>5, <1>6, WrittenKeeps

\* The record of a spent output is marked, if there is one.
LEMMA PersistSpendKeeps ==
  ASSUME WatcherInv, persistSpend
  PROVE  WatcherInv'
<1> USE DEF WatcherInv
<1> DEFINE o == Input
<1> DEFINE key == <<job.addr, o>>
<1>1. /\ Running /\ job.pc = "spent" /\ notify(job.addr, o)
      /\ Advance /\ UNCHANGED <<main, watches, utxos>>
      /\ \/ HasDB /\ db[key] # "none" /\ Put(key, job.tx)
         \/ ~(HasDB /\ db[key] # "none") /\ UNCHANGED <<db, unsaved>>
  BY DEF persistSpend
<1>2. /\ job.tx \in Txs /\ job.addr \in Addresses
      /\ o \in Outpoints /\ job.addr = Pays(o) /\ utxos[o] = NoAddr
      /\ HasDB => Backed(key)
  BY <1>1 DEF JobInv, Backed
<1>3. \A p : Ahead(job.addr, p) => p = o
  BY <1>1 DEF Ahead
<1> HIDE DEF o
<1>4. key \in Keys /\ utxos[o] # job.addr
  BY <1>2, TxNames DEF Keys
<1>5. CASE HasDB /\ db[key] # "none" /\ Put(key, job.tx)
  <2>1. /\ db' \in [Keys -> {"none", "unspent"} \cup Txs] /\ unsaved' \subseteq Keys
        /\ \A k \in Keys : k # key => db'[k] = db[k] /\ (k \in unsaved' <=> k \in unsaved)
        /\ key \in unsaved' \/ db'[key] = job.tx
        /\ \A k \in Keys : Backed(k) \/ k = key => Backed(k)'
    BY <1>2, <1>4, <1>5, PutFacts
  <2>2. job.tx # "unspent"
    BY <1>2, TxNames
  <2> QED BY <1>1, <1>2, <1>3, <1>4, <2>1, <2>2, WrittenKeeps
<1>6. CASE ~(HasDB /\ db[key] # "none") /\ UNCHANGED <<db, unsaved>>
  <2>1. \A k \in Keys : Backed(k) => Backed(k)'
    BY <1>6 DEF Backed
  <2>2. HasDB => \A k \in Keys : k = key => Backed(k)'
    BY <1>2, <1>4, <2>1
  <2>3. HasDB => db'[key] # "unspent"
    BY <1>6
  <2>4. db' \in [Keys -> {"none", "unspent"} \cup Txs] /\ unsaved' \subseteq Keys
        /\ \A k \in Keys : k # key => db'[k] = db[k] /\ (k \in unsaved' <=> k \in unsaved)
    BY <1>6 DEF WatchTypes
  <2> QED BY <1>1, <1>2, <1>3, <1>4, <2>1, <2>2, <2>3, <2>4, WrittenKeeps
<1> QED BY <1>1, <1>5, <1>6

\* A step that leaves the watcher alone, the watch list apart, keeps it all.
LEMMA WatcherFrame ==
  ASSUME WatcherInv, UNCHANGED <<utxos, db, unsaved, subs, job>>, watches' \subseteq Addresses,
         Running' <=> Running
  PROVE  WatcherInv'
<1>1. WatchTypes'
  BY DEF WatcherInv, WatchTypes
<1>2. JobInv'
  BY DEF WatcherInv, JobInv, Input
<1>3. PaysInv'
  BY DEF WatcherInv, PaysInv
<1>4. StoredInv'
  BY DEF WatcherInv, StoredInv, Ahead, Input
<1>5. HitsInHistory'
  BY DEF WatcherInv, HitsInHistory, History
<1> QED BY <1>1, <1>2, <1>3, <1>4, <1>5 DEF WatcherInv

\* A step of readLoop, of main or of a handler keeps memory, database and
\* queues in step.
LEMMA WatcherStep ==
  ASSUME WatcherInv, [Next]_vars
  PROVE  WatcherInv'
<1>0. CASE UNCHANGED <<main, watchVars, job>>
  BY <1>0, WatcherFrame DEF watchVars, Running, WatcherInv, WatchTypes
<1>1. CASE SetupAlone \/ Dial
  <2>1. /\ main' # "down" /\ db' = db
        /\ \E started : Memory(IF HasDB THEN loadUTXOs ELSE NothingTracked, started)
    BY <1>1 DEF SetupAlone, Dial, NewWatcher
  <2> DEFINE u == IF HasDB THEN loadUTXOs ELSE NothingTracked
  <2>2. /\ u \in [Outpoints -> Addresses \cup {NoAddr}]
        /\ \A o \in Outpoints : u[o] \in {NoAddr, Pays(o)}
        /\ HasDB => \A a \in Addresses, o \in Outpoints : u[o] = a <=> db[<<a, o>>] = "unspent"
    BY LoadFacts DEF WatcherInv, NothingTracked
  <2>3. PICK started : Memory(u, started)
    BY <2>1
  <2> HIDE DEF u
  <2> QED BY <2>1, <2>2, <2>3, MemoryWatch
<1>2. CASE Close \/ Crash
  <2>1. main' = "down" /\ db' = db /\ Memory(NothingTracked, FALSE)
    BY <1>2 DEF Close, Crash
  <2>2. /\ NothingTracked \in [Outpoints -> Addresses \cup {NoAddr}]
        /\ \A o \in Outpoints : NothingTracked[o] \in {NoAddr, Pays(o)}
    BY DEF NothingTracked
  <2> HIDE DEF NothingTracked
  <2> QED BY <2>1, <2>2, MemoryWatch
<1>3. CASE StoreConnected \/ Stop
  <2>1. Running /\ Running' /\ UNCHANGED <<watchVars, job>>
    BY <1>3 DEF StoreConnected, Stop, Running
  <2> QED BY <2>1, WatcherFrame DEF watchVars, WatcherInv, WatchTypes
<1>4. ASSUME NEW t \in Txs, handleTx(t)
      PROVE  WatcherInv'
  <2>1. Running /\ job.pc = "read" /\ UNCHANGED <<main, watchVars>>
    BY <1>4 DEF handleTx, AtMessage
  <2>2. CASE job' = job
    BY <1>0, <2>1, <2>2
  <2>3. ASSUME NEW p \in {"count", "check"}, job' = [Reading EXCEPT !.pc = p, !.tx = t]
        PROVE  WatcherInv'
    <3>1. job' \in Jobs /\ job'.pc = p /\ job'.tx = t
      BY <2>3, AddJob
    <3>2. JobInv' /\ (\A a, o : ~Ahead(a, o)) /\ (\A a, o : ~Ahead(a, o)')
      BY <2>1, <3>1 DEF JobInv, Ahead, Running
    <3> QED BY <2>1, <3>1, <3>2, QuietMove DEF watchVars, WatcherInv, WatchTypes
  <2> QED BY <1>4, <2>2, <2>3 DEF handleTx, Add
<1>5. CASE CheckTx
  <2>1. /\ Running /\ job.pc \in {"count", "check"} /\ UNCHANGED <<main, watchVars>>
        /\ job' = Reading \/ job' = At(1)
    BY <1>5 DEF CheckTx
  <2>2. job' \in Jobs /\ JobInv' /\ \A a, o : ~Ahead(a, o)'
    <3>1. CASE job' = Reading
      BY <3>1, ReadingFacts DEF JobInv, Ahead
    <3>2. CASE job' = At(1)
      BY <2>1, <3>2, Moved DEF WatcherInv
    <3> QED BY <2>1, <3>1, <3>2
  <2>3. \A a, o : ~Ahead(a, o)
    BY <2>1 DEF Ahead
  <2> QED BY <2>1, <2>2, <2>3, QuietMove DEF watchVars, WatcherInv, WatchTypes
<1>6. ASSUME NEW a \in Addresses, AddWatch(a) \/ RemoveWatch(a)
      PROVE  WatcherInv'
  <2>1. watches' \subseteq Addresses /\ UNCHANGED <<main, utxos, db, unsaved, subs, job>>
    BY <1>6 DEF AddWatch, RemoveWatch, WatcherInv, WatchTypes
  <2> QED BY <2>1, WatcherFrame DEF Running
<1>7. ASSUME NEW s \in Subscribers, Subscribe(s) \/ Receive(s) \/ Unsubscribe(s)
      PROVE  WatcherInv'
  <2>1. UNCHANGED <<main, watches, utxos, db, unsaved, job>>
    BY <1>7 DEF Subscribe, Receive, Unsubscribe
  <2>2. subs \in [Subscribers -> [on : BOOLEAN, queue : Seq(Hits)]]
    BY DEF WatcherInv, WatchTypes
  <2>3. PICK q \in [on : BOOLEAN, queue : Seq(Hits)] :
          /\ subs' = [subs EXCEPT ![s] = q]
          /\ \A i \in 1..Len(q.queue) : \E j \in 1..Len(subs[s].queue) :
               q.queue[i] = subs[s].queue[j]
    <3>1. CASE Subscribe(s)
      <4> DEFINE q == [on |-> TRUE, queue |-> <<>>]
      <4>1. q \in [on : BOOLEAN, queue : Seq(Hits)] /\ 1..Len(q.queue) = {}
        OBVIOUS
      <4>2. subs' = [subs EXCEPT ![s] = q]
        BY <3>1 DEF Subscribe
      <4> HIDE DEF q
      <4> QED BY <4>1, <4>2
    <3>2. CASE Unsubscribe(s)
      <4>1. NoSub \in [on : BOOLEAN, queue : Seq(Hits)] /\ 1..Len(NoSub.queue) = {}
        BY DEF NoSub
      <4>2. subs' = [subs EXCEPT ![s] = NoSub]
        BY <3>2 DEF Unsubscribe
      <4> QED BY <4>1, <4>2
    <3>3. CASE Receive(s)
      <4> DEFINE tail == Tail(subs[s].queue)
      <4>1. subs[s].queue \in Seq(Hits) /\ subs[s].queue # <<>>
        BY <2>2, <3>3 DEF Receive
      <4>2. /\ tail \in Seq(Hits)
            /\ \A i \in 1..Len(tail) : i + 1 \in 1..Len(subs[s].queue)
                                       /\ tail[i] = subs[s].queue[i + 1]
        BY <4>1
      <4>3. subs' = [subs EXCEPT ![s] = [subs[s] EXCEPT !.queue = tail]]
        BY <2>2, <3>3 DEF Receive
      <4> HIDE DEF tail
      <4> DEFINE q == [subs[s] EXCEPT !.queue = tail]
      <4>4. q \in [on : BOOLEAN, queue : Seq(Hits)] /\ q.queue = tail
        BY <2>2, <4>2
      <4> HIDE DEF q
      <4> QED BY <4>2, <4>3, <4>4 DEF q
    <3> QED BY <1>7, <3>1, <3>2, <3>3
  <2>4. /\ subs' \in [Subscribers -> [on : BOOLEAN, queue : Seq(Hits)]] /\ subs'[s] = q
        /\ \A r \in Subscribers : r # s => subs'[r] = subs[r]
    BY <2>2, <2>3
  <2>5. WatchTypes'
    BY <2>1, <2>4 DEF WatcherInv, WatchTypes
  <2>6. JobInv' /\ PaysInv' /\ StoredInv'
    BY <2>1 DEF WatcherInv, JobInv, Input, PaysInv, StoredInv, Ahead, Running
  <2>7. \A k \in Keys : Backed(k) => Backed(k)'
    BY <2>1 DEF Backed
  <2>8. \A r \in Subscribers : \A i \in 1..Len(subs'[r].queue) :
          \E j \in 1..Len(subs[r].queue) : subs'[r].queue[i] = subs[r].queue[j]
    <3> SUFFICES ASSUME NEW r \in Subscribers, NEW i \in 1..Len(subs'[r].queue)
                 PROVE  \E j \in 1..Len(subs[r].queue) :
                          subs'[r].queue[i] = subs[r].queue[j]
      OBVIOUS
    <3>1. CASE r = s
      <4>1. \A k \in 1..Len(subs'[s].queue) :
              \E j \in 1..Len(subs[s].queue) : subs'[s].queue[k] = subs[s].queue[j]
        BY <2>3, <2>4
      <4> QED BY <3>1, <4>1
    <3>2. CASE r # s
      BY <2>4, <3>2
    <3> QED BY <3>1, <3>2
  <2>9. HitsInHistory'
    BY <2>5, <2>7, <2>8, HitsKept DEF WatcherInv
  <2> QED BY <2>5, <2>6, <2>9 DEF WatcherInv
<1>8. CASE UNCHANGED vars
  BY <1>0, <1>8 DEF vars
<1>9. CASE Next
  <2>1. CASE Tick \/ ReadLoopEnds \/ takeBatch \/ sendGetData
    BY <1>0, <2>1 DEF Tick, ReadLoopEnds, takeBatch, sendGetData
  <2>2. CASE \E t \in Txs : handleInv(t) \/ handleNotFound(t)
    BY <1>0, <2>2 DEF handleInv, handleNotFound
  <2>3. CASE Expire \/ ExpireShard \/ ExpireEnds
    BY <1>0, <2>3 DEF Expire, ExpireShard, ExpireEnds
  <2> QED BY <1>1, <1>2, <1>3, <1>4, <1>5, <1>6, <1>7, <1>9, <2>1, <2>2, <2>3, CheckOutputKeeps,
             CheckInputKeeps, PersistKeeps, PersistSpendKeeps DEF Next, ReadStep
<1> QED BY <1>8, <1>9

------------------------------------------------------------------------------
(* The invariant and what follows from it.                                   *)

\* A process that was never started satisfies the invariant.
LEMMA InitWatch == Init => WatchInv
<1> SUFFICES ASSUME Init PROVE WatchInv
  OBVIOUS
<1>1. /\ main = "down" /\ clock = 0 /\ connected = FALSE /\ reading = FALSE
      /\ pending = {} /\ batch = <<>> /\ flushing = <<>> /\ asked = {} /\ lost = {}
      /\ index = [t \in Txs |-> NotSeen] /\ count = 0 /\ evictor = NoEvictor
      /\ watches = {} /\ utxos = NothingTracked /\ unsaved = {}
      /\ db = [k \in Keys |-> "none"] /\ subs = [s \in Subscribers |-> NoSub] /\ job = Reading
  BY DEF Init
<1>2. connected \in BOOLEAN /\ reading \in BOOLEAN
  BY <1>1, Zenon
<1>3. MonitorTypes /\ PendingAccounted
  BY <1>1, <1>2 DEF MonitorTypes, PendingAccounted
<1>4. IndexTypes
  BY <1>1 DEF IndexTypes, NoEvictor
<1>5. CountInv
  <2>1. Indexed = {} /\ evictor.n = 0 /\ job.pc = "read"
    BY <1>1 DEF Indexed, NoEvictor, Reading
  <2> QED BY <1>1, <2>1, FS_EmptySet DEF CountInv
<1>6. NoSub \in [on : BOOLEAN, queue : Seq(Hits)] /\ 1..Len(NoSub.queue) = {}
  BY DEF NoSub
<1>7. WatchTypes
  BY <1>1, <1>6, ReadingFacts DEF WatchTypes, NothingTracked
<1>8. JobInv /\ StoredInv
  BY <1>1, ReadingFacts DEF JobInv, StoredInv, Running
<1>9. PaysInv
  <2>1. \A a \in Addresses, o \in Outpoints : <<a, o>> \in Keys
    BY DEF Keys
  <2> QED BY <1>1, <2>1 DEF PaysInv, NothingTracked
<1>10. HitsInHistory
  <2>1. \A s \in Subscribers : 1..Len(subs[s].queue) = {}
    BY <1>1, <1>6
  <2> QED BY <2>1 DEF HitsInHistory
<1> QED BY <1>3, <1>4, <1>5, <1>7, <1>8, <1>9, <1>10, TypeParts DEF WatchInv

\* Every step keeps it: the monitor, the index and the watcher share only where
\* readLoop is.
LEMMA StepWatch == WatchInv /\ [Next]_vars => WatchInv'
<1> SUFFICES ASSUME WatchInv, [Next]_vars PROVE WatchInv'
  OBVIOUS
<1>1. MonitorTypes /\ IndexTypes /\ WatchTypes
  BY TypeParts DEF WatchInv
<1>2. MonitorTypes' /\ PendingAccounted'
  BY <1>1, MonitorStep DEF WatchInv
<1>3. IndexTypes' /\ CountInv'
  BY <1>1, IndexStep DEF WatchInv, JobInv
<1>4. WatcherInv'
  BY <1>1, WatcherStep DEF WatchInv, WatcherInv
<1>5. TypeOK'
  BY <1>2, <1>3, <1>4
     DEF WatcherInv, TypeOK, MonitorTypes, IndexTypes, WatchTypes, Jobs
<1> QED BY <1>2, <1>3, <1>4, <1>5 DEF WatchInv, WatcherInv

\* The invariant holds in every state.
LEMMA WatchInvariance == Spec => []WatchInv
BY InitWatch, StepWatch, PTL DEF Spec

\* The variables of the monitor, the index and the watcher keep their types for
\* any transactions, addresses and subscribers.
THEOREM WatchTypeCorrect == Spec => []TypeOK
<1>1. WatchInv => TypeOK
  BY DEF WatchInv
<1> QED BY WatchInvariance, <1>1, PTL

\* Between two messages loadUTXOs would track what CheckTx tracks: a crash there
\* loses nothing but what LevelDB refused to write.
THEOREM RestartsGoOn == Spec => []RestartGoesOn
<1>1. WatchInv => RestartGoesOn
  BY DEF WatchInv, StoredInv, RestartGoesOn, Ahead
<1> QED BY WatchInvariance, <1>1, PTL

\* CheckTx persists before it notifies: the history has every hit a subscriber
\* holds, except one whose write failed.
THEOREM HitsStayInHistory == Spec => []HitsInHistory
<1>1. WatchInv => HitsInHistory
  BY DEF WatchInv
<1> QED BY WatchInvariance, <1>1, PTL

\* Index.Add and ExpireBefore update idx.count outside the shard locks, and it is
\* right all the same when neither is in between, for any number of shards.
THEOREM IndexStaysCounted == Spec => []IndexCounted
<1>1. WatchInv => IndexCounted
  <2> SUFFICES ASSUME WatchInv, job.pc # "count", ~evictor.on
               PROVE  count = Cardinality({t \in Txs : index[t] # NotSeen})
    BY DEF IndexCounted
  <2>1. IsFiniteSet(Indexed) /\ count = Cardinality(Indexed) - 0 + 0
    BY DEF WatchInv, CountInv
  <2>2. Cardinality(Indexed) \in Nat
    BY <2>1, FS_CardinalityType
  <2>3. count = Cardinality(Indexed)
    BY <2>1, <2>2
  <2> QED BY <2>3 DEF Indexed
<1> QED BY WatchInvariance, <1>1, PTL

\* handleInv, batchLoop and handleTx forget no hash that is marked as pending.
THEOREM PendingStaysAccounted == Spec => []PendingAccounted
<1>1. WatchInv => PendingAccounted
  BY DEF WatchInv
<1> QED BY WatchInvariance, <1>1, PTL

==============================================================================
