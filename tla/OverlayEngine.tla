---------------------------- MODULE OverlayEngine ----------------------------
(***************************************************************************)
(* The overlay engine (internal/overlay/engine.go, handlers.go) with the one *)
(* topic manager and lookup service there are, UHRP (internal/overlay/topics).*)
(*                                                                          *)
(* Submit holds the engine's lock for reading only, so submissions of        *)
(* several HTTP requests interleave at every LevelDB operation; Reconcile    *)
(* holds it for writing; lookups read one LevelDB snapshot.  A crash may     *)
(* come between any two operations, and any Put or Delete may fail.          *)
(*                                                                          *)
(* A record of the engine is named by its key, topic and outpoint: all else  *)
(* in it follows from the transaction.  Indices start at 1.                  *)
(***************************************************************************)
EXTENDS Integers, Sequences, FiniteSets

CONSTANTS
  Submitters,        \* requests to POST /overlay/submit served at one time
  Txs, Outs, Ins,    \* per tx the content each output advertises, NoContent if
                     \* parseUHRPOutput finds none, and the outpoints spent
  NoContent,
  Topics, TopicLists \* topics, and the lists of topics submissions carry

\* A txid is a hash over the inputs: no transaction spends its own output.
ASSUME OverlayAssumption ==
  /\ DOMAIN Outs = Txs /\ DOMAIN Ins = Txs
  /\ \A t \in Txs : Outs[t] \in Seq(STRING) /\ Ins[t] \in Seq(STRING \X Nat)
  /\ TopicLists \subseteq Seq(STRING)
  /\ NoContent \in STRING
  /\ \A t \in Txs : \A i \in 1..Len(Ins[t]) : Ins[t][i][1] # t

VARIABLES
  topics,   \* e.topics: the registered topics
  db,       \* the keys in LevelDB
  job,      \* where each submission is
  rec,      \* where Reconcile is
  mined,    \* transactions in the chain, the checker's source of truth
  told,     \* what the STEAKs answered so far say of each key
  failed    \* keys whose last Put or Delete failed
engineVars == <<topics, db, job, rec, mined, told, failed>>

Outputs(tx) == {<<tx, v>> : v \in 1..Len(Outs[tx])}
parseUHRPOutput(out) == Outs[out[1]][out[2]]
Inputs(tx) == {Ins[tx][i] : i \in 1..Len(Ins[tx])}
Outpoints == UNION {Outputs(t) : t \in Txs}
outputKey(topic, out) == <<topic, out>>
Keys == Topics \X Outpoints

Idle == [pc |-> "idle", tx |-> "", topics |-> <<>>, k |-> 1, i |-> 1,
         prev |-> <<>>, sure |-> {}]
NoReconcile == [pc |-> "off", todo |-> {}, dead |-> {}, unsure |-> {}, spent |-> {}]

EngineInit == /\ topics = {} /\ db = {} /\ mined = {} /\ failed = {}
              /\ job = [j \in Submitters |-> Idle] /\ rec = NoReconcile
              /\ told = [key \in Keys |-> "nothing"]

InSubmit(j) == job[j].pc # "idle"

------------------------------------------------------------------------------
(* Submit                                                                   *)

\* Mutant: Reconcile does not keep submissions out.
RLockAlways == TRUE

\* e.mu.RLock: no writer holds the lock.
RLock == rec.pc = "off"

RegisterTopic(topic) ==
  /\ RLock /\ \A j \in Submitters : ~InSubmit(j)
  /\ topic \notin topics
  /\ topics' = topics \cup {topic}
  /\ UNCHANGED <<db, job, rec, mined, told, failed>>

\* The keys a submission may write, whatever it is told later.
Touched(tx, ts) ==
  {outputKey(ts[k], o) : k \in 1..Len(ts), o \in Outputs(tx) \cup Inputs(tx)} \cap Keys

\* The keys another submission may be writing: what is told of them is not to
\* be relied upon.
Busy(touched) ==
  touched \cap UNION {Touched(job[j].tx, job[j].topics) : j \in {j \in Submitters : InSubmit(j)}}

\* What does not parse, or names no topic, is refused before anything is read.
Submit(j, tx, ts) ==
  /\ job[j].pc = "idle" /\ RLock
  /\ LET touched == Touched(tx, ts)
     IN  /\ job' = [h \in Submitters |->
              IF h = j THEN [Idle EXCEPT !.pc = "topic", !.tx = tx, !.topics = ts,
                                         !.sure = touched \ Busy(touched)]
              ELSE [job[h] EXCEPT !.sure = @ \ touched]]
         /\ told' = [key \in Keys |-> IF key \in touched THEN "nothing" ELSE told[key]]
  /\ UNCHANGED <<topics, db, rec, mined, failed>>

Topic(j) == job[j].topics[job[j].k]

NextTopic(j) == job' = [job EXCEPT ![j].pc = "topic", ![j].k = @ + 1]

\* An unknown topic is passed over.
SelectTopic(j) ==
  /\ job[j].pc = "topic" /\ job[j].k <= Len(job[j].topics)
  /\ IF Topic(j) \in topics
     THEN job' = [job EXCEPT ![j].pc = "find", ![j].i = 1, ![j].prev = <<>>]
     ELSE NextTopic(j)
  /\ UNCHANGED <<topics, db, rec, mined, told, failed>>

\* One Get of findSpentUTXOs; prev is in the order of the inputs.
FindSpent(j) ==
  /\ job[j].pc = "find" /\ job[j].i <= Len(Ins[job[j].tx])
  /\ LET found == outputKey(Topic(j), Ins[job[j].tx][job[j].i]) \in db
     IN  job' = [job EXCEPT ![j].i = @ + 1,
                            ![j].prev = IF found THEN Append(@, job[j].i) ELSE @]
  /\ UNCHANGED <<topics, db, rec, mined, told, failed>>

\* UHRPTopicManager.Admit: the outputs that advertise something are admitted,
\* all coins removed, none retained.
Admitted(tx) == {v \in 1..Len(Outs[tx]) : parseUHRPOutput(<<tx, v>>) # NoContent}

\* Mutant: the spent coins go first.
AdmitRemovesFirst(j) ==
  /\ job[j].pc = "find" /\ job[j].i > Len(Ins[job[j].tx])
  /\ IF Admitted(job[j].tx) = {} /\ job[j].prev = <<>> THEN NextTopic(j)
     ELSE job' = [job EXCEPT ![j].pc = "store", ![j].i = 1]
  /\ db' = db \ {outputKey(Topic(j), Ins[job[j].tx][job[j].prev[n]]) :
                   n \in 1..Len(job[j].prev)}
  /\ UNCHANGED <<topics, rec, mined, told, failed>>

Admit(j) ==
  /\ job[j].pc = "find" /\ job[j].i > Len(Ins[job[j].tx])
  /\ IF Admitted(job[j].tx) = {} /\ job[j].prev = <<>> THEN NextTopic(j)
     ELSE job' = [job EXCEPT ![j].pc = "store", ![j].i = 1]
  /\ UNCHANGED <<topics, db, rec, mined, told, failed>>

Write(key, present) ==
  \/ /\ db' = IF present THEN db \cup {key} ELSE db \ {key}
     /\ failed' = failed \ {key}
  \/ failed' = failed \cup {key} /\ UNCHANGED db

\* The outputs to admit that the loop, which goes upwards, has still to store.
ToStore(j) == {v \in Admitted(job[j].tx) : v >= job[j].i}

\* storeOutput for one output to admit; an error is only logged.
StoreOutput(j) ==
  /\ job[j].pc = "store"
  /\ \E v \in ToStore(j) :
       /\ \A u \in ToStore(j) : v <= u
       /\ Write(outputKey(Topic(j), <<job[j].tx, v>>), TRUE)
       /\ job' = [job EXCEPT ![j].i = v + 1]
  /\ UNCHANGED <<topics, rec, mined, told>>

StoresDone(j) ==
  /\ job[j].pc = "store" /\ ToStore(j) = {}
  /\ job' = [job EXCEPT ![j].pc = "remove", ![j].i = 1]
  /\ UNCHANGED <<topics, db, rec, mined, told, failed>>

\* Mutant: the place in previousUTXOs is taken for the input.
RemoveOutputUnmapped(j) ==
  /\ job[j].pc = "remove" /\ job[j].i <= Len(job[j].prev)
  /\ Write(outputKey(Topic(j), Ins[job[j].tx][job[j].i]), FALSE)
  /\ job' = [job EXCEPT ![j].i = @ + 1]
  /\ UNCHANGED <<topics, rec, mined, told>>

\* removeOutput for one coin; an error is not even logged.
RemoveOutput(j) ==
  /\ job[j].pc = "remove" /\ job[j].i <= Len(job[j].prev)
  /\ Write(outputKey(Topic(j), Ins[job[j].tx][job[j].prev[job[j].i]]), FALSE)
  /\ job' = [job EXCEPT ![j].i = @ + 1]
  /\ UNCHANGED <<topics, rec, mined, told>>

\* remapToInputIdx: from a place in previousUTXOs to an input with that coin.
remapToInputIdx(j, n) ==
  {i \in {job[j].prev[m] : m \in 1..Len(job[j].prev)} :
     Ins[job[j].tx][i] = Ins[job[j].tx][job[j].prev[n]]}

\* steak[topic]: which outputs were admitted and which inputs' coins removed.
\* It replaces an earlier answer of this submission for the same topic.
RemovalsDone(j) ==
  /\ job[j].pc = "remove" /\ job[j].i > Len(job[j].prev)
  /\ LET tx == job[j].tx
         in == {outputKey(Topic(j), <<tx, v>>) : v \in Admitted(tx)}
         out == UNION {{outputKey(Topic(j), Ins[tx][i]) : i \in remapToInputIdx(j, n)} :
                         n \in 1..Len(job[j].prev)}
     IN  told' = [key \in Keys |-> CASE key \in in \cap job[j].sure -> "admitted"
                                     [] key \in out \cap job[j].sure -> "removed"
                                     [] key \in job[j].sure /\ key[1] = Topic(j) -> "nothing"
                                     [] OTHER -> told[key]]
  /\ NextTopic(j)
  /\ UNCHANGED <<topics, db, rec, mined, failed>>

Answer(j) ==
  /\ job[j].pc = "topic" /\ job[j].k > Len(job[j].topics)
  /\ job' = [job EXCEPT ![j] = Idle]
  /\ UNCHANGED <<topics, db, rec, mined, told, failed>>

------------------------------------------------------------------------------
(* Lookups and Reconcile                                                    *)

GetOutputsByTopic(topic) == {key \in db : key[1] = topic}
ContentOf(key) == parseUHRPOutput(key[2])

\* UHRPLookupService.Lookup with content_hash; list and hashes read the same.
Lookup(topic, content) == {key \in GetOutputsByTopic(topic) : ContentOf(key) = content}

Mine(tx) == /\ tx \notin mined
            /\ \A o \in Inputs(tx) : /\ o[1] \in Txs => o[1] \in mined
                                     /\ \A t \in mined : o \notin Inputs(t)
            /\ mined' = mined \cup {tx}
            /\ UNCHANGED <<topics, db, job, rec, told, failed>>

SpentOnChain(o) == \E t \in mined : o \in Inputs(t)

\* Reconcile: the iterator reads the records as they are now.
Reconcile ==
  /\ rec.pc = "off" /\ \A j \in Submitters : ~InSubmit(j)
  /\ rec' = [NoReconcile EXCEPT !.pc = "check", !.todo = db,
                                !.spent = {o \in Outpoints : SpentOnChain(o)}]
  /\ UNCHANGED <<topics, db, job, mined, told, failed>>

\* The checker says spent, unspent, or cannot tell.
CheckOutput ==
  /\ rec.pc = "check" /\ rec.todo # {}
  /\ \E key \in rec.todo :
       \/ rec' = [rec EXCEPT !.todo = @ \ {key},
                             !.dead = IF SpentOnChain(key[2]) THEN @ \cup {key} ELSE @]
       \/ rec' = [rec EXCEPT !.todo = @ \ {key}, !.unsure = @ \cup {key}]
  /\ UNCHANGED <<topics, db, job, mined, told, failed>>

DeleteSpent ==
  /\ rec.pc = "check" /\ rec.todo = {} /\ rec.dead # {}
  /\ \E key \in rec.dead :
       /\ Write(key, FALSE)
       /\ rec' = [rec EXCEPT !.dead = @ \ {key}]
       /\ told' = [told EXCEPT ![key] = "nothing"]
  /\ UNCHANGED <<topics, job, mined>>

Reconciled == rec.pc = "check" /\ rec.todo = {} /\ rec.dead = {}

ReconcileEnds == /\ Reconciled
                 /\ rec' = NoReconcile
                 /\ UNCHANGED <<topics, db, job, mined, told, failed>>

Crash == /\ job' = [j \in Submitters |-> Idle]
         /\ rec' = NoReconcile /\ topics' = {}
         /\ UNCHANGED <<db, mined, told, failed>>

------------------------------------------------------------------------------
Step(j) == \/ SelectTopic(j) \/ FindSpent(j) \/ Admit(j) \/ StoreOutput(j)
           \/ StoresDone(j) \/ RemoveOutput(j) \/ RemovalsDone(j) \/ Answer(j)

EngineNext == \/ \E j \in Submitters : \/ Step(j)
                                       \/ \E tx \in Txs, ts \in TopicLists : Submit(j, tx, ts)
              \/ \E t \in Topics : RegisterTopic(t)
              \/ \E tx \in Txs : Mine(tx)
              \/ Reconcile \/ CheckOutput \/ DeleteSpent \/ ReconcileEnds
              \/ Crash

EngineSpec == EngineInit /\ [][EngineNext]_engineVars

------------------------------------------------------------------------------
\* Types of the variables.
EngineTypes ==
  /\ topics \subseteq Topics /\ db \subseteq Keys /\ failed \subseteq Keys
  /\ mined \subseteq Txs
  /\ told \in [Keys -> {"nothing", "admitted", "removed"}]
  /\ \A j \in Submitters :
       /\ job[j].pc \in {"idle", "topic", "find", "store", "remove"}
       /\ InSubmit(j) => job[j].tx \in Txs /\ job[j].topics \in TopicLists
       /\ job[j].sure \subseteq Keys
  /\ rec.pc \in {"off", "check"} /\ rec.todo \cup rec.dead \cup rec.unsure \subseteq Keys

\* The engine tracks what its STEAKs said: an output reported as admitted is in
\* the topic's set and a coin reported as removed is not, until a submission
\* that overlapped, or comes later, or Reconcile, changes it.  A write that
\* LevelDB refused is reported as done all the same.
SteakTrue == \A key \in Keys \ failed : /\ told[key] = "admitted" => key \in db
                                        /\ told[key] = "removed" => key \notin db

\* The outputs of the submission that advertise anew what the coin advertised.
Successors(j, key) ==
  {new \in job[j].sure : \E v \in 1..Len(Outs[job[j].tx]) :
     new = outputKey(Topic(j), <<job[j].tx, v>>) /\ ContentOf(new) = ContentOf(key)}

\* The coins that the submission spends and replaces.
Replaces(j) ==
  {key \in job[j].sure : /\ Successors(j, key) # {}
                         /\ \E n \in 1..Len(job[j].prev) :
                              key = outputKey(Topic(j), Ins[job[j].tx][job[j].prev[n]])}

\* Versioning, "spend old token, create new one": while a transaction replaces
\* an advertisement by a new one for the same content, a lookup finds one of
\* them at every moment, so also when a crash stops it in the middle - unless
\* LevelDB refused to store the new one.  That is only logged, and the old one
\* is deleted all the same: the content is then found no more.
UpdateLeavesNoGap ==
  \A j \in Submitters : job[j].pc \in {"store", "remove"} =>
    \A key \in Replaces(j) :
      \/ Lookup(Topic(j), ContentOf(key)) # {}
      \/ job[j].pc = "remove" /\ Successors(j, key) \subseteq failed

\* "Even if the engine misses a spend event, the next reconciliation catches
\* it": when Reconcile is done, no record is left whose output was spent in the
\* chain when it began, except those the checker could not tell about.
ReconcileHeals ==
  Reconciled => \A key \in db \ failed : key[2] \in rec.spent => key \in rec.unsure
==============================================================================
