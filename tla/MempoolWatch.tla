---------------------------- MODULE MempoolWatch ----------------------------
(***************************************************************************)
(* The mempool feed (internal/p2p/mempool_monitor.go), the index and the     *)
(* address watcher it feeds (internal/mempool) and the main goroutine that   *)
(* sets them up and closes them (cmd/anvil/setup_mempool.go).                *)
(*                                                                          *)
(* Five kinds of goroutine run: readLoop, which handles one message after    *)
(* the other down to the last database write; batchLoop; the evictor of the  *)
(* index; main; and HTTP handlers that change the watch list or stream hits. *)
(* Each step below is what one of them does between two points where it      *)
(* takes a lock, writes to a socket or to LevelDB.  A crash may come between *)
(* any two steps; what LevelDB holds is all that is left then.               *)
(*                                                                          *)
(* An address stands for its hash160, an outpoint is <<txid, vout>>.         *)
(***************************************************************************)
EXTENDS Integers, Sequences, FiniteSets, Functions

CONSTANTS
  Txs, Outs, Ins,    \* per tx the addresses paid and the outpoints spent, in order
  Covered,           \* transactions whose first byte is in the coverage map
  Oversized,         \* transactions longer than maxTxSize
  Unsolicited,       \* transactions the peer may send without being asked
  Addresses, NoAddr,
  Shard, LastShard,  \* Shard[tx] in 0..LastShard, 255 in the code
  TTL,               \* of an index entry
  MaxGetData,        \* maxGetDataPerMsg
  HasDB,             \* FALSE when the watch database could not be opened
  Subscribers, ChannelSize,
  Filter,            \* the address a subscriber asks for, NoAddr for all
  MaxClock, MaxBatch

Outpoints == UNION {{<<t, v>> : v \in 1..Len(Outs[t])} : t \in Txs}

ASSUME WatchAssumption ==
  /\ Outs \in [Txs -> Seq(Addresses \cup {NoAddr})] /\ NoAddr \notin Addresses
  /\ Ins \in [Txs -> Seq(Txs \X Nat)]
  /\ Covered \subseteq Txs /\ Oversized \subseteq Txs /\ Unsolicited \subseteq Txs
  /\ LastShard \in Nat /\ Shard \in [Txs -> 0..LastShard]
  /\ TTL \in Nat /\ MaxClock \in Nat /\ MaxBatch \in Nat
  /\ MaxGetData \in Nat \ {0} /\ ChannelSize \in Nat \ {0}
  /\ HasDB \in BOOLEAN /\ Filter \in [Subscribers -> Addresses \cup {NoAddr}]
  /\ {"none", "unspent", "", "read"} \cap Txs = {}

VARIABLES
  main,       \* setupMempool and Close: "down", "started", "up", "alone", "stopping"
  connected,  \* m.connected
  reading,    \* readLoop has not returned
  pending,    \* m.pending: hashes not to be asked for again
  batch,      \* m.batch: hashes for the next getdata
  flushing,   \* what batchLoop took out of the batch and has not sent yet
  asked,      \* hashes the peer was asked for and has not answered
  lost        \* hashes of a getdata whose write failed
monitor == <<connected, reading, pending, batch, flushing, asked, lost>>

VARIABLES
  clock,
  index,      \* FirstSeen of each entry, NotSeen when there is none
  count,      \* idx.count
  evictor     \* the running ExpireBefore: next shard, cutoff, evicted so far
indexVars == <<index, count, evictor>>

VARIABLES
  watches,    \* w.watches
  utxos,      \* w.utxos: the address of each tracked outpoint, NoAddr if none
  job,        \* where readLoop is in handleTx and CheckTx
  db,         \* LevelDB: "none", "unspent" or the spending tx, per address and outpoint
  unsaved,    \* keys whose last write failed since the start; the error is ignored
  subs        \* the subscribers' channels
watchVars == <<watches, utxos, db, unsaved, subs>>

vars == <<main, monitor, clock, indexVars, watchVars, job>>

NotSeen == -1
NoEvictor == [on |-> FALSE, shard |-> 0, cutoff |-> 0, n |-> 0]
Reading == [pc |-> "read", tx |-> "", i |-> 0, addr |-> NoAddr]
NoSub == [on |-> FALSE, queue |-> <<>>]
Keys == Addresses \X Outpoints

\* The memory of a process that has just begun; only the database is kept.
Memory(utxoSet, started) ==
  /\ connected' = FALSE /\ reading' = started
  /\ pending' = {} /\ batch' = <<>> /\ flushing' = <<>> /\ asked' = {} /\ lost' = {}
  /\ index' = [t \in Txs |-> NotSeen] /\ count' = 0 /\ evictor' = NoEvictor
  /\ watches' = {} /\ utxos' = utxoSet /\ unsaved' = {}
  /\ subs' = [s \in Subscribers |-> NoSub]
  /\ job' = Reading

NothingTracked == [o \in Outpoints |-> NoAddr]

Init == /\ main = "down" /\ clock = 0
        /\ connected = FALSE /\ reading = FALSE
        /\ pending = {} /\ batch = <<>> /\ flushing = <<>> /\ asked = {} /\ lost = {}
        /\ index = [t \in Txs |-> NotSeen] /\ count = 0 /\ evictor = NoEvictor
        /\ watches = {} /\ utxos = NothingTracked /\ unsaved = {}
        /\ db = [k \in Keys |-> "none"]
        /\ subs = [s \in Subscribers |-> NoSub]
        /\ job = Reading

Running == main # "down"

------------------------------------------------------------------------------
(* setupMempool, Close and crashes                                          *)

\* Mutant: every record is loaded, the spent ones too.
loadUTXOsAll ==
  [o \in Outpoints |->
     IF \E a \in Addresses : db[<<a, o>>] # "none"
     THEN CHOOSE a \in Addresses : db[<<a, o>>] # "none" ELSE NoAddr]

\* An outpoint pays one address, so at most one record of it is unspent.
loadUTXOs ==
  [o \in Outpoints |->
     IF \E a \in Addresses : db[<<a, o>>] = "unspent"
     THEN CHOOSE a \in Addresses : db[<<a, o>>] = "unspent" ELSE NoAddr]

NewWatcher(started) ==
  /\ Memory(IF HasDB THEN loadUTXOs ELSE NothingTracked, started)
  /\ UNCHANGED <<clock, db>>

\* Start fails: the watcher stays, without a monitor and without an evictor.
SetupAlone == main = "down" /\ main' = "alone" /\ NewWatcher(FALSE)

\* setupMempool and Start up to the two go statements.
Dial == main = "down" /\ main' = "started" /\ NewWatcher(TRUE)

\* The last statement of Start; readLoop may have returned already.
StoreConnected == /\ main = "started"
                  /\ connected' = TRUE /\ main' = "up"
                  /\ UNCHANGED <<reading, pending, batch, flushing, asked, lost, clock,
                                 indexVars, watchVars, job>>

\* Close: the context is cancelled and the connection closed.
Stop == /\ main = "up"
        /\ main' = "stopping"
        /\ UNCHANGED <<monitor, clock, indexVars, watchVars, job>>

\* Close waits for readLoop and closes the database; the process ends.
Close == /\ \/ main = "alone"
            \/ main = "stopping" /\ ~reading
         /\ Memory(NothingTracked, FALSE)
         /\ main' = "down"
         /\ UNCHANGED <<clock, db>>

Crash == /\ Running
         /\ Memory(NothingTracked, FALSE)
         /\ main' = "down"
         /\ UNCHANGED <<clock, db>>

Tick == /\ clock < MaxClock /\ clock' = clock + 1
        /\ UNCHANGED <<main, monitor, indexVars, watchVars, job>>

------------------------------------------------------------------------------
(* readLoop and batchLoop                                                   *)

AtMessage == Running /\ reading /\ job.pc = "read"

\* A read error, a timeout, or the context is cancelled.
ReadLoopEnds == /\ AtMessage
                /\ reading' = FALSE /\ connected' = FALSE
                /\ UNCHANGED <<main, pending, batch, flushing, asked, lost, clock,
                               indexVars, watchVars, job>>

\* One inventory vector; the counters are left out.
handleInv(t) ==
  /\ AtMessage /\ main # "stopping"
  /\ t \in Covered /\ t \notin pending /\ Len(batch) < MaxBatch
  /\ pending' = pending \cup {t}
  /\ batch' = Append(batch, t)
  /\ UNCHANGED <<main, connected, reading, flushing, asked, lost, clock, indexVars,
                 watchVars, job>>

handleNotFound(t) ==
  /\ AtMessage /\ main # "stopping" /\ t \in asked
  /\ pending' = pending \ {t} /\ asked' = asked \ {t}
  /\ UNCHANGED <<main, connected, reading, batch, flushing, lost, clock, indexVars,
                 watchVars, job>>

\* batchLoop ends with the context, not with readLoop.
Batching == main \in {"started", "up"}

\* Mutant: only the first getdata is sent.
takeBatchOnce ==
  /\ Batching /\ flushing = <<>> /\ batch # <<>>
  /\ flushing' = SubSeq(batch, 1, IF Len(batch) < MaxGetData THEN Len(batch) ELSE MaxGetData)
  /\ batch' = <<>>
  /\ UNCHANGED <<main, connected, reading, pending, asked, lost, clock, indexVars,
                 watchVars, job>>

takeBatch ==
  /\ Batching /\ flushing = <<>> /\ batch # <<>>
  /\ flushing' = batch /\ batch' = <<>>
  /\ UNCHANGED <<main, connected, reading, pending, asked, lost, clock, indexVars,
                 watchVars, job>>

\* One getdata; the error of writeMsg is dropped and the loop goes on.
sendGetData ==
  /\ Batching /\ flushing # <<>>
  /\ LET n == IF Len(flushing) < MaxGetData THEN Len(flushing) ELSE MaxGetData
         hashes == Range(SubSeq(flushing, 1, n))
     IN  /\ flushing' = SubSeq(flushing, n + 1, Len(flushing))
         /\ \/ reading /\ asked' = asked \cup hashes /\ UNCHANGED lost
            \/ lost' = lost \cup hashes /\ UNCHANGED asked
  /\ UNCHANGED <<main, connected, reading, pending, batch, clock, indexVars, watchVars, job>>

\* Mutant: an entry that was there already is counted again.
AddAlways(t) == /\ index' = [index EXCEPT ![t] = clock]
                /\ job' = [Reading EXCEPT !.pc = "count", !.tx = t]

\* Index.Add under the shard's lock.
Add(t) ==
  IF index[t] = NotSeen
  THEN /\ index' = [index EXCEPT ![t] = clock]
       /\ job' = [Reading EXCEPT !.pc = "count", !.tx = t]
  ELSE /\ job' = [Reading EXCEPT !.pc = "check", !.tx = t]
       /\ UNCHANGED index

\* handleTx up to CheckTx.
handleTx(t) ==
  /\ AtMessage /\ main # "stopping" /\ t \in asked \cup Unsolicited
  /\ pending' = pending \ {t} /\ asked' = asked \ {t}
  /\ IF t \in Oversized THEN UNCHANGED <<index, job>> ELSE Add(t)
  /\ UNCHANGED <<main, connected, reading, batch, flushing, lost, clock, count, evictor,
                 watchVars>>

------------------------------------------------------------------------------
(* The evictor of the index                                                 *)

Expire == /\ main \in {"up", "stopping"} /\ ~evictor.on
          /\ evictor' = [on |-> TRUE, shard |-> 0, cutoff |-> clock - TTL, n |-> 0]
          /\ UNCHANGED <<main, monitor, clock, index, count, watchVars, job>>

ExpireShard ==
  /\ evictor.on /\ evictor.shard <= LastShard
  /\ LET old == {t \in Txs : /\ Shard[t] = evictor.shard /\ index[t] # NotSeen
                             /\ index[t] < evictor.cutoff}
     IN  /\ index' = [t \in Txs |-> IF t \in old THEN NotSeen ELSE index[t]]
         /\ evictor' = [evictor EXCEPT !.shard = @ + 1, !.n = @ + Cardinality(old)]
  /\ UNCHANGED <<main, monitor, clock, count, watchVars, job>>

ExpireEnds == /\ evictor.on /\ evictor.shard > LastShard
              /\ count' = count - evictor.n /\ evictor' = NoEvictor
              /\ UNCHANGED <<main, monitor, clock, index, watchVars, job>>

------------------------------------------------------------------------------
(* CheckTx                                                                  *)

Length(tx) == Len(Outs[tx]) + Len(Ins[tx])

\* The outputs come first, then the inputs; after the last one the next message.
At(i) == IF i <= Length(job.tx)
         THEN [job EXCEPT !.pc = "scan", !.i = i, !.addr = NoAddr] ELSE Reading

Advance == job' = At(job.i + 1)

\* The update of idx.count after an Add that inserted, and the early return.
CheckTx ==
  /\ Running /\ job.pc \in {"count", "check"}
  /\ count' = IF job.pc = "count" THEN count + 1 ELSE count
  /\ job' = IF watches = {} /\ utxos = NothingTracked THEN Reading ELSE At(1)
  /\ UNCHANGED <<main, monitor, clock, index, evictor, watchVars>>

AtOutput == job.pc = "scan" /\ job.i <= Len(Outs[job.tx])
AtInput  == job.pc = "scan" /\ job.i > Len(Outs[job.tx])

\* Put a record; a failed Put leaves the old one.
Put(key, value) ==
  \/ HasDB /\ db' = [db EXCEPT ![key] = value] /\ unsaved' = unsaved \ {key}
  \/ unsaved' = unsaved \cup {key} /\ UNCHANGED db

Receives(s, addr) == subs[s].on /\ Filter[s] \in {addr, NoAddr}

\* Non-blocking: a full channel misses the hit.
notify(addr, out) ==
  subs' = [s \in Subscribers |->
             IF Receives(s, addr) /\ Len(subs[s].queue) < ChannelSize
             THEN [subs[s] EXCEPT !.queue = Append(@, <<addr, out>>)] ELSE subs[s]]

\* Mutant: subscribers hear of the output before it is stored.
CheckOutputNotifies ==
  /\ Running /\ AtOutput
  /\ LET addr == Outs[job.tx][job.i]
     IN  IF addr \in watches
         THEN /\ utxos' = [utxos EXCEPT ![<<job.tx, job.i>>] = addr]
              /\ job' = [job EXCEPT !.pc = "persist", !.addr = addr]
              /\ notify(addr, <<job.tx, job.i>>)
         ELSE Advance /\ UNCHANGED <<utxos, subs>>
  /\ UNCHANGED <<main, monitor, clock, indexVars, watches, db, unsaved>>

\* One output: watched or not is looked up here, the outpoint is tracked.
CheckOutput ==
  /\ Running /\ AtOutput
  /\ LET addr == Outs[job.tx][job.i]
     IN  IF addr \in watches
         THEN /\ utxos' = [utxos EXCEPT ![<<job.tx, job.i>>] = addr]
              /\ job' = [job EXCEPT !.pc = "persist", !.addr = addr]
         ELSE Advance /\ UNCHANGED utxos
  /\ UNCHANGED <<main, monitor, clock, indexVars, watches, db, unsaved, subs>>

persist ==
  /\ Running /\ job.pc = "persist"
  /\ Put(<<job.addr, <<job.tx, job.i>>>>, "unspent")
  /\ notify(job.addr, <<job.tx, job.i>>)
  /\ Advance
  /\ UNCHANGED <<main, monitor, clock, indexVars, watches, utxos>>

Input == Ins[job.tx][job.i - Len(Outs[job.tx])]
Tracked(o) == o \in Outpoints /\ utxos[o] # NoAddr

\* One input: the address it was tracked for is all that is kept of it.
CheckInput ==
  /\ Running /\ AtInput
  /\ IF Tracked(Input)
     THEN /\ utxos' = [utxos EXCEPT ![Input] = NoAddr]
          /\ job' = [job EXCEPT !.pc = "spent", !.addr = utxos[Input]]
     ELSE Advance /\ UNCHANGED utxos
  /\ UNCHANGED <<main, monitor, clock, indexVars, watches, db, unsaved, subs>>

\* Get, mark and Put; without a record there is nothing to mark.  A Get that fails
\* on a record leaves it as it was, unmarked, as a failed Put does.
persistSpend ==
  /\ Running /\ job.pc = "spent"
  /\ IF HasDB /\ db[<<job.addr, Input>>] # "none"
     THEN Put(<<job.addr, Input>>, job.tx) ELSE UNCHANGED <<db, unsaved>>
  /\ notify(job.addr, Input)
  /\ Advance
  /\ UNCHANGED <<main, monitor, clock, indexVars, watches, utxos>>

------------------------------------------------------------------------------
(* The HTTP handlers                                                        *)

AddWatch(a) == /\ Running /\ a \notin watches
               /\ watches' = watches \cup {a}
               /\ UNCHANGED <<main, monitor, clock, indexVars, utxos, db, unsaved, subs, job>>

RemoveWatch(a) == /\ Running /\ a \in watches
                  /\ watches' = watches \ {a}
                  /\ UNCHANGED <<main, monitor, clock, indexVars, utxos, db, unsaved, subs, job>>

Subscribe(s) ==
  /\ Running /\ ~subs[s].on
  /\ subs' = [subs EXCEPT ![s] = [on |-> TRUE, queue |-> <<>>]]
  /\ UNCHANGED <<main, monitor, clock, indexVars, watches, utxos, db, unsaved, job>>

Receive(s) == /\ subs[s].queue # <<>>
              /\ subs' = [subs EXCEPT ![s].queue = Tail(@)]
              /\ UNCHANGED <<main, monitor, clock, indexVars, watches, utxos, db, unsaved, job>>

Unsubscribe(s) ==
  /\ subs[s].on
  /\ subs' = [subs EXCEPT ![s] = NoSub]
  /\ UNCHANGED <<main, monitor, clock, indexVars, watches, utxos, db, unsaved, job>>

\* What GET /mempool/watch/history lists for an address, before its limit.
History(a) == {o \in Outpoints : db[<<a, o>>] # "none"}

------------------------------------------------------------------------------
ReadStep == CheckTx \/ CheckOutput \/ persist \/ CheckInput \/ persistSpend

Next == \/ SetupAlone \/ Dial \/ StoreConnected \/ Stop \/ Close \/ Crash \/ Tick
        \/ ReadLoopEnds \/ ReadStep \/ takeBatch \/ sendGetData
        \/ \E t \in Txs : handleInv(t) \/ handleNotFound(t) \/ handleTx(t)
        \/ Expire \/ ExpireShard \/ ExpireEnds
        \/ \E a \in Addresses : AddWatch(a) \/ RemoveWatch(a)
        \/ \E s \in Subscribers : Subscribe(s) \/ Receive(s) \/ Unsubscribe(s)

Spec == Init /\ [][Next]_vars

------------------------------------------------------------------------------
Hits == Addresses \X Outpoints

\* Types of the variables.
TypeOK ==
  /\ main \in {"down", "started", "up", "alone", "stopping"}
  /\ connected \in BOOLEAN /\ reading \in BOOLEAN
  /\ pending \subseteq Txs /\ asked \subseteq Txs /\ lost \subseteq Txs
  /\ batch \in Seq(Txs) /\ flushing \in Seq(Txs)
  /\ clock \in Nat /\ index \in [Txs -> Nat \cup {NotSeen}] /\ count \in Int
  /\ evictor \in [on : BOOLEAN, shard : Nat, cutoff : Int, n : Nat]
  /\ watches \subseteq Addresses /\ unsaved \subseteq Keys
  /\ utxos \in [Outpoints -> Addresses \cup {NoAddr}]
  /\ db \in [Keys -> {"none", "unspent"} \cup Txs]
  /\ subs \in [Subscribers -> [on : BOOLEAN, queue : Seq(Hits)]]
  /\ job \in [pc : {"read", "count", "check", "scan", "persist", "spent"},
              tx : Txs \cup {""}, i : Nat, addr : Addresses \cup {NoAddr}]

\* Persistent hit storage that survives restarts: between two messages the
\* outpoints tracked in memory are the ones the database has as unspent, so a
\* restart at that point goes on exactly where the process was, unless LevelDB
\* had refused a write.
RestartGoesOn ==
  HasDB /\ Running /\ job.pc = "read" =>
    \A a \in Addresses, o \in Outpoints :
      <<a, o>> \notin unsaved => (utxos[o] = a <=> db[<<a, o>>] = "unspent")

\* A subscriber is never told of an output that the history does not have.
HitsInHistory ==
  HasDB => \A s \in Subscribers : \A i \in 1..Len(subs[s].queue) :
             LET hit == subs[s].queue[i]
             IN  hit[2] \in History(hit[1]) \/ hit \in unsaved

\* The counter of the index, kept outside the shard locks by readLoop and the
\* evictor, is right whenever neither of them is between its two updates.
IndexCounted ==
  job.pc # "count" /\ ~evictor.on => count = Cardinality({t \in Txs : index[t] # NotSeen})

\* A hash marked pending, which no later announcement can ask for again, is
\* waiting to be sent, was asked for and not answered, or its write failed:
\* none is forgotten between handleInv and batchLoop.
PendingAccounted ==
  Batching => pending \subseteq Range(batch) \cup Range(flushing) \cup asked \cup lost
==============================================================================
