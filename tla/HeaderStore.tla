----------------------------- MODULE HeaderStore -----------------------------
(***************************************************************************)
(* The LevelDB-backed header store (internal/headers/store.go).             *)
(*                                                                          *)
(* A store image is the content of the database: three maps that must agree *)
(* (h:<height>, hi:<hash>, m:<height>) and the tip and work keys.  AddHeaders*)
(* and Rollback build a leveldb.Batch header by header under the lock, write *)
(* it in one step and only then update the in-memory tip and work; the       *)
(* process can stop between any two of these steps.  Writes are not synced   *)
(* (a nil WriteOptions), so a power loss falls back to the last image that   *)
(* reached the disk.                                                         *)
(***************************************************************************)
EXTENDS Integers, Sequences

CONSTANTS
  Blocks,     \* the headers that exist; a header stands for its hash too
  Genesis,    \* genesisHeaderBytes
  Prev,       \* [Blocks -> Blocks \cup {NoBlock}], the PrevBlock field
  NoBlock,    \* a PrevBlock that is the hash of no header in Blocks
  ValidPoW,   \* [Blocks -> BOOLEAN], ValidatePoW succeeds
  Work,       \* [Blocks -> Nat], WorkForHeader
  Root,       \* [Blocks -> Roots], the MerkleRoot field
  Roots,
  Batches,    \* the header slices a caller may pass to AddHeaders
  Heights,    \* the heights a caller may pass
  Depth,      \* distance to genesis: prev hashes cannot form a cycle
  ChainWork   \* the work of the headers above genesis up to a header

(***************************************************************************)
(* Depth and ChainWork are not state of the program.  They exist for every  *)
(* set of headers because a hash cannot be part of its own preimage: the    *)
(* PrevBlock links are acyclic.                                             *)
(***************************************************************************)
ASSUME HeaderAssumption ==
  /\ Genesis \in Blocks
  /\ NoBlock \notin Blocks
  /\ Prev \in [Blocks -> Blocks \cup {NoBlock}]
  /\ Prev[Genesis] = NoBlock
  /\ ValidPoW \in [Blocks -> BOOLEAN]
  /\ Work \in [Blocks -> Nat]
  /\ Root \in [Blocks -> Roots]
  /\ Batches \subseteq Seq(Blocks)
  /\ Heights \subseteq Nat
  /\ Depth \in [Blocks -> Nat]
  /\ Depth[Genesis] = 0
  /\ ChainWork \in [Blocks -> Nat]
  /\ ChainWork[Genesis] = 0
  /\ \A b \in Blocks : Prev[b] \in Blocks =>
        /\ Depth[b] = Depth[Prev[b]] + 1
        /\ ChainWork[b] = ChainWork[Prev[b]] + Work[b]

VARIABLES
  db,      \* the image the process reads and writes
  disk,    \* the image that survives a power loss
  up,      \* the process has opened the store
  tip,     \* Store.tip
  work,    \* Store.work
  call,    \* where the holder of the lock is
  batch,   \* the image its leveldb.Batch will produce
  todo,    \* AddHeaders: headers still to be checked
  target   \* Rollback: toHeight

vars == <<db, disk, up, tip, work, call, batch, todo, target>>

Calls == {"idle", "add", "rollback", "written"}

\* A database without the tip key; tip -1 stands for leveldb.ErrNotFound.
Empty == [hdr |-> [h \in {} |-> Genesis],
          idx |-> [b \in {} |-> 0],
          mrk |-> [h \in {} |-> Root[Genesis]],
          tip |-> -1, work |-> 0]

------------------------------------------------------------------------------
(* Batch operations                                                         *)

Put(f, k, v) == [j \in DOMAIN f \cup {k} |-> IF j = k THEN v ELSE f[j]]

Delete(f, k) == [j \in DOMAIN f \ {k} |-> f[j]]

\* The image after the header b has been put at height h.
PutHeader(x, h, b) ==
  [hdr |-> Put(x.hdr, h, b),
   idx |-> Put(x.idx, b, h),
   mrk |-> Put(x.mrk, h, Root[b]),
   tip |-> h,
   work |-> x.work + Work[b]]

\* Mutant: Rollback leaves the hash index entry behind.
DeleteHeaderKeepsHash(x, h) ==
  [hdr |-> Delete(x.hdr, h),
   idx |-> x.idx,
   mrk |-> Delete(x.mrk, h),
   tip |-> h - 1,
   work |-> x.work - Work[x.hdr[h]]]

\* The image after the header at height h = x.tip has been deleted.
DeleteHeader(x, h) ==
  [hdr |-> Delete(x.hdr, h),
   idx |-> Delete(x.idx, x.hdr[h]),
   mrk |-> Delete(x.mrk, h),
   tip |-> h - 1,
   work |-> x.work - Work[x.hdr[h]]]

\* writeGenesis puts no work key: the work of genesis is never counted.
GenesisImage == [hdr |-> [h \in {0} |-> Genesis],
                 idx |-> [b \in {Genesis} |-> 0],
                 mrk |-> [h \in {0} |-> Root[Genesis]],
                 tip |-> 0, work |-> 0]

------------------------------------------------------------------------------
Init == /\ db = Empty /\ disk = Empty
        /\ up = FALSE /\ tip = 0 /\ work = 0
        /\ call = "idle" /\ batch = Empty /\ todo = <<>> /\ target = 0

Unlock == call' = "idle" /\ batch' = Empty /\ todo' = <<>> /\ target' = 0

NewStore == /\ ~up
            /\ up' = TRUE
            /\ db' = IF db.tip = -1 THEN GenesisImage ELSE db
            /\ tip' = db'.tip
            /\ work' = db'.work
            /\ UNCHANGED <<disk, call, batch, todo, target>>

\* AddHeaders past its first two returns; a wrong start height or an empty
\* slice changes nothing.
AddHeaders(startHeight, headers) ==
  /\ up /\ call = "idle"
  /\ startHeight = tip + 1
  /\ headers # <<>>
  /\ call' = "add" /\ todo' = headers
  /\ batch' = [db EXCEPT !.tip = tip, !.work = work]
  /\ UNCHANGED <<db, disk, up, tip, work, target>>

\* Mutant: only the proof of work is checked.
LinksAnyPrev(x, b) == ValidPoW[b]

\* hdr.PrevBlock is compared with the hash of the header below it.
Links(x, b) == Prev[b] = x.hdr[x.tip] /\ ValidPoW[b]

\* Mutant: the height of the header is one too low.
CheckHeaderAtTip ==
  /\ call = "add" /\ todo # <<>>
  /\ Links(batch, Head(todo))
  /\ batch' = PutHeader(batch, batch.tip, Head(todo))
  /\ todo' = Tail(todo)
  /\ UNCHANGED <<db, disk, up, tip, work, call, target>>

CheckHeader ==
  /\ call = "add" /\ todo # <<>>
  /\ Links(batch, Head(todo))
  /\ batch' = PutHeader(batch, batch.tip + 1, Head(todo))
  /\ todo' = Tail(todo)
  /\ UNCHANGED <<db, disk, up, tip, work, call, target>>

\* One bad header drops the whole batch.
RejectHeader ==
  /\ call = "add" /\ todo # <<>>
  /\ ~Links(batch, Head(todo))
  /\ Unlock
  /\ UNCHANGED <<db, disk, up, tip, work>>

Rollback(toHeight) ==
  /\ up /\ call = "idle"
  /\ toHeight < tip
  /\ call' = "rollback" /\ target' = toHeight
  /\ batch' = [db EXCEPT !.tip = tip, !.work = work]
  /\ UNCHANGED <<db, disk, up, tip, work, todo>>

RemoveHeader ==
  /\ call = "rollback" /\ batch.tip > target
  /\ batch' = DeleteHeader(batch, batch.tip)
  /\ UNCHANGED <<db, disk, up, tip, work, call, todo, target>>

BatchComplete == \/ call = "add" /\ todo = <<>>
                 \/ call = "rollback" /\ batch.tip = target

WriteBatch == /\ BatchComplete
              /\ db' = batch
              /\ call' = "written"
              /\ UNCHANGED <<disk, up, tip, work, batch, todo, target>>

WriteFails == /\ BatchComplete
              /\ Unlock
              /\ UNCHANGED <<db, disk, up, tip, work>>

\* Mutant: the in-memory work is not refreshed.
PublishForgetsWork == /\ call = "written"
                      /\ tip' = batch.tip
                      /\ Unlock
                      /\ UNCHANGED <<db, disk, up, work>>

Publish == /\ call = "written"
           /\ tip' = batch.tip /\ work' = batch.work
           /\ Unlock
           /\ UNCHANGED <<db, disk, up>>

\* The process stops: everything but the database is gone.
Stop == /\ up
        /\ up' = FALSE /\ tip' = 0 /\ work' = 0
        /\ Unlock

Crash == Stop /\ UNCHANGED <<db, disk>>

PowerLoss == Stop /\ db' = disk /\ UNCHANGED disk

\* The operating system writes LevelDB's log back.
Flush == /\ disk' = db
         /\ UNCHANGED <<db, up, tip, work, call, batch, todo, target>>

Internal == \/ NewStore \/ CheckHeader \/ RejectHeader \/ RemoveHeader
            \/ WriteBatch \/ WriteFails \/ Publish
            \/ Crash \/ PowerLoss \/ Flush

Next == \/ \E startHeight \in Heights, headers \in Batches :
              AddHeaders(startHeight, headers)
        \/ \E toHeight \in Heights : Rollback(toHeight)
        \/ Internal

Spec == Init /\ [][Next]_vars

------------------------------------------------------------------------------
(* Properties                                                               *)

\* The maps of an image describe one chain: heights 0..tip are present, each
\* header extends the one below it and has proof of work.
Linked(x) ==
  /\ x.hdr \in [0..x.tip -> Blocks]
  /\ x.tip >= 0 => x.hdr[0] = Genesis
  /\ \A h \in 1..x.tip : Prev[x.hdr[h]] = x.hdr[h - 1] /\ ValidPoW[x.hdr[h]]

\* The hash index is the inverse of the header map and the merkle map is its
\* projection: nothing of a removed fork stays behind.
Indexed(x) ==
  /\ \A h \in 0..x.tip : x.hdr[h] \in DOMAIN x.idx /\ x.idx[x.hdr[h]] = h
  /\ \A b \in DOMAIN x.idx : x.idx[b] \in 0..x.tip /\ x.hdr[x.idx[b]] = b
  /\ x.mrk = [h \in 0..x.tip |-> Root[x.hdr[h]]]

\* The work key counts exactly the headers above genesis.
Weighed(x) == x.work = IF x.tip = -1 THEN 0 ELSE ChainWork[x.hdr[x.tip]]

Consistent(x) ==
  /\ x.tip \in Int /\ x.tip >= -1
  /\ x = [hdr |-> x.hdr, idx |-> x.idx, mrk |-> x.mrk, tip |-> x.tip, work |-> x.work]
  /\ Linked(x) /\ Indexed(x) /\ Weighed(x)

TypeOK == /\ up \in BOOLEAN /\ tip \in Nat /\ work \in Nat
          /\ call \in Calls
          /\ todo \in Seq(Blocks)
          /\ target \in Nat

\* The database, the copy on disk and a batch about to be written are each a
\* complete consistent chain, whatever step of AddHeaders or Rollback the
\* process died in: what NewStore opens is never half of an operation.
StoreConsistent == /\ Consistent(db)
                   /\ Consistent(disk)
                   /\ call # "idle" => Consistent(batch)

\* A reader (Tip, Work, CurrentHeight) never sees a tip or work that the
\* database does not have: the in-memory copies are refreshed before unlock.
MemoryMatchesDatabase ==
  up /\ call # "written" => tip = db.tip /\ work = db.work

\* The chain only ever changes as the abstract specification allows.
Abstract == INSTANCE HeaderChain WITH chain <- db.hdr, durable <- disk.hdr
RefinesChain == Abstract!Spec
==============================================================================
