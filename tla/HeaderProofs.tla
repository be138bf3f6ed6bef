---------------------------- MODULE HeaderProofs -----------------------------
(***************************************************************************)
(* The header store keeps a consistent chain for every set of headers, every *)
(* slice a peer sends and every point at which the process dies, and its     *)
(* database implements HeaderChain; the start-up that syncs it ends with the *)
(* chain of the node it names, whatever the other nodes answer.              *)
(***************************************************************************)
EXTENDS HeaderSync, FiniteSetTheorems, SequenceTheorems, WellFoundedInduction, TLAPS

\* A header sits at its distance from genesis, so no header occurs twice.
Ranked(x) == \A h \in 0..x.tip : Depth[x.hdr[h]] = h

Good(x) == Consistent(x) /\ Ranked(x)

\* x and y agree up to the height both have.
Agree(x, y) == \A h \in 0..x.tip : h <= y.tip => x.hdr[h] = y.hdr[h]

\* What the holder of the lock has done so far.
InFlight ==
  /\ call # "idle" => up /\ Good(batch) /\ batch.tip >= 0 /\ Agree(batch, db)
  /\ call = "add" => /\ batch.tip >= db.tip
                     /\ todo = <<>> => batch.tip > db.tip
  /\ call = "rollback" => /\ target <= batch.tip
                          /\ batch.tip <= db.tip
                          /\ target < db.tip
  /\ call = "written" => batch = db

IInv == /\ TypeOK
        /\ Good(db) /\ Good(disk)
        /\ up => db.tip >= 0
        /\ MemoryMatchesDatabase
        /\ InFlight

------------------------------------------------------------------------------
\* A header that links to the tip can be put above it.
LEMMA PutGood ==
  ASSUME NEW x, Good(x), x.tip >= 0, NEW b \in Blocks, Links(x, b)
  PROVE  LET y == PutHeader(x, x.tip + 1, b)
         IN  Good(y) /\ y.tip = x.tip + 1 /\ Agree(y, x)
<1> DEFINE y == PutHeader(x, x.tip + 1, b)
<1> USE HeaderAssumption
<1>1. /\ x.tip \in Nat
      /\ DOMAIN x.hdr = 0..x.tip
      /\ \A h \in 0..x.tip : x.hdr[h] \in Blocks
  BY DEF Good, Consistent, Linked
<1>2. /\ y.tip = x.tip + 1
      /\ y.hdr = [j \in 0..(x.tip + 1) |-> IF j = x.tip + 1 THEN b ELSE x.hdr[j]]
      /\ y.work = x.work + Work[b]
  <2>1. DOMAIN x.hdr \cup {x.tip + 1} = 0..(x.tip + 1)
    BY <1>1
  <2> QED BY <2>1 DEF PutHeader, Put
<1>y. /\ y.idx = Put(x.idx, b, x.tip + 1) /\ y.mrk = Put(x.mrk, x.tip + 1, Root[b])
      /\ y = [hdr |-> y.hdr, idx |-> y.idx, mrk |-> y.mrk, tip |-> y.tip, work |-> y.work]
  BY DEF PutHeader
<1> HIDE DEF y
<1>3. /\ y.hdr[y.tip] = b
      /\ \A h \in 0..x.tip : y.hdr[h] = x.hdr[h]
  BY <1>1, <1>2
<1>4. Depth[b] = x.tip + 1 /\ ChainWork[b] = ChainWork[x.hdr[x.tip]] + Work[b]
  BY <1>1 DEF Links, Good, Ranked
<1>5. \A h \in 0..x.tip : x.hdr[h] # b
  BY <1>1, <1>4 DEF Good, Ranked
<1>6. Linked(y)
  <2>1. \A h \in 0..y.tip : y.hdr[h] \in Blocks
    BY <1>1, <1>2
  <2>2. y.hdr[0] = Genesis
    BY <1>1, <1>3 DEF Good, Consistent, Linked
  <2>3. \A h \in 1..y.tip : Prev[y.hdr[h]] = y.hdr[h - 1] /\ ValidPoW[y.hdr[h]]
    <3> SUFFICES ASSUME NEW h \in 1..y.tip
                 PROVE  Prev[y.hdr[h]] = y.hdr[h - 1] /\ ValidPoW[y.hdr[h]]
      OBVIOUS
    <3>1. CASE h = y.tip
      BY <1>1, <1>2, <1>3, <3>1 DEF Links
    <3>2. CASE h # y.tip
      <4>1. h \in 1..x.tip /\ h \in 0..x.tip /\ h - 1 \in 0..x.tip
        BY <1>1, <1>2, <3>2
      <4>2. Prev[x.hdr[h]] = x.hdr[h - 1] /\ ValidPoW[x.hdr[h]]
        BY <4>1 DEF Good, Consistent, Linked
      <4> QED BY <1>3, <4>1, <4>2
    <3> QED BY <3>1, <3>2
  <2> QED BY <1>2, <2>1, <2>2, <2>3 DEF Linked
<1>7. Indexed(y)
  <2>1. y.idx = Put(x.idx, b, x.tip + 1) /\ y.mrk = Put(x.mrk, x.tip + 1, Root[b])
    BY <1>y
  <2>2. /\ \A h \in 0..x.tip : x.hdr[h] \in DOMAIN x.idx /\ x.idx[x.hdr[h]] = h
        /\ \A c \in DOMAIN x.idx : x.idx[c] \in 0..x.tip /\ x.hdr[x.idx[c]] = c
        /\ x.mrk = [h \in 0..x.tip |-> Root[x.hdr[h]]]
    BY DEF Good, Consistent, Indexed
  <2>3. /\ DOMAIN y.idx = DOMAIN x.idx \cup {b}
        /\ \A c \in DOMAIN y.idx : y.idx[c] = IF c = b THEN x.tip + 1 ELSE x.idx[c]
    BY <2>1 DEF Put
  <2>4. \A h \in 0..y.tip : y.hdr[h] \in DOMAIN y.idx /\ y.idx[y.hdr[h]] = h
    <3> SUFFICES ASSUME NEW h \in 0..y.tip
                 PROVE  y.hdr[h] \in DOMAIN y.idx /\ y.idx[y.hdr[h]] = h
      OBVIOUS
    <3>1. CASE h = y.tip
      BY <1>2, <1>3, <2>3, <3>1
    <3>2. CASE h # y.tip
      <4>1. h \in 0..x.tip
        BY <1>1, <1>2, <3>2
      <4>2. x.hdr[h] \in DOMAIN x.idx /\ x.hdr[h] # b /\ y.hdr[h] = x.hdr[h]
        BY <1>3, <1>5, <2>2, <4>1
      <4> QED BY <2>2, <2>3, <4>1, <4>2
    <3> QED BY <3>1, <3>2
  <2>6. \A c \in DOMAIN y.idx : y.idx[c] \in 0..y.tip /\ y.hdr[y.idx[c]] = c
    <3> SUFFICES ASSUME NEW c \in DOMAIN y.idx
                 PROVE  y.idx[c] \in 0..y.tip /\ y.hdr[y.idx[c]] = c
      OBVIOUS
    <3>1. CASE c = b
      BY <1>1, <1>2, <1>3, <2>3, <3>1
    <3>2. CASE c # b
      <4>1. c \in DOMAIN x.idx /\ y.idx[c] = x.idx[c] /\ x.idx[c] \in 0..x.tip
        BY <2>2, <2>3, <3>2
      <4> QED BY <1>1, <1>2, <1>3, <2>2, <4>1
    <3> QED BY <3>1, <3>2
  <2>5. y.mrk = [h \in 0..y.tip |-> Root[y.hdr[h]]]
    <3>1. DOMAIN x.mrk \cup {x.tip + 1} = 0..y.tip
      BY <1>1, <1>2, <2>2
    <3>2. y.mrk = [j \in 0..y.tip |-> IF j = x.tip + 1 THEN Root[b] ELSE x.mrk[j]]
      BY <2>1, <3>1 DEF Put
    <3>3. \A j \in 0..y.tip : (IF j = x.tip + 1 THEN Root[b] ELSE x.mrk[j]) = Root[y.hdr[j]]
      BY <1>1, <1>2, <1>3, <2>2
    <3> QED BY <3>2, <3>3
  <2> QED BY <2>4, <2>5, <2>6 DEF Indexed
<1>8. Weighed(y)
  BY <1>1, <1>2, <1>3, <1>4 DEF Good, Consistent, Weighed
<1>9. Consistent(y)
  <2>1. y = [hdr |-> y.hdr, idx |-> y.idx, mrk |-> y.mrk, tip |-> y.tip, work |-> y.work]
    BY <1>y
  <2> QED BY <1>1, <1>2, <1>6, <1>7, <1>8, <2>1 DEF Consistent
<1>10. Ranked(y)
  BY <1>1, <1>2, <1>3, <1>4 DEF Good, Ranked
<1>11. Agree(y, x)
  BY <1>1, <1>3 DEF Agree
<1> QED BY <1>2, <1>9, <1>10, <1>11 DEF Good, y

\* The top header can be taken off again.
LEMMA DeleteGood ==
  ASSUME NEW x, Good(x), x.tip >= 1
  PROVE  LET y == DeleteHeader(x, x.tip)
         IN  Good(y) /\ y.tip = x.tip - 1 /\ Agree(y, x)
<1> DEFINE y == DeleteHeader(x, x.tip)
<1> USE HeaderAssumption
<1>1. /\ x.tip \in Nat
      /\ DOMAIN x.hdr = 0..x.tip
      /\ \A h \in 0..x.tip : x.hdr[h] \in Blocks /\ Depth[x.hdr[h]] = h
      /\ \A h \in 1..x.tip : Prev[x.hdr[h]] = x.hdr[h - 1] /\ ValidPoW[x.hdr[h]]
      /\ x.hdr[0] = Genesis
  BY DEF Good, Consistent, Linked, Ranked
<1>2. /\ y.tip = x.tip - 1
      /\ y.hdr = Delete(x.hdr, x.tip)
      /\ y.idx = Delete(x.idx, x.hdr[x.tip])
      /\ y.mrk = Delete(x.mrk, x.tip)
      /\ y.work = x.work - Work[x.hdr[x.tip]]
      /\ y = [hdr |-> y.hdr, idx |-> y.idx, mrk |-> y.mrk, tip |-> y.tip, work |-> y.work]
  BY DEF DeleteHeader
<1> HIDE DEF y
<1>3. 0..x.tip \ {x.tip} = 0..y.tip
  BY <1>1, <1>2
<1>4. y.hdr = [h \in 0..y.tip |-> x.hdr[h]]
  BY <1>1, <1>2, <1>3 DEF Delete
<1>5. \A h \in 0..y.tip : h \in 0..x.tip /\ h # x.tip /\ y.hdr[h] = x.hdr[h]
  BY <1>1, <1>2, <1>4
<1>6. Linked(y)
  <2>1. \A h \in 1..y.tip : h \in 1..x.tip /\ h \in 0..y.tip /\ h - 1 \in 0..y.tip
    BY <1>1, <1>2
  <2>2. 0 \in 0..y.tip
    BY <1>1, <1>2
  <2> QED BY <1>1, <1>4, <1>5, <2>1, <2>2 DEF Linked
<1>7. Indexed(y)
  <2>1. /\ \A h \in 0..x.tip : x.hdr[h] \in DOMAIN x.idx /\ x.idx[x.hdr[h]] = h
        /\ \A c \in DOMAIN x.idx : x.idx[c] \in 0..x.tip /\ x.hdr[x.idx[c]] = c
        /\ x.mrk = [h \in 0..x.tip |-> Root[x.hdr[h]]]
    BY DEF Good, Consistent, Indexed
  <2>2. /\ DOMAIN y.idx = DOMAIN x.idx \ {x.hdr[x.tip]}
        /\ \A c \in DOMAIN y.idx : y.idx[c] = x.idx[c]
    BY <1>2 DEF Delete
  <2>3. \A h \in 0..y.tip : y.hdr[h] \in DOMAIN y.idx /\ y.idx[y.hdr[h]] = h
    <3> SUFFICES ASSUME NEW h \in 0..y.tip
                 PROVE  y.hdr[h] \in DOMAIN y.idx /\ y.idx[y.hdr[h]] = h
      OBVIOUS
    <3>1. h \in 0..x.tip /\ h # x.tip /\ y.hdr[h] = x.hdr[h] /\ x.tip \in 0..x.tip
      BY <1>1, <1>5
    <3>2. x.hdr[h] # x.hdr[x.tip]
      BY <2>1, <3>1
    <3>3. x.hdr[h] \in DOMAIN x.idx /\ x.idx[x.hdr[h]] = h
      BY <2>1, <3>1
    <3>4. y.hdr[h] \in DOMAIN y.idx
      BY <2>2, <3>1, <3>2, <3>3
    <3> QED BY <2>2, <3>1, <3>3, <3>4
  <2>4. \A c \in DOMAIN y.idx : y.idx[c] \in 0..y.tip /\ y.hdr[y.idx[c]] = c
    <3> SUFFICES ASSUME NEW c \in DOMAIN y.idx
                 PROVE  y.idx[c] \in 0..y.tip /\ y.hdr[y.idx[c]] = c
      OBVIOUS
    <3>1. c \in DOMAIN x.idx /\ c # x.hdr[x.tip] /\ y.idx[c] = x.idx[c]
      BY <2>2
    <3>2. x.idx[c] \in 0..x.tip /\ x.hdr[x.idx[c]] = c /\ x.idx[c] # x.tip
      BY <2>1, <3>1
    <3>3. x.idx[c] \in 0..y.tip
      BY <1>3, <3>2
    <3> QED BY <1>5, <3>1, <3>2, <3>3
  <2>5. y.mrk = [h \in 0..y.tip |-> Root[y.hdr[h]]]
    <3>1. y.mrk = [h \in 0..y.tip |-> x.mrk[h]]
      BY <1>2, <1>3, <2>1 DEF Delete
    <3>2. \A h \in 0..y.tip : x.mrk[h] = Root[y.hdr[h]]
      BY <1>5, <2>1
    <3> QED BY <3>1, <3>2
  <2> QED BY <2>3, <2>4, <2>5 DEF Indexed
<1>8. Weighed(y)
  <2>1. x.tip \in 1..x.tip /\ x.tip \in 0..x.tip /\ y.tip \in 0..y.tip
    BY <1>1, <1>2
  <2>2. ChainWork[x.hdr[x.tip]] = ChainWork[x.hdr[x.tip - 1]] + Work[x.hdr[x.tip]]
    BY <1>1, <1>2, <1>5, <2>1
  <2>3. x.work = ChainWork[x.hdr[x.tip]]
    BY <1>1 DEF Good, Consistent, Weighed
  <2>4. y.hdr[y.tip] = x.hdr[x.tip - 1] /\ x.hdr[x.tip - 1] \in Blocks
    BY <1>1, <1>2, <1>5, <2>1
  <2>5. ChainWork[x.hdr[x.tip - 1]] \in Nat /\ Work[x.hdr[x.tip]] \in Nat
    BY <1>1, <2>1, <2>4
  <2> QED BY <1>1, <1>2, <2>2, <2>3, <2>4, <2>5 DEF Weighed
<1>9. Consistent(y)
  BY <1>1, <1>2, <1>6, <1>7, <1>8 DEF Consistent
<1>10. Ranked(y)
  BY <1>1, <1>5 DEF Ranked
<1>11. Agree(y, x)
  BY <1>5 DEF Agree
<1> QED BY <1>2, <1>9, <1>10, <1>11 DEF Good, y

------------------------------------------------------------------------------
\* The empty database and the one writeGenesis produces.
LEMMA EmptyGood == Good(Empty) /\ Empty.tip = -1
<1>1. 0..(-1) = {} /\ 1..(-1) = {}
  OBVIOUS
<1>2. /\ Empty.hdr = [h \in {} |-> Genesis] /\ Empty.idx = [b \in {} |-> 0]
      /\ Empty.mrk = [h \in {} |-> Root[Genesis]]
      /\ Empty.tip = -1 /\ Empty.work = 0
      /\ Empty = [hdr |-> Empty.hdr, idx |-> Empty.idx, mrk |-> Empty.mrk,
                  tip |-> Empty.tip, work |-> Empty.work]
  BY DEF Empty
<1>3. Linked(Empty)
  BY <1>1, <1>2 DEF Linked
<1>4. Indexed(Empty)
  BY <1>1, <1>2 DEF Indexed
<1> QED BY <1>1, <1>2, <1>3, <1>4 DEF Good, Consistent, Weighed, Ranked

\* The image writeGenesis produces is the chain of the genesis header alone.
LEMMA GenesisGood == Good(GenesisImage) /\ GenesisImage.tip = 0 /\ GenesisImage.work = 0
<1> USE HeaderAssumption
<1>1. 0..0 = {0} /\ 1..0 = {}
  OBVIOUS
<1>2. /\ GenesisImage.hdr = [h \in {0} |-> Genesis]
      /\ GenesisImage.idx = [b \in {Genesis} |-> 0]
      /\ GenesisImage.mrk = [h \in {0} |-> Root[Genesis]]
      /\ GenesisImage.tip = 0 /\ GenesisImage.work = 0
      /\ GenesisImage = [hdr |-> GenesisImage.hdr, idx |-> GenesisImage.idx,
                         mrk |-> GenesisImage.mrk, tip |-> GenesisImage.tip,
                         work |-> GenesisImage.work]
  BY DEF GenesisImage
<1>3. Linked(GenesisImage)
  BY <1>1, <1>2 DEF Linked
<1>4. Indexed(GenesisImage)
  BY <1>1, <1>2 DEF Indexed
<1>5. Weighed(GenesisImage) /\ Ranked(GenesisImage)
  BY <1>1, <1>2 DEF Weighed, Ranked
<1> QED BY <1>2, <1>3, <1>4, <1>5 DEF Good, Consistent

\* The batch starts as the database itself, since memory matches it.
LEMMA BatchStart ==
  ASSUME IInv, up, call = "idle"
  PROVE  [db EXCEPT !.tip = tip, !.work = work] = db
<1>1. db = [hdr |-> db.hdr, idx |-> db.idx, mrk |-> db.mrk, tip |-> db.tip, work |-> db.work]
  BY DEF IInv, Good, Consistent
<1>2. tip = db.tip /\ work = db.work
  BY DEF IInv, MemoryMatchesDatabase
<1> QED BY <1>1, <1>2

\* The tip and the work of a good image that has a genesis are naturals.
LEMMA GoodWork ==
  ASSUME NEW x, Good(x), x.tip >= 0
  PROVE  x.work \in Nat /\ x.tip \in Nat
<1>1. x.tip \in Nat /\ x.hdr[x.tip] \in Blocks
  BY DEF Good, Consistent, Linked
<1> QED BY <1>1, HeaderAssumption DEF Good, Consistent, Weighed

\* An empty database satisfies the invariant.
LEMMA InitIInv == Init => IInv
<1> SUFFICES ASSUME Init PROVE IInv
  OBVIOUS
<1>1. up = FALSE /\ call = "idle" /\ todo = <<>> /\ target = 0 /\ tip = 0 /\ work = 0
  BY DEF Init
<1>2. Good(db) /\ Good(disk)
  BY EmptyGood DEF Init
<1>3. up \in BOOLEAN
  BY <1>1, Zenon
<1>4. TypeOK
  BY <1>1, <1>3 DEF TypeOK, Calls
<1> QED BY <1>1, <1>2, <1>4 DEF IInv, MemoryMatchesDatabase, InFlight

\* AddHeaders takes the lock with the database as its batch, whoever calls it.
LEMMA AddHeadersKeeps ==
  ASSUME IInv, NEW startHeight, NEW headers \in Seq(Blocks), AddHeaders(startHeight, headers)
  PROVE  IInv'
<1>1. batch' = db
  BY BatchStart DEF AddHeaders
<1>2. db.tip \in Int /\ db.tip >= 0
  BY DEF AddHeaders, IInv, Good, Consistent
<1> QED BY <1>1, <1>2
      DEF AddHeaders, IInv, TypeOK, Calls, MemoryMatchesDatabase, InFlight, Agree

\* Every step keeps the inductive invariant.
LEMMA StepIInv == IInv /\ [Next]_vars => IInv'
<1> SUFFICES ASSUME IInv, [Next]_vars PROVE IInv'
  OBVIOUS
<1> USE HeaderAssumption
<1>1. CASE UNCHANGED vars
  BY <1>1 DEF vars, IInv, TypeOK, MemoryMatchesDatabase, InFlight
<1>2. CASE NewStore
  <2>1. Good(db') /\ db'.tip >= 0
    BY <1>2, GenesisGood DEF NewStore, IInv, Good, Consistent
  <2>2. tip' \in Nat /\ work' \in Nat
    BY <1>2, <2>1, GoodWork DEF NewStore
  <2>3. call = "idle"
    BY <1>2 DEF NewStore, IInv, InFlight
  <2> QED BY <1>2, <2>1, <2>2, <2>3
        DEF NewStore, IInv, TypeOK, MemoryMatchesDatabase, InFlight
<1>3. ASSUME NEW startHeight \in Heights, NEW headers \in Batches,
             AddHeaders(startHeight, headers)
      PROVE  IInv'
  BY <1>3, AddHeadersKeeps
<1>4. CASE CheckHeader
  <2>1. Head(todo) \in Blocks /\ Tail(todo) \in Seq(Blocks)
    BY <1>4 DEF CheckHeader, IInv, TypeOK
  <2>2. Good(batch) /\ batch.tip >= 0 /\ Agree(batch, db) /\ batch.tip >= db.tip
    BY <1>4 DEF CheckHeader, IInv, InFlight
  <2>3. Good(batch') /\ batch'.tip = batch.tip + 1 /\ Agree(batch', batch)
    BY <1>4, <2>1, <2>2, PutGood DEF CheckHeader
  <2>4. batch.tip \in Int /\ db.tip \in Int
    BY <2>2 DEF IInv, Good, Consistent
  <2>5. Agree(batch', db)
    <3> SUFFICES ASSUME NEW h \in 0..batch'.tip, h <= db.tip
                 PROVE  batch'.hdr[h] = db.hdr[h]
      BY DEF Agree
    <3>1. h \in 0..batch.tip /\ h <= batch.tip
      BY <2>2, <2>3, <2>4
    <3> QED BY <2>2, <2>3, <3>1 DEF Agree
  <2>6. batch'.tip >= 0 /\ batch'.tip > db.tip
    BY <2>2, <2>3, <2>4
  <2>7. UNCHANGED <<db, disk, up, tip, work, call, target>> /\ todo' \in Seq(Blocks)
    BY <1>4, <2>1 DEF CheckHeader
  <2>8. up /\ call = "add"
    BY <1>4 DEF CheckHeader, IInv, InFlight
  <2>9. InFlight'
    BY <2>3, <2>4, <2>5, <2>6, <2>7, <2>8 DEF InFlight
  <2> QED BY <2>7, <2>9 DEF IInv, TypeOK, MemoryMatchesDatabase
<1>5. CASE RejectHeader
  BY <1>5 DEF RejectHeader, Unlock, IInv, TypeOK, Calls, MemoryMatchesDatabase, InFlight
<1>6. ASSUME NEW toHeight \in Heights, Rollback(toHeight)
      PROVE  IInv'
  <2>1. batch' = db /\ toHeight \in Nat
    BY <1>6, BatchStart DEF Rollback
  <2>2. db.tip \in Int /\ db.tip = tip
    BY <1>6 DEF Rollback, IInv, Good, Consistent, MemoryMatchesDatabase
  <2> QED BY <1>6, <2>1, <2>2
        DEF Rollback, IInv, TypeOK, Calls, MemoryMatchesDatabase, InFlight, Agree
<1>7. CASE RemoveHeader
  <2>1. /\ Good(batch) /\ Agree(batch, db) /\ batch.tip > target /\ batch.tip \in Int
        /\ target \in Nat /\ batch.tip <= db.tip /\ target < db.tip /\ db.tip \in Int
    BY <1>7 DEF RemoveHeader, IInv, InFlight, TypeOK, Good, Consistent
  <2>2. Good(batch') /\ batch'.tip = batch.tip - 1 /\ Agree(batch', batch)
    BY <1>7, <2>1, DeleteGood DEF RemoveHeader
  <2>3. Agree(batch', db)
    BY <2>1, <2>2 DEF Agree
  <2> QED BY <1>7, <2>1, <2>2, <2>3
        DEF RemoveHeader, IInv, TypeOK, Calls, MemoryMatchesDatabase, InFlight
<1>8. CASE WriteBatch
  <2>1. Good(batch) /\ batch.tip >= 0 /\ up /\ Agree(batch, batch)
    BY <1>8 DEF WriteBatch, BatchComplete, IInv, InFlight, Agree
  <2> QED BY <1>8, <2>1
        DEF WriteBatch, IInv, TypeOK, Calls, MemoryMatchesDatabase, InFlight
<1>9. CASE WriteFails
  BY <1>9 DEF WriteFails, BatchComplete, Unlock, IInv, TypeOK, Calls,
              MemoryMatchesDatabase, InFlight
<1>10. CASE Publish
  <2>1. Good(batch) /\ batch.tip >= 0 /\ batch = db
    BY <1>10 DEF Publish, IInv, InFlight
  <2>2. batch.work \in Nat /\ batch.tip \in Nat
    BY <2>1, GoodWork
  <2> QED BY <1>10, <2>1, <2>2
        DEF Publish, Unlock, IInv, TypeOK, Calls, MemoryMatchesDatabase, InFlight
<1>11. CASE Crash
  <2>1. up' = FALSE /\ call' = "idle" /\ todo' = <<>> /\ target' = 0 /\ tip' = 0 /\ work' = 0
    BY <1>11 DEF Crash, Stop, Unlock
  <2>2. Good(db') /\ Good(disk')
    BY <1>11 DEF Crash, IInv
  <2>3. up' \in BOOLEAN
    BY <2>1, Zenon
  <2>4. TypeOK'
    BY <2>1, <2>3 DEF TypeOK, Calls
  <2> QED BY <2>1, <2>2, <2>4 DEF IInv, MemoryMatchesDatabase, InFlight
<1>12. CASE PowerLoss
  <2>1. up' = FALSE /\ call' = "idle" /\ todo' = <<>> /\ target' = 0 /\ tip' = 0 /\ work' = 0
    BY <1>12 DEF PowerLoss, Stop, Unlock
  <2>2. Good(db') /\ Good(disk')
    BY <1>12 DEF PowerLoss, IInv
  <2>3. up' \in BOOLEAN
    BY <2>1, Zenon
  <2>4. TypeOK'
    BY <2>1, <2>3 DEF TypeOK, Calls
  <2> QED BY <2>1, <2>2, <2>4 DEF IInv, MemoryMatchesDatabase, InFlight
<1>13. CASE Flush
  BY <1>13 DEF Flush, IInv, TypeOK, Calls, MemoryMatchesDatabase, InFlight
<1> QED BY <1>1, <1>2, <1>3, <1>4, <1>5, <1>6, <1>7, <1>8, <1>9, <1>10, <1>11,
           <1>12, <1>13 DEF Next, Internal

\* The invariant holds in every state, between any two steps of a call too.
LEMMA Invariance == Spec => []IInv
BY InitIInv, StepIInv, PTL DEF Spec

\* Store.tip, Store.work and the state of an AddHeaders or Rollback call stay
\* within their types for every set of headers.
THEOREM TypeCorrect == Spec => []TypeOK
<1>1. IInv => TypeOK
  BY DEF IInv
<1> QED BY Invariance, <1>1, PTL

\* AddHeaders, Rollback, a crash or a power loss at any step leave three maps,
\* a tip and a work value that describe one linked chain with proof of work.
THEOREM StoreStaysConsistent == Spec => []StoreConsistent
<1>1. IInv => StoreConsistent
  BY DEF IInv, InFlight, StoreConsistent, Good
<1> QED BY Invariance, <1>1, PTL

\* Tip and Work never run ahead of, or behind, the database.
THEOREM MemoryStaysCurrent == Spec => []MemoryMatchesDatabase
<1>1. IInv => MemoryMatchesDatabase
  BY DEF IInv
<1> QED BY Invariance, <1>1, PTL

------------------------------------------------------------------------------
(* The database implements HeaderChain.                                      *)

\* A good image is a chain of the abstract specification.
LEMMA GoodIsChain ==
  ASSUME NEW x, Good(x)
  PROVE  Abstract!IsChain(x.hdr) /\ DOMAIN x.hdr = 0..x.tip /\ x.tip \in Int
<1>1. /\ x.tip \in Int /\ x.tip >= -1
      /\ DOMAIN x.hdr = 0..x.tip
      /\ \A h \in 0..x.tip : x.hdr[h] \in Blocks
      /\ x.tip >= 0 => x.hdr[0] = Genesis
      /\ \A h \in 1..x.tip : Prev[x.hdr[h]] = x.hdr[h - 1] /\ ValidPoW[x.hdr[h]]
  BY DEF Good, Consistent, Linked
<1>2. CASE x.tip = -1
  BY <1>1, <1>2 DEF Abstract!IsChain
<1>3. CASE x.tip # -1
  <2>1. 0 \in 0..x.tip
    BY <1>1, <1>3
  <2>2. \A h \in 0..x.tip : /\ h \in Nat
                            /\ h > 0 => h \in 1..x.tip /\ h - 1 \in 0..x.tip
    BY <1>1
  <2> QED BY <1>1, <2>1, <2>2 DEF Abstract!IsChain
<1> QED BY <1>1, <1>2, <1>3

\* A longer consistent image that agrees with a shorter one extends it.
LEMMA AgreePrefix ==
  ASSUME NEW x, NEW y, Good(x), Good(y), x.tip < y.tip, y.tip >= 0,
         \/ Agree(x, y) \/ Agree(y, x)
  PROVE  Abstract!IsProperPrefix(x.hdr, y.hdr)
<1>1. /\ DOMAIN x.hdr = 0..x.tip /\ DOMAIN y.hdr = 0..y.tip
      /\ x.tip \in Int /\ y.tip \in Int
  BY GoodIsChain
<1>2. y.tip \in 0..y.tip /\ y.tip \notin 0..x.tip
  BY <1>1
<1>3. \A h \in 0..x.tip : h \in 0..y.tip /\ h <= y.tip /\ h <= x.tip
  BY <1>1
<1>4. \A h \in 0..x.tip : x.hdr[h] = y.hdr[h]
  BY <1>3 DEF Agree
<1> QED BY <1>1, <1>2, <1>3, <1>4 DEF Abstract!IsProperPrefix

\* An empty database is the abstract store before it was created.
LEMMA RefinementInit == Init => Abstract!Init
BY DEF Init, Empty, Abstract!Init, Abstract!NoChain

\* A step of the store is a step of the abstract chain or leaves it alone.
LEMMA RefinementStep == IInv /\ [Next]_vars => [Abstract!Next]_(Abstract!vars)
<1> SUFFICES ASSUME IInv, [Next]_vars PROVE [Abstract!Next]_(Abstract!vars)
  OBVIOUS
<1>1. CASE UNCHANGED <<db, disk>>
  BY <1>1 DEF Abstract!vars
<1>2. CASE NewStore /\ db.tip = -1
  <2>1. DOMAIN db.hdr = 0..(-1) /\ 0..(-1) = {}
    BY <1>2, GoodIsChain DEF IInv
  <2>2. db.hdr = Abstract!NoChain
    <3>1. db.hdr = [h \in DOMAIN db.hdr |-> db.hdr[h]]
      BY DEF IInv, Good, Consistent, Linked
    <3> QED BY <2>1, <3>1 DEF Abstract!NoChain
  <2>3. db'.hdr = [h \in {0} |-> Genesis] /\ disk' = disk
    BY <1>2 DEF NewStore, GenesisImage
  <2> QED BY <2>2, <2>3 DEF Abstract!Next, Abstract!Create
<1>3. CASE WriteBatch
  <2>1. /\ Good(batch) /\ Good(db) /\ batch.tip >= 0 /\ db.tip >= 0 /\ Agree(batch, db)
        /\ db' = batch /\ disk' = disk
    BY <1>3 DEF WriteBatch, BatchComplete, IInv, InFlight
  <2>2. 0 \in DOMAIN db.hdr /\ 0 \in DOMAIN batch.hdr
    BY <2>1, GoodIsChain
  <2>3. db.hdr # Abstract!NoChain /\ batch.hdr # Abstract!NoChain
    BY <2>2 DEF Abstract!NoChain
  <2>4. CASE call = "add"
    <3>1. db.tip < batch.tip
      BY <1>3, <2>1, <2>4, GoodIsChain DEF WriteBatch, BatchComplete, IInv, InFlight
    <3>2. Abstract!IsProperPrefix(db.hdr, batch.hdr) /\ Abstract!IsChain(batch.hdr)
      BY <2>1, <3>1, AgreePrefix, GoodIsChain
    <3> QED BY <2>1, <2>3, <3>2 DEF Abstract!Next, Abstract!Extend
  <2>5. CASE call = "rollback"
    <3>1. batch.tip < db.tip
      BY <1>3, <2>5 DEF WriteBatch, BatchComplete, IInv, InFlight
    <3>2. Abstract!IsProperPrefix(batch.hdr, db.hdr) /\ Abstract!IsChain(batch.hdr)
      BY <2>1, <3>1, AgreePrefix, GoodIsChain
    <3> QED BY <2>1, <2>3, <3>2 DEF Abstract!Next, Abstract!Truncate
  <2> QED BY <1>3, <2>4, <2>5 DEF WriteBatch, BatchComplete
<1>4. CASE PowerLoss
  BY <1>4 DEF PowerLoss, Abstract!Next, Abstract!Lose
<1>5. CASE Flush
  BY <1>5 DEF Flush, Abstract!Next, Abstract!Persist
<1> QED
  BY <1>1, <1>2, <1>3, <1>4, <1>5
  DEF Next, Internal, vars, AddHeaders, Rollback, NewStore, CheckHeader, RejectHeader,
      RemoveHeader, WriteFails, Publish, Crash

\* What NewStore, AddHeaders and Rollback do to the database, crashes included,
\* is a behaviour of the abstract chain: created once, extended or cut at the
\* tip, and after a power loss back at a chain that had been persisted.
THEOREM StoreImplementsChain == Spec => RefinesChain
BY Invariance, RefinementInit, RefinementStep, PTL
   DEF Spec, RefinesChain, Abstract!Spec

------------------------------------------------------------------------------
(* HeaderSync: start-up with the nodes' answers.                             *)

\* Types of the start-up's variables.
SyncTypes ==
  /\ phase \in {"down", "dial", "connect", "request", "store", "serving"}
  /\ node \in Nat /\ node >= 1
  /\ round \in [tip : Nat, full : BOOLEAN]
  /\ stats \in [source : Nat, failed : BOOLEAN, succeeded : BOOLEAN]
  /\ peerHead \in [NodeSet -> Mined] /\ answered \in [NodeSet -> Mined]
  /\ stops \in Nat

\* Which phases hold the store's lock, and what the node's index names.
SyncPhases ==
  /\ up <=> phase # "down"
  /\ call # "rollback"
  /\ phase # "store" => call = "idle"
  /\ phase \in {"connect", "request", "store"} => node <= Len(Nodes)
  /\ stats.succeeded => phase = "serving"

\* The message being stored ends at the head its sender had when it answered,
\* unless the message was full; the tip tells whether it was stored.
Storing ==
  phase = "store" =>
    /\ call = "add" => batch.tip + Len(todo) = round.tip
    /\ call = "written" => batch.tip = round.tip
    /\ call # "idle" => tip < round.tip
    /\ Nodes[node] \notin Faulty /\ ~round.full =>
         LET b == answered[Nodes[node]]
         IN  /\ call = "add" /\ todo # <<>> => todo[Len(todo)] = b
             /\ (call = "add" /\ todo = <<>>) \/ call = "written" => batch.hdr[batch.tip] = b
             /\ call = "idle" /\ tip = round.tip => db.hdr[tip] = b

SyncInv == IInv /\ SyncTypes /\ SyncPhases /\ Storing /\ SyncReachesPeer

------------------------------------------------------------------------------
(* The locator: what the loop of buildLocator computes.                      *)

\* A set of naturals that is not empty has a least element.
LEMMA LeastNat ==
  ASSUME NEW T \in SUBSET Nat, T # {}
  PROVE  \E n \in T : \A m \in T : n <= m
<1> DEFINE R == OpToRel(<, Nat)
<1>1. IsWellFoundedOn(R, Nat)
  BY NatLessThanWellFounded
<1> HIDE DEF R
<1>2. PICK n \in T : \A m \in T : ~(<<m, n>> \in R)
  BY <1>1, WFMin
<1>3. \A m \in T : ~(m < n)
  BY <1>2 DEF R, OpToRel
<1> QED BY <1>3

\* f holds the loop states of the first n iterations from height t.
Walk(t, n, f) ==
  f = [i \in 0..n |-> IF i = 0 THEN <<t, 1>> ELSE LocatorStep(i - 1, f[i - 1])]

\* The loop has a state at every iteration.
LEMMA WalkExists ==
  ASSUME NEW t, NEW n \in Nat
  PROVE  \E f : Walk(t, n, f)
<1> DEFINE T == {k \in Nat : ~\E f : Walk(t, k, f)}
<1> SUFFICES ASSUME T # {} PROVE FALSE
  OBVIOUS
<1>1. PICK m \in T : \A k \in T : m <= k
  BY LeastNat
<1>2. CASE m = 0
  <2>1. Walk(t, 0, [i \in 0..0 |-> <<t, 1>>])
    BY DEF Walk
  <2> QED BY <1>2, <2>1
<1>3. CASE m # 0
  <2>1. m - 1 \in Nat /\ m - 1 \notin T
    BY <1>1, <1>3
  <2>2. PICK f : Walk(t, m - 1, f)
    BY <2>1
  <2> DEFINE g == [i \in 0..m |-> IF i = 0 THEN <<t, 1>> ELSE LocatorStep(i - 1, f[i - 1])]
  <2>3. \A i \in 0..(m - 1) : i \in 0..m /\ g[i] = f[i]
    <3>1. \A i \in 0..(m - 1) : i \in 0..m
      BY <2>1
    <3>2. \A i \in 0..(m - 1) : f[i] = IF i = 0 THEN <<t, 1>> ELSE LocatorStep(i - 1, f[i - 1])
      BY <2>2 DEF Walk
    <3> QED BY <3>1, <3>2
  <2>4. \A i \in 0..m : i # 0 => i - 1 \in 0..(m - 1)
    BY <2>1
  <2>5. Walk(t, m, g)
    BY <2>3, <2>4 DEF Walk
  <2> QED BY <2>5
<1> QED BY <1>2, <1>3

\* LocatorAt is that walk.
LEMMA LocatorWalk ==
  ASSUME NEW t
  PROVE  Walk(t, LocatorMax, LocatorAt(t))
<1>1. \E f : Walk(t, LocatorMax, f)
  BY WalkExists, SyncAssumption
<1>2. LocatorAt(t) = CHOOSE f : Walk(t, LocatorMax, f)
  BY DEF LocatorAt, Walk
<1> QED BY <1>1, <1>2

\* An iteration stays between genesis and the height it started from.
LEMMA LocatorStepBounds ==
  ASSUME NEW t \in Nat, NEW i \in Nat, NEW h \in 0..t, NEW step \in Nat \ {0}
  PROVE  /\ LocatorStep(i, <<h, step>>)[1] \in 0..t
         /\ LocatorStep(i, <<h, step>>)[2] \in Nat \ {0}
         /\ LocatorStep(i, <<h, step>>) =
              <<LocatorStep(i, <<h, step>>)[1], LocatorStep(i, <<h, step>>)[2]>>
<1> DEFINE s == IF i >= LocatorDense THEN 2 * step ELSE step
<1>1. s \in Nat \ {0}
  OBVIOUS
<1>2. LocatorStep(i, <<h, step>>) = <<IF h <= s THEN 0 ELSE h - s, s>>
  BY DEF LocatorStep
<1> HIDE DEF s
<1>3. (IF h <= s THEN 0 ELSE h - s) \in 0..t
  BY <1>1
<1> QED BY <1>1, <1>2, <1>3

\* The state of an iteration is a height up to t and a step of at least one.
WalkState(t, s) == s[1] \in 0..t /\ s[2] \in Nat \ {0} /\ s = <<s[1], s[2]>>

\* Every iteration is in such a state.
LEMMA LocatorBounds ==
  ASSUME NEW t \in Nat, NEW n \in 0..LocatorMax
  PROVE  WalkState(t, LocatorAt(t)[n])
<1> DEFINE T == {k \in 0..LocatorMax : ~WalkState(t, LocatorAt(t)[k])}
<1> SUFFICES ASSUME T # {} PROVE FALSE
  OBVIOUS
<1>0. T \in SUBSET Nat
  BY SyncAssumption
<1>1. PICK m \in T : \A k \in T : m <= k
  BY <1>0, LeastNat
<1>2. LocatorAt(t)[m] = IF m = 0 THEN <<t, 1>> ELSE LocatorStep(m - 1, LocatorAt(t)[m - 1])
  BY LocatorWalk DEF Walk
<1>3. CASE m = 0
  BY <1>2, <1>3 DEF WalkState
<1>4. CASE m # 0
  <2>1. m - 1 \in 0..LocatorMax /\ m - 1 \notin T /\ m - 1 \in Nat
    BY <1>1, <1>4, SyncAssumption
  <2>2. WalkState(t, LocatorAt(t)[m - 1])
    BY <2>1
  <2>3. PICK h \in 0..t, step \in Nat \ {0} : LocatorAt(t)[m - 1] = <<h, step>>
    BY <2>2 DEF WalkState
  <2>4. WalkState(t, LocatorStep(m - 1, <<h, step>>))
    BY <2>1, <2>3, LocatorStepBounds DEF WalkState
  <2> QED BY <1>2, <1>4, <2>3, <2>4
<1> QED BY <1>3, <1>4

\* The locator names the tip, the header below it and genesis, only heights the
\* store has, and no more than LocatorMax + 1 of them.
LEMMA LocatorFacts ==
  ASSUME NEW t \in Nat
  PROVE  /\ {t, 0} \subseteq buildLocator(t)
         /\ buildLocator(t) \subseteq 0..t
         /\ t > 0 => t - 1 \in buildLocator(t)
         /\ Cardinality(buildLocator(t)) <= LocatorMax + 1
<1> USE SyncAssumption
<1> DEFINE w == LocatorAt(t)
<1> DEFINE I == 0..(LocatorMax - 1)
<1> DEFINE f == [i \in I |-> w[i][1]]
<1> DEFINE S == {w[i][1] : i \in I}
<1>1. buildLocator(t) = S \cup {0}
  BY DEF buildLocator
<1>2. 0 \in I /\ 1 \in I /\ 0 \in 0..LocatorMax /\ 1 \in 0..LocatorMax
      /\ \A i \in I : i \in 0..LocatorMax
  OBVIOUS
<1>3. \A i \in I : w[i][1] \in 0..t
  BY <1>2, LocatorBounds DEF WalkState
<1>4. w[0] = <<t, 1>>
  BY <1>2, LocatorWalk DEF Walk
<1>5. w[1] = LocatorStep(0, <<t, 1>>)
  BY <1>2, <1>4, LocatorWalk DEF Walk
<1>6. t > 0 => w[1][1] = t - 1
  BY <1>5 DEF LocatorStep
<1>7. IsFiniteSet(I) /\ Cardinality(I) = LocatorMax
  <2>1. LocatorMax - 1 \in Int /\ ~(0 > LocatorMax - 1) /\ LocatorMax - 1 - 0 + 1 = LocatorMax
    OBVIOUS
  <2>2. /\ IsFiniteSet(0..(LocatorMax - 1))
        /\ Cardinality(0..(LocatorMax - 1)) =
             IF 0 > LocatorMax - 1 THEN 0 ELSE LocatorMax - 1 - 0 + 1
    BY <2>1, FS_Interval
  <2> QED BY <2>1, <2>2
<1>8. f \in Surjection(I, S)
  BY DEF Surjection
<1>9. IsFiniteSet(S) /\ Cardinality(S) <= LocatorMax
  <2> HIDE DEF f, S, I
  <2> QED BY <1>7, <1>8, FS_Surjection
<1>10. Cardinality(S) \in Nat
  BY <1>9, FS_CardinalityType
<1>11. Cardinality(S \cup {0}) <= LocatorMax + 1
  <2> HIDE DEF S
  <2>1. Cardinality(S \cup {0}) = IF 0 \in S THEN Cardinality(S) ELSE Cardinality(S) + 1
    BY <1>9, FS_AddElement
  <2> QED BY <1>9, <1>10, <2>1
<1>12. t \in S /\ (t > 0 => t - 1 \in S) /\ S \subseteq 0..t
  <2> HIDE DEF w
  <2> QED BY <1>2, <1>3, <1>4, <1>6
<1> HIDE DEF S
<1> QED BY <1>1, <1>11, <1>12

------------------------------------------------------------------------------
(* The chain below a header, and what an honest node answers.                *)

\* The headers up to distance n from genesis.
Shallow(n) == {b \in Mined : Depth[b] <= n}

\* f gives the chain of every header up to that distance.
Paths(n, f) ==
  f = [b \in Shallow(n) |-> IF b = Genesis THEN <<>> ELSE Append(f[Prev[b]], b)]

\* A mined header other than genesis is one above a mined header.
LEMMA MinedDepth ==
  ASSUME NEW b \in Mined
  PROVE  /\ Depth[b] \in Nat
         /\ b # Genesis => /\ Prev[b] \in Mined
                           /\ Depth[Prev[b]] \in Nat
                           /\ Depth[b] = Depth[Prev[b]] + 1
BY HeaderAssumption, SyncAssumption

\* There is such an f for every distance.
LEMMA PathsExist ==
  ASSUME NEW n \in Nat
  PROVE  \E f : Paths(n, f)
<1> DEFINE T == {k \in Nat : ~\E f : Paths(k, f)}
<1> SUFFICES ASSUME T # {} PROVE FALSE
  OBVIOUS
<1>1. PICK m \in T : \A k \in T : m <= k
  BY LeastNat
<1>2. CASE m = 0
  <2>1. \A b \in Shallow(0) : b = Genesis
    BY MinedDepth DEF Shallow
  <2>2. Paths(0, [b \in Shallow(0) |-> <<>>])
    BY <2>1 DEF Paths
  <2> QED BY <1>2, <2>2
<1>3. CASE m # 0
  <2>1. m - 1 \in Nat /\ m - 1 \notin T
    BY <1>1, <1>3
  <2>2. PICK f : Paths(m - 1, f)
    BY <2>1
  <2> DEFINE g == [b \in Shallow(m) |-> IF b = Genesis THEN <<>> ELSE Append(f[Prev[b]], b)]
  <2>3. \A b \in Shallow(m) : b # Genesis => Prev[b] \in Shallow(m - 1)
    BY <2>1, MinedDepth DEF Shallow
  <2>4. \A b \in Shallow(m - 1) : b \in Shallow(m)
    BY <2>1, MinedDepth DEF Shallow
  <2>5. \A b \in Shallow(m - 1) : g[b] = f[b]
    <3>1. \A b \in Shallow(m - 1) : f[b] = IF b = Genesis THEN <<>> ELSE Append(f[Prev[b]], b)
      BY <2>2 DEF Paths
    <3> QED BY <2>4, <3>1
  <2>6. Paths(m, g)
    BY <2>3, <2>5 DEF Paths
  <2> QED BY <2>6
<1> QED BY <1>2, <1>3

\* Two of them agree on every header both have.
LEMMA PathsAgree ==
  ASSUME NEW n \in Nat, NEW m \in Nat, NEW f, NEW g, Paths(n, f), Paths(m, g),
         NEW c \in Shallow(n), c \in Shallow(m)
  PROVE  f[c] = g[c]
<1> DEFINE D == {b \in Shallow(n) : b \in Shallow(m) /\ f[b] # g[b]}
<1> DEFINE T == {Depth[b] : b \in D}
<1> SUFFICES ASSUME D # {} PROVE FALSE
  OBVIOUS
<1>1. T \in SUBSET Nat /\ T # {}
  BY MinedDepth DEF Shallow
<1>2. PICK k \in T : \A j \in T : k <= j
  BY <1>1, LeastNat
<1>3. PICK b \in D : Depth[b] = k
  BY <1>2
<1>4. b # Genesis
  BY <1>3 DEF Paths
<1>5. /\ Prev[b] \in Shallow(n) /\ Prev[b] \in Shallow(m)
      /\ Depth[Prev[b]] < k /\ Depth[Prev[b]] \in Nat
  BY <1>3, <1>4, MinedDepth DEF Shallow
<1>6. Depth[Prev[b]] \notin T
  <2> HIDE DEF T
  <2> QED BY <1>1, <1>2, <1>5
<1>7. f[Prev[b]] = g[Prev[b]]
  BY <1>5, <1>6
<1>8. f[b] = Append(f[Prev[b]], b) /\ g[b] = Append(g[Prev[b]], b)
  BY <1>3, <1>4 DEF Paths
<1> QED BY <1>3, <1>7, <1>8

\* Path obeys its recursive definition, since the links are acyclic.
LEMMA PathDef ==
  Path = [b \in Mined |-> IF b = Genesis THEN <<>> ELSE Append(Path[Prev[b]], b)]
<1> DEFINE At(b) == CHOOSE f : Paths(Depth[b], f)
<1> DEFINE G == [b \in Mined |-> At(b)[b]]
<1>1. \A b \in Mined : Paths(Depth[b], At(b)) /\ b \in Shallow(Depth[b])
  BY MinedDepth, PathsExist DEF Shallow
<1>2. ASSUME NEW b \in Mined
      PROVE  G[b] = IF b = Genesis THEN <<>> ELSE Append(G[Prev[b]], b)
  <2> HIDE DEF At
  <2>1. At(b)[b] = IF b = Genesis THEN <<>> ELSE Append(At(b)[Prev[b]], b)
    BY <1>1 DEF Paths
  <2>2. CASE b = Genesis
    BY <2>1, <2>2
  <2>3. CASE b # Genesis
    <3>1. Prev[b] \in Mined /\ Prev[b] \in Shallow(Depth[b])
      BY <2>3, MinedDepth DEF Shallow
    <3>2. At(b)[Prev[b]] = At(Prev[b])[Prev[b]]
      BY <1>1, <3>1, MinedDepth, PathsAgree
    <3> QED BY <2>1, <2>3, <3>1, <3>2
  <2> QED BY <2>2, <2>3
<1> HIDE DEF At
<1>3. G = [b \in Mined |-> IF b = Genesis THEN <<>> ELSE Append(G[Prev[b]], b)]
  BY <1>2
<1> HIDE DEF G
<1> QED BY <1>3 DEF Path

\* A chain that ends at its header, and has none only for genesis.
EndsAt(b, s) == /\ s \in Seq(Mined)
                /\ s = <<>> => b = Genesis
                /\ s # <<>> => s[Len(s)] = b

\* The chain of a header ends there.
LEMMA PathEnds ==
  ASSUME NEW c \in Mined
  PROVE  EndsAt(c, Path[c])
<1> DEFINE D == {b \in Mined : ~EndsAt(b, Path[b])}
<1> DEFINE T == {Depth[b] : b \in D}
<1> SUFFICES ASSUME D # {} PROVE FALSE
  OBVIOUS
<1>1. T \in SUBSET Nat /\ T # {}
  BY MinedDepth
<1>2. PICK k \in T : \A j \in T : k <= j
  BY <1>1, LeastNat
<1>3. PICK b \in D : Depth[b] = k
  BY <1>2
<1>4. Path[b] = IF b = Genesis THEN <<>> ELSE Append(Path[Prev[b]], b)
  BY <1>3, PathDef
<1>5. CASE b = Genesis
  <2>1. EndsAt(Genesis, <<>>)
    BY DEF EndsAt
  <2> QED BY <1>3, <1>4, <1>5, <2>1
<1>6. CASE b # Genesis
  <2>1. Prev[b] \in Mined /\ Depth[Prev[b]] < k /\ Depth[Prev[b]] \in Nat
    BY <1>3, <1>6, MinedDepth
  <2>4. Depth[Prev[b]] \notin T
    <3> HIDE DEF T
    <3> QED BY <1>1, <1>2, <2>1
  <2>2. Path[Prev[b]] \in Seq(Mined)
    BY <2>1, <2>4 DEF EndsAt
  <2>3. EndsAt(b, Append(Path[Prev[b]], b))
    BY <1>3, <2>2 DEF EndsAt
  <2> QED BY <1>3, <1>4, <1>6, <2>3
<1> QED BY <1>5, <1>6

\* A set of naturals with a bound that is not empty has a greatest element.
LEMMA GreatestNat ==
  ASSUME NEW n \in Nat, NEW S \in SUBSET (0..n), S # {}
  PROVE  \E m \in S : \A k \in S : k <= m
<1> DEFINE T == {n - k : k \in S}
<1>1. T \in SUBSET Nat /\ T # {}
  <2>1. \A k \in S : n - k \in Nat
    OBVIOUS
  <2>2. PICK k \in S : TRUE
    OBVIOUS
  <2> QED BY <2>1, <2>2
<1>2. PICK j \in T : \A i \in T : j <= i
  BY <1>1, LeastNat
<1>3. PICK m \in S : j = n - m
  BY <1>2
<1>4. \A k \in S : n - m <= n - k
  BY <1>2, <1>3
<1> QED BY <1>4

\* What an honest node answers: headers that end at its head unless the message
\* is full, and nothing only when the store has its head.
LEMMA HonestReplyFacts ==
  ASSUME IInv, SyncTypes, up, call = "idle", NEW n \in NodeSet
  PROVE  LET r == HonestReply(n)
             b == peerHead[n]
         IN  /\ r \in Seq(Blocks)
             /\ r # <<>> /\ Len(r) < MaxHeaders => r[Len(r)] = b
             /\ r = <<>> => b \in DOMAIN db.idx /\ db.idx[b] <= tip
<1> DEFINE b == peerHead[n]
<1> DEFINE path == Path[b]
<1> DEFINE S == {h \in buildLocator(tip) : OnPeerChain(n, h)}
<1>1. /\ tip \in Nat /\ db.tip = tip /\ b \in Mined /\ Good(db)
      /\ MaxHeaders \in Nat \ {0} /\ Mined \subseteq Blocks
  BY SyncAssumption DEF IInv, TypeOK, MemoryMatchesDatabase, SyncTypes
<1>2. EndsAt(b, path)
  BY <1>1, PathEnds
<1>3. /\ db.hdr[0] = Genesis
      /\ \A h \in 0..tip : db.hdr[h] \in DOMAIN db.idx /\ db.idx[db.hdr[h]] = h
  BY <1>1 DEF Good, Consistent, Linked, Indexed
<1>4. S \subseteq 0..tip /\ 0 \in S
  BY <1>1, LocatorFacts DEF OnPeerChain
<1>5. \E h \in S : \A k \in S : k <= h
  BY <1>1, <1>4, GreatestNat
<1>6. PICK common \in S :
        HonestReply(n) = SubSeq(path, common + 1, Min({common + MaxHeaders, Len(path)}))
  <2> DEFINE P(h) == OnPeerChain(n, h) /\ \A k \in buildLocator(tip) : OnPeerChain(n, k) => k <= h
  <2> DEFINE c == CHOOSE h \in buildLocator(tip) : P(h)
  <2>1. \E h \in buildLocator(tip) : P(h)
    BY <1>5
  <2>2. c \in buildLocator(tip) /\ P(c)
    <3> HIDE DEF P
    <3> QED BY <2>1
  <2>3. HonestReply(n) = SubSeq(path, c + 1, Min({c + MaxHeaders, Len(path)}))
    BY DEF HonestReply
  <2> QED BY <2>2, <2>3
<1>7. /\ common \in 0..tip
      /\ common = 0 \/ (common <= Len(path) /\ path[common] = db.hdr[common])
  BY <1>4, <1>6 DEF OnPeerChain
<1> HIDE DEF path, S
<1>8. path \in Seq(Mined) /\ path \in Seq(Blocks) /\ Len(path) \in Nat
  BY <1>1, <1>2 DEF EndsAt
<1> DEFINE m == Min({common + MaxHeaders, Len(path)})
<1>9. m \in {common + MaxHeaders, Len(path)} /\ m <= common + MaxHeaders /\ m <= Len(path)
  <2>1. common + MaxHeaders \in Int /\ Len(path) \in Int
    BY <1>1, <1>7, <1>8
  <2>2. \E x \in {common + MaxHeaders, Len(path)} :
          \A y \in {common + MaxHeaders, Len(path)} : x <= y
    BY <2>1
  <2> QED BY <2>2 DEF Min
<1>10. common <= Len(path)
  BY <1>7, <1>8
<1> DEFINE r == HonestReply(n)
<1>11. /\ common \in Nat /\ m \in Int /\ m >= common
       /\ \A i \in (common + 1)..m : i \in 1..Len(path)
  <2> HIDE DEF m
  <2>1. common \in Nat /\ m \in Int /\ m >= common
    BY <1>1, <1>7, <1>8, <1>9, <1>10
  <2> QED BY <1>8, <1>9, <2>1
<1>12. /\ r \in Seq(Blocks) /\ Len(r) = m - common
       /\ \A i \in 1..(m - common) : r[i] = path[common + i]
  <2> HIDE DEF m
  <2>1. r = SubSeq(path, common + 1, m)
    BY <1>6 DEF m
  <2>2. SubSeq(path, common + 1, m) \in Seq(Blocks)
    BY <1>8, <1>9, <1>11
  <2>3. Len(SubSeq(path, common + 1, m)) = m - common
    BY <1>8, <1>9, <1>11
  <2>4. \A i \in 1..(m - common) : SubSeq(path, common + 1, m)[i] = path[common + i]
    BY <1>8, <1>9, <1>11
  <2> QED BY <2>1, <2>2, <2>3, <2>4
<1> HIDE DEF r
<1>13. ASSUME r # <<>>, Len(r) < MaxHeaders
       PROVE  r[Len(r)] = b
  <2>1. Len(r) \in Nat /\ Len(r) # 0
    BY <1>12, <1>13
  <2>2. m = Len(path) /\ m - common \in 1..(m - common)
    BY <1>1, <1>9, <1>11, <1>12, <1>13, <2>1
  <2>3. common + (m - common) = Len(path) /\ path # <<>>
    BY <1>8, <1>11, <2>2
  <2>4. r[Len(r)] = path[common + (m - common)]
    <3> HIDE DEF m
    <3> QED BY <1>12, <2>2
  <2> QED BY <1>2, <2>3, <2>4 DEF EndsAt, path
<1>14. ASSUME r = <<>>
       PROVE  b \in DOMAIN db.idx /\ db.idx[b] <= tip
  <2>1. m = common
    BY <1>11, <1>12, <1>14
  <2>2. common = Len(path)
    BY <1>1, <1>9, <1>11, <2>1
  <2>3. b = db.hdr[common]
    <3>1. CASE common = 0
      <4>1. path = <<>>
        BY <1>8, <2>2, <3>1, EmptySeq
      <4> QED BY <1>2, <1>3, <3>1, <4>1 DEF EndsAt, path
    <3>2. CASE common # 0
      <4>1. path # <<>>
        BY <2>2, <3>2
      <4> QED BY <1>2, <1>7, <2>2, <3>2, <4>1 DEF EndsAt, path
    <3> QED BY <3>1, <3>2
  <2> QED BY <1>1, <1>3, <1>7, <2>3
<1> QED BY <1>12, <1>13, <1>14 DEF r

------------------------------------------------------------------------------
(* The start-up: what a success means.                                       *)

\* The node that is asked is one of the configured ones.
LEMMA NodeNamed ==
  ASSUME SyncInv, phase \in {"request", "store"}
  PROVE  Nodes[node] \in NodeSet /\ node \in 1..Len(Nodes)
<1>1. node \in 1..Len(Nodes)
  BY SyncAssumption DEF SyncInv, SyncTypes, SyncPhases
<1> QED BY <1>1, SyncAssumption DEF NodeSet

\* An empty store and no start-up yet satisfy the invariant.
LEMMA SyncInitInv == SyncInit => SyncInv
<1> SUFFICES ASSUME SyncInit PROVE SyncInv
  OBVIOUS
<1>1. IInv
  BY InitIInv DEF SyncInit
<1>2. SyncTypes
  BY SyncAssumption DEF SyncInit, SyncTypes, NoRound, NoStats
<1>3. SyncPhases /\ Storing /\ SyncReachesPeer
  BY DEF SyncInit, Init, SyncPhases, Storing, SyncReachesPeer, NoStats
<1> QED BY <1>1, <1>2, <1>3 DEF SyncInv

\* What a step of the store changes while a message is being stored.
LEMMA StoreStepKeeps ==
  ASSUME SyncInv, StoreStep
  PROVE  SyncInv'
<1> USE DEF SyncInv
<1>1. phase = "store" /\ UNCHANGED syncVars /\ (call # "idle" => up /\ Good(batch) /\ batch.tip >= 0)
  BY DEF StoreStep, IInv, InFlight
<1>2. IInv'
  <2>1. [Next]_vars
    BY DEF StoreStep, Next, Internal
  <2> QED BY <2>1, StepIInv
<1>3. SyncTypes'
  BY <1>1 DEF SyncTypes, syncVars
<1>4. SyncReachesPeer'
  BY <1>1 DEF SyncReachesPeer, syncVars
<1>5. SyncPhases' /\ Storing'
  <2>0. /\ phase' = phase /\ node' = node /\ round' = round /\ stats' = stats
        /\ answered' = answered
    BY <1>1 DEF syncVars
  <2>t. /\ tip \in Nat /\ round.tip \in Nat /\ todo \in Seq(Blocks)
        /\ call \in Calls
    BY DEF IInv, TypeOK, SyncTypes
  <2>1. CASE CheckHeader
    <3>1. /\ call = "add" /\ call' = "add" /\ up' = up /\ tip' = tip /\ todo # <<>>
          /\ todo' = Tail(todo) /\ batch' = PutHeader(batch, batch.tip + 1, Head(todo))
      BY <2>1 DEF CheckHeader
    <3>2. batch'.tip = batch.tip + 1 /\ batch'.hdr[batch'.tip] = Head(todo) /\ batch.tip \in Nat
      <4>1. batch.tip \in Nat
        BY <1>1, <3>1 DEF Good, Consistent
      <4> QED BY <3>1, <4>1 DEF PutHeader, Put
    <3>3. /\ Len(todo') = Len(todo) - 1 /\ Len(todo) \in Nat /\ Len(todo) >= 1
          /\ todo' # <<>> => todo'[Len(todo')] = todo[Len(todo)]
          /\ todo' = <<>> => todo[Len(todo)] = Head(todo)
      BY <2>t, <3>1
    <3> QED BY <1>1, <2>0, <2>t, <3>1, <3>2, <3>3 DEF SyncPhases, Storing
  <2>2. CASE RejectHeader
    BY <1>1, <2>0, <2>t, <2>2 DEF RejectHeader, Unlock, SyncPhases, Storing
  <2>3. CASE WriteBatch
    <3>1. call = "add" /\ todo = <<>> /\ call' = "written"
          /\ UNCHANGED <<up, tip, batch, todo>>
      BY <2>3 DEF WriteBatch, BatchComplete, SyncPhases
    <3>2. batch.tip = round.tip /\ tip < round.tip
      BY <1>1, <2>t, <3>1 DEF Storing, Good, Consistent
    <3> QED BY <1>1, <2>0, <3>1, <3>2 DEF SyncPhases, Storing
  <2>4. CASE WriteFails
    <3>1. call' = "idle" /\ call # "idle" /\ tip' = tip /\ up' = up
      BY <2>4 DEF WriteFails, BatchComplete, Unlock
    <3> QED BY <1>1, <2>0, <2>t, <3>1 DEF SyncPhases, Storing
  <2>5. CASE Publish
    <3>1. call = "written" /\ call' = "idle" /\ tip' = batch.tip /\ UNCHANGED <<db, up>>
          /\ batch = db
      BY <2>5 DEF Publish, Unlock, IInv, InFlight
    <3> QED BY <1>1, <2>0, <3>1 DEF SyncPhases, Storing
  <2> QED BY <2>1, <2>2, <2>3, <2>4, <2>5 DEF StoreStep
<1> QED BY <1>2, <1>3, <1>4, <1>5

\* The answer of a node is taken: nothing is left to ask for, or AddHeaders has it.
LEMMA ReadHeadersKeeps ==
  ASSUME SyncInv, ReadHeaders
  PROVE  SyncInv'
<1> USE DEF SyncInv
<1>1. phase = "request" /\ call = "idle" /\ up
  BY DEF ReadHeaders, SyncPhases
<1>2. Nodes[node] \in NodeSet /\ node \in 1..Len(Nodes) /\ Len(Nodes) \in Nat
  BY <1>1, NodeNamed, SyncAssumption
<1> DEFINE n == Nodes[node]
<1>3. PICK headers \in Replies(n) :
        \/ /\ headers = <<>> /\ Succeed /\ UNCHANGED vars
        \/ /\ AddHeaders(tip + 1, headers)
           /\ round' = [tip |-> tip + Len(headers), full |-> Len(headers) >= MaxHeaders]
           /\ phase' = "store" /\ UNCHANGED <<node, stats>>
  BY DEF ReadHeaders
<1>4. /\ answered' = [answered EXCEPT ![n] = peerHead[n]]
      /\ UNCHANGED <<peerHead, stops>>
  BY DEF ReadHeaders
<1>5. answered'[n] = peerHead[n] /\ answered' \in [NodeSet -> Mined]
  BY <1>2, <1>4 DEF SyncTypes
<1>6. /\ headers \in Seq(Blocks)
      /\ n \notin Faulty => headers = HonestReply(n)
  <2>1. HonestReply(n) \in Seq(Blocks)
    BY <1>1, <1>2, HonestReplyFacts
  <2> QED BY <1>3, <2>1, HeaderAssumption DEF Replies
<1>7. n \notin Faulty =>
        /\ headers # <<>> /\ Len(headers) < MaxHeaders => headers[Len(headers)] = peerHead[n]
        /\ headers = <<>> => peerHead[n] \in DOMAIN db.idx /\ db.idx[peerHead[n]] <= tip
  BY <1>1, <1>2, <1>6, HonestReplyFacts
<1> HIDE DEF n
<1>t. tip \in Nat /\ Len(headers) \in Nat /\ MaxHeaders \in Nat
  BY <1>6, SyncAssumption DEF IInv, TypeOK
<1>8. CASE headers = <<>> /\ Succeed /\ UNCHANGED vars
  <2>1. /\ phase' = "serving" /\ round' = NoRound /\ node' = node
        /\ stats' = [source |-> node, failed |-> FALSE, succeeded |-> TRUE]
    BY <1>8 DEF Succeed
  <2>2. IInv'
    BY <1>8, StepIInv
  <2>3. SyncTypes'
    BY <1>2, <1>4, <1>5, <2>1 DEF SyncTypes, NoRound
  <2>4. up' = up /\ call' = call /\ tip' = tip /\ db' = db
    BY <1>8 DEF vars
  <2>5. SyncPhases' /\ Storing'
    BY <1>1, <2>1, <2>4 DEF SyncPhases, Storing
  <2>6. stats'.source = node
    BY <2>1
  <2>7. SyncReachesPeer'
    BY <1>5, <1>7, <1>8, <2>1, <2>4, <2>6 DEF SyncReachesPeer, n
  <2> QED BY <2>2, <2>3, <2>5, <2>7
<1>9. CASE /\ AddHeaders(tip + 1, headers)
           /\ round' = [tip |-> tip + Len(headers), full |-> Len(headers) >= MaxHeaders]
           /\ phase' = "store" /\ UNCHANGED <<node, stats>>
  <2>1. IInv'
    BY <1>6, <1>9, AddHeadersKeeps
  <2>2. /\ headers # <<>> /\ call' = "add" /\ todo' = headers
        /\ batch' = db /\ UNCHANGED <<db, up, tip>> /\ db.tip = tip
    BY <1>1, <1>9, BatchStart DEF AddHeaders, IInv, MemoryMatchesDatabase
  <2>3. round'.tip = tip + Len(headers) /\ round'.full = (Len(headers) >= MaxHeaders)
    BY <1>9
  <2>4. SyncTypes'
    <3>1. (Len(headers) >= MaxHeaders) \in BOOLEAN
      OBVIOUS
    <3> QED BY <1>4, <1>5, <1>9, <1>t, <3>1 DEF SyncTypes
  <2>5. SyncPhases' /\ SyncReachesPeer'
    BY <1>1, <1>2, <1>9, <2>2 DEF SyncPhases, SyncReachesPeer
  <2>6. Len(headers) > 0
    BY <1>6, <2>2
  <2>7. Storing'
    <3>1. batch'.tip + Len(todo') = round'.tip /\ tip' < round'.tip
      BY <1>t, <2>2, <2>3, <2>6
    <3>2. Nodes[node'] = n /\ answered'[Nodes[node']] = peerHead[n]
      BY <1>5, <1>9 DEF n
    <3>3. n \notin Faulty /\ ~round'.full => todo'[Len(todo')] = peerHead[n]
      <4>1. ~round'.full => ~(Len(headers) >= MaxHeaders)
        BY <2>3, Zenon
      <4>2. ~(Len(headers) >= MaxHeaders) => Len(headers) < MaxHeaders
        BY <1>t
      <4> QED BY <1>7, <2>2, <4>1, <4>2
    <3> QED BY <2>2, <3>1, <3>2, <3>3 DEF Storing
  <2> QED BY <2>1, <2>4, <2>5, <2>7
<1> QED BY <1>3, <1>8, <1>9

\* recordFailure keeps the types and turns no failure into a success.
LEMMA FailTypes ==
  ASSUME SyncTypes, Fail, UNCHANGED <<peerHead, answered, stops>>
  PROVE  SyncTypes' /\ stats'.succeeded = stats.succeeded /\ phase' = "dial"
<1>1. /\ phase' = "dial" /\ node' = node + 1 /\ round' = NoRound
      /\ stats' = [stats EXCEPT !.source = node, !.failed = TRUE]
  BY DEF Fail
<1>2. node' \in Nat /\ node' >= 1
  BY <1>1 DEF SyncTypes
<1>3. /\ stats' \in [source : Nat, failed : BOOLEAN, succeeded : BOOLEAN]
      /\ stats'.succeeded = stats.succeeded
  <2> DEFINE N == Nat
  <2>1. stats \in [source : N, failed : BOOLEAN, succeeded : BOOLEAN] /\ node \in N
    BY DEF SyncTypes
  <2> HIDE DEF N
  <2>2. /\ stats' \in [source : N, failed : BOOLEAN, succeeded : BOOLEAN]
        /\ stats'.succeeded = stats.succeeded
    BY <1>1, <2>1
  <2> QED BY <2>2 DEF N
<1>4. round' \in [tip : Nat, full : BOOLEAN]
  BY <1>1 DEF NoRound
<1> QED BY <1>1, <1>2, <1>3, <1>4 DEF SyncTypes

\* AddHeaders has returned.
LEMMA StoredKeeps ==
  ASSUME SyncInv, Stored
  PROVE  SyncInv'
<1> USE DEF SyncInv
<1>1. phase = "store" /\ call = "idle" /\ up /\ UNCHANGED <<vars, peerHead, answered, stops>>
  BY DEF Stored, SyncPhases
<1>2. Nodes[node] \in NodeSet /\ node \in 1..Len(Nodes) /\ Len(Nodes) \in Nat
  BY <1>1, NodeNamed, SyncAssumption
<1>3. IInv'
  BY <1>1, StepIInv
<1>4. up' = up /\ call' = call /\ tip' = tip /\ db' = db /\ answered' = answered
  BY <1>1 DEF vars
<1>5. CASE Fail
  <2>1. SyncTypes' /\ stats'.succeeded = stats.succeeded /\ phase' = "dial"
    BY <1>1, <1>5, FailTypes
  <2> QED BY <1>1, <1>3, <1>4, <2>1 DEF SyncPhases, Storing, SyncReachesPeer
<1>6. CASE phase' = "request" /\ round' = NoRound /\ UNCHANGED <<node, stats>>
  <2>1. SyncTypes'
    BY <1>1, <1>6 DEF SyncTypes, NoRound
  <2> QED BY <1>1, <1>2, <1>3, <1>4, <1>6, <2>1 DEF SyncPhases, Storing, SyncReachesPeer
<1>7. CASE tip = round.tip /\ ~round.full /\ Succeed
  <2>1. /\ phase' = "serving" /\ round' = NoRound /\ node' = node
        /\ stats' = [source |-> node, failed |-> FALSE, succeeded |-> TRUE]
    BY <1>7 DEF Succeed
  <2>2. SyncTypes'
    BY <1>1, <1>2, <2>1 DEF SyncTypes, NoRound
  <2>3. stats'.source = node /\ tip \in Nat /\ db.tip = tip
    BY <1>1, <2>1 DEF IInv, TypeOK, MemoryMatchesDatabase
  <2>4. db.hdr[tip] \in DOMAIN db.idx /\ db.idx[db.hdr[tip]] = tip
    BY <2>3 DEF IInv, Good, Consistent, Indexed
  <2>5. Nodes[node] \notin Faulty => db.hdr[tip] = answered[Nodes[node]]
    BY <1>1, <1>7 DEF Storing
  <2>6. SyncReachesPeer'
    BY <1>4, <2>1, <2>3, <2>4, <2>5 DEF SyncReachesPeer
  <2> QED BY <1>1, <1>3, <1>4, <2>1, <2>2, <2>6 DEF SyncPhases, Storing
<1> QED BY <1>5, <1>6, <1>7 DEF Stored

\* Every step of the start-up and of its surroundings keeps the invariant.
LEMMA SyncStep == SyncInv /\ [SyncNext]_allVars => SyncInv'
<1> SUFFICES ASSUME SyncInv, [SyncNext]_allVars PROVE SyncInv'
  OBVIOUS
<1> USE DEF SyncInv
<1>0. CASE UNCHANGED allVars
  <2>1. UNCHANGED vars /\ UNCHANGED syncVars
    BY <1>0 DEF allVars
  <2>2. IInv'
    BY <2>1, StepIInv
  <2> QED BY <2>1, <2>2
        DEF vars, syncVars, SyncTypes, SyncPhases, Storing, SyncReachesPeer
<1>1. CASE Start
  <2>1. IInv'
    <3>1. [Next]_vars
      BY <1>1 DEF Start, Next, Internal
    <3> QED BY <3>1, StepIInv
  <2>2. SyncTypes'
    BY <1>1 DEF Start, SyncTypes, NoRound, NoStats
  <2>3. /\ phase = "down" /\ phase' = "dial" /\ up' /\ call' = call /\ stats' = NoStats
    BY <1>1 DEF Start, NewStore
  <2> QED BY <2>1, <2>2, <2>3 DEF SyncPhases, Storing, SyncReachesPeer, NoStats
<1>2. CASE Dial
  <2>1. IInv' /\ up' = up /\ call' = call
    <3>1. [Next]_vars
      BY <1>2 DEF Dial
    <3> QED BY <1>2, <3>1, StepIInv DEF Dial, vars
  <2>2. /\ phase = "dial" /\ phase' = "connect" /\ node <= Len(Nodes)
        /\ stats' = [stats EXCEPT !.source = node, !.failed = FALSE]
        /\ UNCHANGED <<node, round, peerHead, answered, stops>>
    BY <1>2 DEF Dial
  <2>3. /\ stats' \in [source : Nat, failed : BOOLEAN, succeeded : BOOLEAN]
        /\ stats'.succeeded = stats.succeeded
    <3> DEFINE N == Nat
    <3>1. stats \in [source : N, failed : BOOLEAN, succeeded : BOOLEAN] /\ node \in N
      BY DEF SyncTypes
    <3> HIDE DEF N
    <3>2. /\ stats' \in [source : N, failed : BOOLEAN, succeeded : BOOLEAN]
          /\ stats'.succeeded = stats.succeeded
      BY <2>2, <3>1
    <3> QED BY <3>2 DEF N
  <2>4. SyncTypes'
    BY <2>2, <2>3 DEF SyncTypes
  <2> QED BY <2>1, <2>2, <2>3, <2>4 DEF SyncPhases, Storing, SyncReachesPeer
<1>3. CASE DialFails \/ ReadFails
  <2>1. UNCHANGED <<vars, peerHead, answered, stops>> /\ Fail /\ phase \in {"connect", "request"}
    BY <1>3 DEF DialFails, ReadFails
  <2>2. IInv' /\ up' = up /\ call' = call
    BY <2>1, StepIInv DEF vars
  <2>3. SyncTypes' /\ stats'.succeeded = stats.succeeded /\ phase' = "dial"
    BY <2>1, FailTypes
  <2> QED BY <2>1, <2>2, <2>3 DEF SyncPhases, Storing, SyncReachesPeer
<1>8. CASE Handshake
  <2>1. UNCHANGED vars /\ UNCHANGED <<node, round, stats, peerHead, answered, stops>>
        /\ phase = "connect" /\ phase' = "request"
    BY <1>8 DEF Handshake
  <2>2. IInv' /\ up' = up /\ call' = call
    BY <2>1, StepIInv DEF vars
  <2>3. SyncTypes'
    BY <2>1 DEF SyncTypes
  <2> QED BY <2>1, <2>2, <2>3 DEF SyncPhases, Storing, SyncReachesPeer
<1>4. CASE GiveUp
  <2>1. UNCHANGED vars /\ UNCHANGED <<node, round, stats, peerHead, answered, stops>>
        /\ phase = "dial" /\ phase' = "serving"
    BY <1>4 DEF GiveUp
  <2>2. IInv' /\ up' = up /\ call' = call
    BY <2>1, StepIInv DEF vars
  <2>3. SyncTypes'
    BY <2>1 DEF SyncTypes
  <2>4. ~stats.succeeded
    BY <2>1 DEF SyncPhases
  <2> QED BY <2>1, <2>2, <2>3, <2>4 DEF SyncPhases, Storing, SyncReachesPeer
<1>5. CASE StopNode
  <2>1. /\ Crash \/ PowerLoss
        /\ stops' = stops + 1
        /\ phase' = "down" /\ node' = 1 /\ round' = NoRound /\ stats' = NoStats
        /\ UNCHANGED <<peerHead, answered>>
    BY <1>5 DEF StopNode
  <2>2. IInv'
    <3>1. [Next]_vars
      BY <2>1 DEF Next, Internal
    <3> QED BY <3>1, StepIInv
  <2>3. ~up' /\ call' = "idle"
    BY <2>1 DEF Crash, PowerLoss, Stop, Unlock
  <2>4. SyncTypes'
    BY <2>1 DEF SyncTypes, NoRound, NoStats
  <2> QED BY <2>1, <2>2, <2>3, <2>4 DEF SyncPhases, Storing, SyncReachesPeer, NoStats
<1>6. CASE FlushDisk
  <2>1. IInv'
    <3>1. [Next]_vars
      BY <1>6 DEF FlushDisk, Next, Internal
    <3> QED BY <3>1, StepIInv
  <2>2. UNCHANGED syncVars /\ UNCHANGED <<db, up, tip, call, batch, todo>>
    BY <1>6 DEF FlushDisk, Flush
  <2> QED BY <2>1, <2>2 DEF syncVars, SyncTypes, SyncPhases, Storing, SyncReachesPeer
<1>7. CASE Mine
  <2>1. PICK n \in NodeSet, b \in Mined : peerHead' = [peerHead EXCEPT ![n] = b]
    BY <1>7 DEF Mine
  <2>2. UNCHANGED vars /\ UNCHANGED <<phase, node, round, stats, answered, stops>>
    BY <1>7 DEF Mine
  <2>3. IInv'
    BY <2>2, StepIInv
  <2>4. SyncTypes'
    BY <2>1, <2>2 DEF SyncTypes
  <2> QED BY <2>2, <2>3, <2>4 DEF vars, SyncPhases, Storing, SyncReachesPeer
<1> QED BY <1>0, <1>1, <1>2, <1>3, <1>4, <1>5, <1>6, <1>7, <1>8,
           StoreStepKeeps, ReadHeadersKeeps, StoredKeeps DEF SyncNext, Progress, Answer

\* The invariant of the start-up holds in every state.
LEMMA SyncInvariance == SyncSpec => []SyncInv
BY SyncInitInv, SyncStep, PTL DEF SyncSpec

\* SyncFrom that returned without an error has stored the chain an honest node
\* had when it last answered, for any chains, message size, node list and
\* answers of the other nodes.
THEOREM SyncStoresPeerChain == SyncSpec => []SyncReachesPeer
<1>1. SyncInv => SyncReachesPeer
  BY DEF SyncInv
<1> QED BY SyncInvariance, <1>1, PTL

\* For every tip buildLocator, which clamps its doubling steps at genesis, names
\* the tip, the header below it and genesis, and only stored heights.
THEOREM LocatorStaysUsable == SyncSpec => []LocatorUsable
<1>1. SyncInv => LocatorUsable
  <2> SUFFICES ASSUME SyncInv, up, call = "idle"
               PROVE  /\ {tip, 0} \subseteq buildLocator(tip)
                      /\ buildLocator(tip) \subseteq DOMAIN db.hdr
                      /\ tip > 0 => tip - 1 \in buildLocator(tip)
                      /\ Cardinality(buildLocator(tip)) <= LocatorMax + 1
    BY DEF LocatorUsable
  <2>1. tip \in Nat /\ db.tip = tip /\ Good(db)
    BY DEF SyncInv, IInv, TypeOK, MemoryMatchesDatabase
  <2>2. DOMAIN db.hdr = 0..tip
    BY <2>1, GoodIsChain
  <2> QED BY <2>1, <2>2, LocatorFacts
<1> QED BY SyncInvariance, <1>1, PTL

\* The start-up keeps the store one consistent chain, with whatever the nodes
\* answer and wherever the process stops.
THEOREM SyncStaysConsistent == SyncSpec => []StoreConsistent
<1>1. SyncInv => StoreConsistent
  BY DEF SyncInv, IInv, InFlight, StoreConsistent, Good
<1> QED BY SyncInvariance, <1>1, PTL

\* AddHeaders extends the chain it found and never replaces a header of it: a
\* running node keeps its headers, and does not follow a reorganisation.
THEOREM SyncKeepsHeaders == SyncSpec => SyncNeverShortens
<1> DEFINE Keeps == up /\ up' => /\ db'.tip >= db.tip
                                 /\ \A h \in 0..db.tip : db'.hdr[h] = db.hdr[h]
<1>1. SyncInv /\ [SyncNext]_allVars => [Keeps]_allVars
  <2> SUFFICES ASSUME SyncInv, SyncNext, up, up'
               PROVE  /\ db'.tip >= db.tip
                      /\ \A h \in 0..db.tip : db'.hdr[h] = db.hdr[h]
    OBVIOUS
  <2>1. db.tip \in Int
    BY DEF SyncInv, IInv, Good, Consistent
  <2>2. CASE db' = db
    BY <2>1, <2>2
  <2>3. CASE WriteBatch
    <3>1. db' = batch /\ call = "add" /\ todo = <<>>
      BY <2>3 DEF WriteBatch, BatchComplete, SyncInv, SyncPhases
    <3>2. Good(batch) /\ Agree(batch, db) /\ batch.tip > db.tip
      BY <3>1 DEF SyncInv, IInv, InFlight
    <3>3. batch.tip \in Int
      BY <3>2 DEF Good, Consistent
    <3>4. \A h \in 0..db.tip : h \in 0..batch.tip /\ h <= db.tip
      BY <2>1, <3>2, <3>3
    <3> QED BY <2>1, <3>1, <3>2, <3>3, <3>4 DEF Agree
  <2>4. db' = db \/ WriteBatch
    BY DEF SyncNext, Progress, Answer, Start, NewStore, Dial, Handshake, DialFails, GiveUp, ReadHeaders,
           AddHeaders, ReadFails, StoreStep, CheckHeader, RejectHeader, WriteFails, Publish,
           Stored, StopNode, Crash, PowerLoss, Stop, FlushDisk, Flush, Mine, vars
  <2> QED BY <2>2, <2>3, <2>4
<1> QED BY SyncInvariance, <1>1, PTL DEF SyncSpec, SyncNeverShortens

==============================================================================
