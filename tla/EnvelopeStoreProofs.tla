------------------------- MODULE EnvelopeStoreProofs -------------------------
(***************************************************************************)
(* For any envelopes, writers, deleters and clients: a deletion leaves       *)
(* nothing of what it named, a limited query keeps the newest, and a client  *)
(* that queries when its stream is in the hub misses nothing.                *)
(***************************************************************************)
EXTENDS EnvelopeStore, SequenceTheorems, TLAPS

Told == <<"notify">>            \* what is left to do when an envelope is stored
Loud == <<"ingest", "notify">>  \* the steps of the routes that notify
Mute == <<"ingest">>            \* and of those that do not

Jobs == [env : Envelopes, route : Routes, todo : {Told, Loud, Mute}]
Entries == [env : Envelopes, at : 0..MaxClock]
DeleteRecords == [pc : {"idle", "durable", "ephemeral", "done"}, topic : Topics \cup {"none"},
                  key : Keys \cup {"none"}, old : SUBSET Envelopes]
Streams == [open : Topics \cup {"none"}, topic : Topics \cup {"none"}, queue : Seq(Envelopes)]
QueryRecords == [pc : {"idle", "merge", "answered"}, topic : Topics \cup {"none"},
                 limit : Nat, since : Nat, live : BOOLEAN,
                 found : SUBSET Envelopes, owed : SUBSET Envelopes]

\* The steps of a writer's job are those of its route.
JobTypes ==
  /\ job \in [Writers -> Jobs \cup {NoJob}]
  /\ \A w \in Writers : /\ job[w].todo = Loud => job[w].route \in {"post", "mesh"}
                        /\ job[w].todo = Mute => job[w].route \in {"catchup", "feed"}

\* Types, and each envelope is in the medium it asks for.
TypeInv ==
  /\ clock \in 0..MaxClock
  /\ durable \subseteq Envelopes /\ quiet \subseteq Envelopes
  /\ ephemeral \subseteq Entries
  /\ \A e \in durable : e.durable
  /\ \A x \in ephemeral : ~x.env.durable
  /\ JobTypes
  /\ del \in [Deleters -> DeleteRecords]
  /\ stream \in [Clients -> Streams] /\ query \in [Clients -> QueryRecords]
  /\ known \in [Clients -> SUBSET Envelopes] /\ caught \in [Clients -> SUBSET Nat]
  /\ early \in [Clients -> SUBSET Envelopes]

\* What a running Delete still owes.
DeleteInv ==
  \A d \in Deleters :
    /\ del[d].pc # "idle" =>
         \A e \in del[d].old : e.topic = del[d].topic /\ e.key = del[d].key
    /\ del[d].pc = "ephemeral" => del[d].old \cap durable = {}
    /\ del[d].pc = "done" => del[d].old \cap Present = {}

\* Between the two reads of a query everything durable it owes has been found.
OwedInv ==
  \A c \in Clients : query[c].pc = "merge" =>
    \A e \in query[c].owed : /\ e.topic = query[c].topic
                             /\ e.durable => e \in query[c].found

ToBeTold(e) == \E w \in Writers : job[w].env = e /\ job[w].todo = Told
Reaches(c, e) == \/ e \in known[c] \cup Range(stream[c].queue) \cup early[c]
                 \/ ToBeTold(e)

\* A client is up to date only while it is subscribed, and a live query is one
\* for the topic of the stream.
StreamInv ==
  \A c \in Clients :
    /\ stream[c].open = "none" => caught[c] = {}
    /\ query[c].pc = "merge" /\ query[c].live =>
         stream[c].open = query[c].topic /\ query[c].topic # "none"

\* NoGap with a writer that has stored the envelope: one that has still to
\* store it may fail and then tells nobody.
GapInv ==
  \A c \in Clients : \A s \in caught[c] : \A e \in Present \ quiet :
    e.topic = stream[c].open /\ e.stamp > s => Reaches(c, e)

\* The same for what was stored since a live query read the durable medium.
MergeInv ==
  \A c \in Clients : query[c].pc = "merge" /\ query[c].live =>
    \A e \in durable \ quiet :
      e.topic = query[c].topic => e \in query[c].found \/ Reaches(c, e)

\* At most one envelope per key in each medium, and channels within their size.
BoundInv ==
  /\ \A e, f \in durable : e.key = f.key => e = f
  /\ \A x, y \in ephemeral : x.env.key = y.env.key => x = y
  /\ \A c \in Clients : Len(stream[c].queue) <= ChannelSize

IInv == /\ TypeInv /\ BoundInv /\ DeleteInv /\ OwedInv /\ StreamInv /\ GapInv /\ MergeInv
        /\ LimitKeepsNewest

------------------------------------------------------------------------------
(* Facts about the operators                                                *)

\* The three lists of steps and what is left of them.
LEMMA TodoFacts ==
  /\ Loud # <<>> /\ Mute # <<>> /\ Told # <<>>
  /\ Loud # Mute /\ Loud # Told /\ Mute # Told
  /\ Head(Loud) = "ingest" /\ Head(Mute) = "ingest" /\ Head(Told) = "notify"
  /\ Tail(Loud) = Told /\ Tail(Mute) = <<>> /\ Tail(Told) = <<>>
  /\ "notify" \in Range(Loud) /\ "notify" \notin Range(Mute) /\ "notify" \in Range(Told)
BY DEF Loud, Mute, Told, Range

\* What each route does.
LEMMA RouteSteps ==
  ASSUME NEW r \in Routes
  PROVE  /\ r \in {"post", "mesh"} => Steps(r) = Loud
         /\ r \in {"catchup", "feed"} => Steps(r) = Mute
         /\ Steps(r) \in {Loud, Mute}
BY DEF Routes, Steps, handlePostData, onEnvelope, onDataResponse, publish, Loud, Mute

\* The envelopes of a channel that got one more.
LEMMA RangeAppend ==
  ASSUME NEW S, NEW q \in Seq(S), NEW e \in S
  PROVE  Range(Append(q, e)) = Range(q) \cup {e}
<1> DEFINE r == Append(q, e)
<1>1. /\ r \in Seq(S) /\ Len(r) = Len(q) + 1 /\ Len(q) \in Nat
      /\ \A i \in 1..Len(q) : r[i] = q[i]
      /\ r[Len(q) + 1] = e
  BY AppendProperties, LenProperties
<1>2. DOMAIN r = 1..Len(r) /\ DOMAIN q = 1..Len(q)
  BY <1>1, LenProperties
<1> HIDE DEF r
<1>3. \A i \in 1..(Len(q) + 1) : i \in 1..Len(q) \/ i = Len(q) + 1
  BY <1>1
<1>4. Range(r) \subseteq Range(q) \cup {e}
  BY <1>1, <1>2, <1>3 DEF Range
<1>5. Range(q) \cup {e} \subseteq Range(r)
  BY <1>1, <1>2 DEF Range
<1> QED BY <1>4, <1>5 DEF r

\* The envelopes of a channel that was read from.
LEMMA RangeTail ==
  ASSUME NEW S, NEW q \in Seq(S), q # <<>>
  PROVE  Range(q) = {Head(q)} \cup Range(Tail(q))
<1> DEFINE t == Tail(q)
<1>1. /\ t \in Seq(S) /\ Len(t) = Len(q) - 1 /\ Len(q) \in Nat \ {0}
      /\ \A i \in 1..Len(t) : t[i] = q[i + 1]
  BY HeadTailProperties, EmptySeq
<1>2. DOMAIN t = 1..Len(t) /\ DOMAIN q = 1..Len(q) /\ Head(q) = q[1]
  BY <1>1, LenProperties
<1> HIDE DEF t
<1>3. \A i \in 1..Len(q) : i = 1 \/ (i - 1 \in 1..Len(t) /\ (i - 1) + 1 = i)
  BY <1>1
<1>4. Range(q) \subseteq {Head(q)} \cup Range(t)
  <2>1. \A i \in 1..Len(q) : i # 1 => q[i] = t[i - 1] /\ i - 1 \in DOMAIN t
    BY <1>1, <1>2, <1>3
  <2> QED BY <1>2, <2>1 DEF Range
<1>5. \A i \in 1..Len(t) : i + 1 \in 1..Len(q)
  BY <1>1
<1>6. {Head(q)} \cup Range(t) \subseteq Range(q)
  BY <1>1, <1>2, <1>5 DEF Range
<1> QED BY <1>4, <1>6 DEF t

\* The records at rest have their types.
LEMMA RestRecords ==
  /\ NoDelete \in DeleteRecords /\ NoDelete.pc = "idle" /\ NoDelete.old = {}
  /\ NoStream \in Streams /\ NoStream.open = "none" /\ NoStream.topic = "none"
  /\ NoStream.queue = <<>>
  /\ NoQuery \in QueryRecords /\ NoQuery.pc = "idle" /\ NoQuery.live = FALSE
  /\ NoJob.todo = <<>>
BY DEF NoDelete, DeleteRecords, NoStream, Streams, NoQuery, QueryRecords, NoJob

\* A writer about to store an envelope, and what it goes on with.
LEMMA AtIngest ==
  ASSUME TypeInv, NEW w \in Writers, Does(w, "ingest")
  PROVE  /\ job[w] \in Jobs /\ job[w].env \in Envelopes
         /\ \/ /\ job[w].todo = Loud /\ Tail(job[w].todo) = Told
               /\ Steps(job[w].route) = Loud
            \/ /\ job[w].todo = Mute /\ Tail(job[w].todo) = <<>>
               /\ Steps(job[w].route) = Mute
<1>1. job[w] \in Jobs /\ job[w].todo \in {Loud, Mute}
  BY TodoFacts, RestRecords DEF TypeInv, JobTypes, Does, Jobs
<1>2. job[w].env \in Envelopes /\ job[w].route \in Routes
  BY <1>1 DEF Jobs
<1> QED BY <1>1, <1>2, TodoFacts, RouteSteps DEF TypeInv, JobTypes

\* A writer about to notify has nothing left to do then.
LEMMA AtNotify ==
  ASSUME TypeInv, NEW w \in Writers, Does(w, "notify")
  PROVE  /\ job[w] \in Jobs /\ job[w].env \in Envelopes
         /\ job[w].todo = Told /\ Tail(job[w].todo) = <<>>
<1>1. job[w] \in Jobs /\ job[w].todo = Told
  BY TodoFacts, RestRecords DEF TypeInv, JobTypes, Does, Jobs
<1> QED BY <1>1, TodoFacts DEF Jobs

\* A writer that goes on, or is done, after a step.
LEMMA JobStep ==
  ASSUME TypeInv, NEW w \in Writers, job[w] \in Jobs, NEW rest \in {<<>>, Told}, Done(w, rest)
  PROVE  /\ job' \in [Writers -> Jobs \cup {NoJob}]
         /\ \A v \in Writers : v # w => job'[v] = job[v]
         /\ rest = <<>> => job'[w] = NoJob
         /\ rest = Told => /\ job'[w].todo = Told /\ job'[w].env = job[w].env
                           /\ job'[w].route = job[w].route
<1>1. job \in [Writers -> Jobs \cup {NoJob}]
  BY DEF TypeInv, JobTypes
<1>2. CASE rest = <<>>
  BY <1>1, <1>2, TodoFacts DEF Done
<1>3. CASE rest = Told
  BY <1>1, <1>3, TodoFacts DEF Done, Jobs
<1> QED BY <1>2, <1>3

\* A step of a writer leaves it the steps of its route.
LEMMA JobTypesKept ==
  ASSUME TypeInv, NEW w \in Writers, job[w] \in Jobs, NEW rest \in {<<>>, Told}, Done(w, rest)
  PROVE  JobTypes'
BY JobStep, TodoFacts, RestRecords DEF TypeInv, JobTypes

------------------------------------------------------------------------------
(* Types                                                                    *)

\* The writers keep the types.
LEMMA WriterTypes ==
  ASSUME TypeInv, NEW w \in Writers,
         \/ \E r \in Routes : \E e \in Arrives[r] : Arrive(w, r, e)
         \/ Ingest(w) \/ IngestFails(w) \/ notify(w)
  PROVE  TypeInv'
<1> USE StoreAssumption
<1>1. ASSUME NEW r \in Routes, NEW e \in Arrives[r], Arrive(w, r, e) PROVE TypeInv'
  <2> DEFINE j == [env |-> e, route |-> r, todo |-> Steps(r)]
  <2>1. e \in Envelopes /\ Steps(r) \in {Loud, Mute}
    BY RouteSteps
  <2>2. j \in Jobs /\ j.todo = Steps(r) /\ j.route = r
    BY <2>1 DEF Jobs
  <2>3. job' = [job EXCEPT ![w] = j]
    BY <1>1 DEF Arrive
  <2> HIDE DEF j
  <2>4. JobTypes'
    BY <2>2, <2>3, RouteSteps, TodoFacts DEF TypeInv, JobTypes, Routes
  <2> QED BY <1>1, <2>4 DEF Arrive, TypeInv, store, readers
<1>2. ASSUME Ingest(w) PROVE TypeInv'
  <2> DEFINE e == job[w].env
  <2>1. Does(w, "ingest") /\ Done(w, Tail(job[w].todo))
    BY <1>2 DEF Ingest
  <2>2. JobTypes' /\ e \in Envelopes
    BY <2>1, AtIngest, JobTypesKept
  <2>3. /\ durable' \subseteq Envelopes /\ ephemeral' \subseteq Entries
        /\ \A f \in durable' : f.durable
        /\ \A x \in ephemeral' : ~x.env.durable
    <3>1. CASE storeDurable(e)
      BY <2>2, <3>1 DEF storeDurable, TypeInv
    <3>2. CASE storeEphemeral(e)
      <4>1. [env |-> e, at |-> clock] \in Entries
        BY <2>2 DEF TypeInv, Entries
      <4> QED BY <2>2, <3>2, <4>1 DEF storeEphemeral, TypeInv
    <3> QED BY <1>2, <3>1, <3>2 DEF Ingest
  <2>4. del' \in [Deleters -> DeleteRecords]
    <3>1. \A d \in Deleters : [del[d] EXCEPT !.old = @ \ {e}] \in DeleteRecords
      BY DEF TypeInv, DeleteRecords
    <3> QED BY <1>2, <3>1 DEF Ingest
  <2>5. quiet' \subseteq Envelopes /\ UNCHANGED <<clock, readers>>
    BY <1>2, <2>2 DEF Ingest, TypeInv
  <2> QED BY <2>2, <2>3, <2>4, <2>5 DEF TypeInv, readers
<1>3. ASSUME IngestFails(w) PROVE TypeInv'
  <2>1. PICK rest \in {<<>>, Told} : Does(w, "ingest") /\ Done(w, rest)
    BY <1>3, AtIngest DEF IngestFails
  <2>2. JobTypes'
    BY <2>1, AtIngest, JobTypesKept
  <2> QED BY <1>3, <2>2 DEF IngestFails, TypeInv, store, readers
<1>4. ASSUME notify(w) PROVE TypeInv'
  <2> DEFINE e == job[w].env
  <2>1. Does(w, "notify") /\ Done(w, Tail(job[w].todo))
    BY <1>4 DEF notify
  <2>2. JobTypes' /\ e \in Envelopes
    BY <2>1, AtNotify, JobTypesKept
  <2>3. ASSUME NEW c \in Clients PROVE [stream[c] EXCEPT !.queue = Append(@, e)] \in Streams
    <3>1. stream[c] \in Streams /\ stream[c].queue \in Seq(Envelopes)
      BY DEF TypeInv, Streams
    <3>2. Append(stream[c].queue, e) \in Seq(Envelopes)
      BY <2>2, <3>1, AppendProperties
    <3> QED BY <3>1, <3>2 DEF Streams
  <2>4. stream' \in [Clients -> Streams]
    BY <1>4, <2>3 DEF notify, TypeInv
  <2>5. known' \in [Clients -> SUBSET Envelopes]
    BY <1>4, <2>2 DEF notify, TypeInv
  <2>6. early' \in [Clients -> SUBSET Envelopes]
    BY <1>4, <2>2 DEF notify, TypeInv
  <2> QED BY <1>4, <2>2, <2>4, <2>5, <2>6 DEF notify, TypeInv, store
<1> QED BY <1>1, <1>2, <1>3, <1>4

\* The deleters keep the types.
LEMMA DeleterTypes ==
  ASSUME TypeInv, NEW d \in Deleters,
         \/ \E r \in Deletes : Delete(d, r[1], r[2])
         \/ DeleteDurable(d) \/ DeleteFails(d) \/ DeleteEphemeral(d)
  PROVE  TypeInv'
<1> USE StoreAssumption
<1>0. /\ del \in [Deleters -> DeleteRecords]
      /\ \A r \in DeleteRecords : Answered(r) \in DeleteRecords
  BY RestRecords DEF TypeInv, Answered, DeleteRecords
<1>1. ASSUME NEW r \in Deletes, Delete(d, r[1], r[2]) PROVE TypeInv'
  <2>1. r[1] \in Topics /\ r[2] \in Keys
    OBVIOUS
  <2>2. AtKey(r[1], r[2]) \subseteq Envelopes
    BY DEF AtKey, Present, Unexpired, TypeInv, Entries
  <2>3. del' \in [Deleters -> DeleteRecords]
    BY <1>0, <1>1, <2>1, <2>2 DEF Delete, DeleteRecords
  <2> QED BY <1>1, <2>3 DEF Delete, TypeInv, JobTypes, store, readers
<1>2. ASSUME DeleteDurable(d) PROVE TypeInv'
  <2>1. del' \in [Deleters -> DeleteRecords]
    BY <1>0, <1>2 DEF DeleteDurable, DeleteRecords
  <2> QED BY <1>2, <2>1 DEF DeleteDurable, TypeInv, JobTypes, readers
<1>3. ASSUME DeleteFails(d) PROVE TypeInv'
  BY <1>0, <1>3, RestRecords DEF DeleteFails, TypeInv, JobTypes, store, readers
<1>4. ASSUME DeleteEphemeral(d) PROVE TypeInv'
  <2>1. del' \in [Deleters -> DeleteRecords]
    BY <1>0, <1>4 DEF DeleteEphemeral
  <2> QED BY <1>4, <2>1 DEF DeleteEphemeral, TypeInv, JobTypes, readers
<1> QED BY <1>1, <1>2, <1>3, <1>4

\* The clients keep the types.
LEMMA ClientTypes ==
  ASSUME TypeInv, NEW c \in Clients,
         \/ \E t \in Subscriptions : handleSubscribe(c, t)
         \/ subscribe(c) \/ Receive(c) \/ Unsubscribe(c) \/ QueryEphemeral(c)
         \/ \E r \in Queries : QueryDurable(c, r[1], r[2], r[3])
  PROVE  TypeInv'
<1> USE StoreAssumption
<1>0. /\ stream \in [Clients -> Streams] /\ query \in [Clients -> QueryRecords]
      /\ known \in [Clients -> SUBSET Envelopes] /\ caught \in [Clients -> SUBSET Nat]
      /\ early \in [Clients -> SUBSET Envelopes]
      /\ stream[c] \in Streams /\ query[c] \in QueryRecords
  BY DEF TypeInv
<1>1. ASSUME NEW t \in Subscriptions, handleSubscribe(c, t) PROVE TypeInv'
  <2>1. stream' \in [Clients -> Streams]
    BY <1>0, <1>1 DEF handleSubscribe, Streams
  <2> QED BY <1>1, <2>1 DEF handleSubscribe, TypeInv, JobTypes, store
<1>2. ASSUME Receive(c) PROVE TypeInv'
  <2>1. stream[c].queue \in Seq(Envelopes) /\ stream[c].queue # <<>>
    BY <1>0, <1>2 DEF Receive, Streams
  <2>2. Head(stream[c].queue) \in Envelopes /\ Tail(stream[c].queue) \in Seq(Envelopes)
    BY <2>1, HeadTailProperties
  <2>3. stream' \in [Clients -> Streams]
    BY <1>0, <1>2, <2>2 DEF Receive, Streams
  <2>4. known' \in [Clients -> SUBSET Envelopes]
    BY <1>0, <1>2, <2>2 DEF Receive
  <2> QED BY <1>2, <2>3, <2>4 DEF Receive, TypeInv, JobTypes, store
<1>3. ASSUME Unsubscribe(c) PROVE TypeInv'
  <2>1. query' \in [Clients -> QueryRecords]
    BY <1>0, <1>3 DEF Unsubscribe, QueryRecords
  <2>2. stream' \in [Clients -> Streams] /\ known' \in [Clients -> SUBSET Envelopes]
        /\ caught' \in [Clients -> SUBSET Nat] /\ early' \in [Clients -> SUBSET Envelopes]
    BY <1>0, <1>3, RestRecords DEF Unsubscribe
  <2> QED BY <1>3, <2>1, <2>2 DEF Unsubscribe, TypeInv, JobTypes, store
<1>4. ASSUME QueryEphemeral(c) PROVE TypeInv'
  <2> DEFINE q == query[c]
             merged == q.found \cup {e \in Unexpired : e.topic = q.topic}
  <2>1. PICK a \in Newest(merged, q.limit) :
          LET answer == {e \in a : e.stamp > q.since}
              missing == {e \in q.owed \cap Present : e.stamp > q.since} \ answer
              whole == q.live /\ a = merged
          IN  /\ query' = [query EXCEPT ![c] =
                   IF missing = {} THEN NoQuery
                   ELSE [q EXCEPT !.pc = "answered", !.found = answer, !.owed = missing]]
              /\ known' = [known EXCEPT ![c] = IF q.live THEN @ \cup answer ELSE @]
              /\ caught' = [caught EXCEPT ![c] = IF whole THEN @ \cup {q.since} ELSE @]
    BY <1>4 DEF QueryEphemeral
  <2> DEFINE answer == {e \in a : e.stamp > q.since}
             missing == {e \in q.owed \cap Present : e.stamp > q.since} \ answer
  <2>2. a \subseteq Envelopes /\ answer \subseteq Envelopes /\ missing \subseteq Envelopes
        /\ q.since \in Nat
    BY <1>0, <2>1 DEF Newest, QueryRecords, Unexpired, Entries, TypeInv
  <2>3. query' \in [Clients -> QueryRecords]
    <3> HIDE DEF answer, missing
    <3>1. [q EXCEPT !.pc = "answered", !.found = answer, !.owed = missing] \in QueryRecords
      BY <1>0, <2>2 DEF QueryRecords
    <3> QED BY <1>0, <2>1, <3>1, RestRecords DEF answer, missing
  <2>4. known' \in [Clients -> SUBSET Envelopes] /\ caught' \in [Clients -> SUBSET Nat]
    BY <1>0, <2>1, <2>2
  <2> QED BY <1>4, <2>3, <2>4 DEF QueryEphemeral, TypeInv, JobTypes, store
<1>5. ASSUME NEW r \in Queries, QueryDurable(c, r[1], r[2], r[3]) PROVE TypeInv'
  <2>1. r[1] \in Topics /\ r[2] \in Nat /\ r[3] \in Nat
    OBVIOUS
  <2>2. {e \in durable : e.topic \in Under[r[1]]} \subseteq Envelopes
        /\ {e \in Present : e.topic = r[1]} \subseteq Envelopes
    BY DEF TypeInv, Present, Unexpired, Entries
  <2>3. query' \in [Clients -> QueryRecords]
    BY <1>0, <1>5, <2>1, <2>2 DEF QueryDurable, QueryRecords
  <2> QED BY <1>5, <2>3 DEF QueryDurable, TypeInv, JobTypes, store
<1>6. ASSUME subscribe(c) PROVE TypeInv'
  <2>1. stream' \in [Clients -> Streams]
    BY <1>0, <1>6 DEF subscribe, Streams
  <2> QED BY <1>6, <2>1 DEF subscribe, TypeInv, JobTypes, store
<1> QED BY <1>1, <1>2, <1>3, <1>4, <1>5, <1>6

\* Time, the sweeper and a restart keep the types.
LEMMA NodeTypes ==
  ASSUME TypeInv, ExpireEphemeral \/ Tick \/ NewStore
  PROVE  TypeInv'
<1> USE StoreAssumption
<1>1. CASE ExpireEphemeral
  BY <1>1 DEF ExpireEphemeral, TypeInv, JobTypes, readers
<1>2. CASE Tick
  BY <1>2 DEF Tick, TypeInv, JobTypes, store, readers
<1>3. CASE NewStore
  <2>1. JobTypes'
    BY <1>3, RestRecords, TodoFacts DEF NewStore, JobTypes
  <2> QED BY <1>3, <2>1, RestRecords DEF NewStore, TypeInv
<1> QED BY <1>1, <1>2, <1>3

\* So does every step.
LEMMA StepTypes == TypeInv /\ [Next]_vars => TypeInv'
<1> SUFFICES ASSUME TypeInv, [Next]_vars PROVE TypeInv'
  OBVIOUS
<1>1. CASE UNCHANGED vars
  BY <1>1 DEF vars, store, readers, TypeInv, JobTypes
<1> QED BY <1>1, WriterTypes, DeleterTypes, ClientTypes, NodeTypes DEF Next

------------------------------------------------------------------------------
(* What a step does to the two media                                        *)

\* Only Ingest adds to them, and only Ingest and a restart touch quiet.
LEMMA StoreShrinks ==
  ASSUME TypeInv, [Next]_vars, \A w \in Writers : ~Ingest(w)
  PROVE  /\ durable' \subseteq durable /\ ephemeral' \subseteq ephemeral
         /\ Present' \subseteq Present
         /\ (NewStore \/ quiet' = quiet)
<1> USE StoreAssumption
<1>1. ASSUME UNCHANGED <<clock, durable, ephemeral>> PROVE Present' = Present
  BY <1>1 DEF Present, Unexpired, IsExpired
<1>2. ASSUME ephemeral' \subseteq ephemeral, UNCHANGED clock PROVE Unexpired' \subseteq Unexpired
  BY <1>2 DEF Unexpired, IsExpired
<1>3. CASE UNCHANGED vars
  BY <1>1, <1>3 DEF vars, store
<1>4. ASSUME NEW w \in Writers,
             \/ \E r \in Routes : \E e \in Arrives[r] : Arrive(w, r, e)
             \/ IngestFails(w) \/ notify(w)
      PROVE  UNCHANGED <<clock, store, quiet>>
  BY <1>4 DEF Arrive, IngestFails, notify
<1>5. ASSUME NEW d \in Deleters,
             \/ \E r \in Deletes : Delete(d, r[1], r[2])
             \/ DeleteDurable(d) \/ DeleteFails(d) \/ DeleteEphemeral(d)
      PROVE  /\ durable' \subseteq durable /\ ephemeral' \subseteq ephemeral
             /\ UNCHANGED <<clock, quiet>>
  BY <1>5 DEF Delete, DeleteDurable, DeleteFails, DeleteEphemeral, store
<1>6. ASSUME NEW c \in Clients,
             \/ \E t \in Subscriptions : handleSubscribe(c, t)
             \/ subscribe(c) \/ Receive(c) \/ Unsubscribe(c) \/ QueryEphemeral(c)
             \/ \E r \in Queries : QueryDurable(c, r[1], r[2], r[3])
      PROVE  UNCHANGED <<clock, store, quiet>>
  BY <1>6 DEF handleSubscribe, subscribe, Receive, Unsubscribe, QueryEphemeral, QueryDurable
<1>7. CASE ExpireEphemeral
  BY <1>2, <1>7 DEF ExpireEphemeral, Present
<1>8. CASE Tick
  <2>1. ASSUME NEW x \in ephemeral, ~IsExpired(x)' PROVE ~IsExpired(x)
    <3>1. clock \in Nat /\ x.at \in Nat /\ x.env.ttl \in Nat /\ clock' = clock + 1
      BY <1>8 DEF TypeInv, Entries, Tick
    <3> QED BY <2>1, <3>1 DEF IsExpired
  <2> QED BY <1>8, <2>1 DEF Tick, store, Present, Unexpired
<1>9. CASE NewStore
  BY <1>9 DEF NewStore, Present, Unexpired
<1> QED BY <1>1, <1>2, <1>3, <1>4, <1>5, <1>6, <1>7, <1>8, <1>9 DEF Next, store, Present

\* Ingest adds its envelope and nothing else.
LEMMA IngestAdds ==
  ASSUME TypeInv, NEW w \in Writers, Ingest(w)
  PROVE  /\ durable' \subseteq durable \cup {job[w].env}
         /\ Present' \subseteq Present \cup {job[w].env}
<1> DEFINE e == job[w].env
<1>1. UNCHANGED clock /\ (storeDurable(e) \/ storeEphemeral(e))
  BY DEF Ingest
<1>2. durable' \subseteq durable \cup {e}
  BY <1>1 DEF storeDurable, storeEphemeral
<1>3. Unexpired' \subseteq Unexpired \cup {e}
  BY <1>1 DEF storeDurable, storeEphemeral, Unexpired, IsExpired
<1> QED BY <1>2, <1>3 DEF Present

------------------------------------------------------------------------------
(* Delete                                                                   *)

\* Every step keeps what a Delete has achieved.
LEMMA DeleteStep == TypeInv /\ DeleteInv /\ [Next]_vars => DeleteInv'
<1> SUFFICES ASSUME TypeInv, DeleteInv, [Next]_vars PROVE DeleteInv'
  OBVIOUS
<1>0. del \in [Deleters -> DeleteRecords]
  BY DEF TypeInv
<1>1. ASSUME NEW w \in Writers, Ingest(w) PROVE DeleteInv'
  <2> DEFINE e == job[w].env
  <2>1. del' = [d \in Deleters |-> [del[d] EXCEPT !.old = @ \ {e}]]
    BY <1>1 DEF Ingest
  <2>2. \A d \in Deleters : /\ del'[d].pc = del[d].pc /\ del'[d].topic = del[d].topic
                            /\ del'[d].key = del[d].key /\ del'[d].old = del[d].old \ {e}
    BY <1>0, <2>1 DEF DeleteRecords
  <2>3. durable' \subseteq durable \cup {e} /\ Present' \subseteq Present \cup {e}
    BY <1>1, IngestAdds
  <2> QED BY <2>2, <2>3 DEF DeleteInv
<1>2. ASSUME \A w \in Writers : ~Ingest(w) PROVE DeleteInv'
  <2>1. durable' \subseteq durable /\ Present' \subseteq Present
    BY <1>2, StoreShrinks
  <2>2. CASE UNCHANGED del
    BY <2>1, <2>2 DEF DeleteInv
  <2>3. ASSUME NEW d \in Deleters, NEW r, del' = [del EXCEPT ![d] = r],
               r.pc # "idle" => \A e \in r.old : e.topic = r.topic /\ e.key = r.key,
               r.pc = "ephemeral" => r.old \cap durable' = {},
               r.pc = "done" => r.old \cap Present' = {}
        PROVE  DeleteInv'
    BY <1>0, <2>1, <2>3 DEF DeleteInv
  <2>4. ASSUME NEW d \in Deleters, NEW t, NEW k, Delete(d, t, k) PROVE DeleteInv'
    <3> DEFINE r == [pc |-> IF \E e \in durable : e.topic = t /\ e.key = k
                            THEN "durable" ELSE "ephemeral",
                     topic |-> t, key |-> k, old |-> AtKey(t, k)]
    <3>1. del' = [del EXCEPT ![d] = r] /\ durable' = durable
      BY <2>4 DEF Delete, store
    <3>2. /\ \A e \in r.old : e.topic = r.topic /\ e.key = r.key
          /\ r.pc = "ephemeral" => r.old \cap durable = {}
          /\ r.pc # "done"
      BY DEF AtKey
    <3> HIDE DEF r
    <3> QED BY <2>3, <3>1, <3>2
  <2>5. ASSUME NEW d \in Deleters, DeleteDurable(d) PROVE DeleteInv'
    <3> DEFINE r == [del[d] EXCEPT !.pc = "ephemeral"]
    <3>1. del' = [del EXCEPT ![d] = r]
      BY <2>5 DEF DeleteDurable
    <3>2. /\ r.pc = "ephemeral" /\ r.old = del[d].old /\ r.topic = del[d].topic
          /\ r.key = del[d].key
      BY <1>0 DEF DeleteRecords
    <3>3. \A e \in r.old : e.topic = r.topic /\ e.key = r.key
      BY <2>5, <3>2 DEF DeleteDurable, DeleteInv
    <3>4. r.old \cap durable' = {}
      BY <2>5, <3>2, <3>3 DEF DeleteDurable
    <3> HIDE DEF r
    <3> QED BY <2>3, <3>1, <3>2, <3>3, <3>4
  <2>6. ASSUME NEW d \in Deleters, DeleteFails(d) PROVE DeleteInv'
    BY <2>3, <2>6, RestRecords DEF DeleteFails
  <2>7. ASSUME NEW d \in Deleters, DeleteEphemeral(d) PROVE DeleteInv'
    <3>1. del' = [del EXCEPT ![d] = Answered(del[d])] /\ durable' = durable
      BY <2>7 DEF DeleteEphemeral
    <3>2. /\ \A e \in del[d].old : e.topic = del[d].topic /\ e.key = del[d].key
          /\ del[d].old \cap durable = {}
      BY <2>7 DEF DeleteEphemeral, DeleteInv
    <3>3. \A e \in Unexpired' : e.key # del[d].key
      BY <2>7 DEF DeleteEphemeral, Unexpired
    <3>4. del[d].old \cap Present' = {}
      BY <3>1, <3>2, <3>3 DEF Present
    <3> DEFINE r == Answered(del[d])
    <3>5. \/ r = NoDelete
          \/ /\ r.pc = "done" /\ r.old = del[d].old /\ r.topic = del[d].topic
             /\ r.key = del[d].key
      BY <1>0 DEF Answered, DeleteRecords
    <3> HIDE DEF r
    <3>6. del' = [del EXCEPT ![d] = r]
      BY <3>1 DEF r
    <3> QED BY <2>3, <3>2, <3>4, <3>5, <3>6, RestRecords
  <2>8. CASE NewStore
    BY <2>8, RestRecords DEF NewStore, DeleteInv
  <2>9. CASE UNCHANGED vars
    BY <2>2, <2>9 DEF vars
  <2>10. ASSUME NEW w \in Writers,
                \/ \E r \in Routes : \E e \in Arrives[r] : Arrive(w, r, e)
                \/ IngestFails(w) \/ notify(w)
         PROVE  UNCHANGED del
    BY <2>10 DEF Arrive, IngestFails, notify
  <2>11. ASSUME NEW c \in Clients,
                \/ \E t \in Subscriptions : handleSubscribe(c, t)
                \/ subscribe(c) \/ Receive(c) \/ Unsubscribe(c) \/ QueryEphemeral(c)
                \/ \E r \in Queries : QueryDurable(c, r[1], r[2], r[3])
         PROVE  UNCHANGED del
    BY <2>11 DEF handleSubscribe, subscribe, Receive, Unsubscribe, QueryEphemeral, QueryDurable
  <2>12. ASSUME ExpireEphemeral \/ Tick PROVE UNCHANGED del
    BY <2>12 DEF ExpireEphemeral, Tick
  <2> QED BY <1>2, <2>2, <2>4, <2>5, <2>6, <2>7, <2>8, <2>9, <2>10, <2>11, <2>12 DEF Next
<1> QED BY <1>1, <1>2

------------------------------------------------------------------------------
(* Queries                                                                  *)

\* The steps that touch a client's query, its subscription or what it is up to
\* date with.
OwnStep(c) == \/ \E t \in Subscriptions : handleSubscribe(c, t)
              \/ Unsubscribe(c) \/ QueryEphemeral(c)
              \/ \E r \in Queries : QueryDurable(c, r[1], r[2], r[3])

\* The second step of a query, with the answer named.
Answers(c, a, answer, missing) ==
  LET q == query[c]
      merged == q.found \cup {e \in Unexpired : e.topic = q.topic}
  IN  /\ q.pc = "merge"
      /\ a \in Newest(merged, q.limit)
      /\ answer = {e \in a : e.stamp > q.since}
      /\ missing = {e \in q.owed \cap Present : e.stamp > q.since} \ answer
      /\ query' = [query EXCEPT ![c] =
           IF missing = {} THEN NoQuery
           ELSE [q EXCEPT !.pc = "answered", !.found = answer, !.owed = missing]]
      /\ known' = [known EXCEPT ![c] = IF q.live THEN @ \cup answer ELSE @]
      /\ caught' = [caught EXCEPT ![c] = IF q.live /\ a = merged THEN @ \cup {q.since} ELSE @]
      /\ UNCHANGED <<clock, store, job, stream, early, quiet>>

\* QueryEphemeral gives some such answer.
LEMMA QueryAnswers ==
  ASSUME NEW c \in Clients, QueryEphemeral(c)
  PROVE  \E a, answer, missing : Answers(c, a, answer, missing)
BY DEF QueryEphemeral, Answers

\* What an answered query leaves.
LEMMA AnsweredQuery ==
  ASSUME TypeInv, NEW c \in Clients, NEW a, NEW answer, NEW missing,
         Answers(c, a, answer, missing)
  PROVE  /\ \A b \in Clients : b # c => query'[b] = query[b]
         /\ missing = {} => query'[c] = NoQuery
         /\ missing # {} => /\ query'[c].pc = "answered" /\ query'[c].found = answer
                            /\ query'[c].owed = missing /\ query'[c].limit = query[c].limit
<1>1. query \in [Clients -> QueryRecords]
  BY DEF TypeInv
<1>2. CASE missing = {}
  BY <1>1, <1>2 DEF Answers
<1>3. CASE missing # {}
  BY <1>1, <1>3 DEF Answers, QueryRecords
<1> QED BY <1>2, <1>3

\* A step other than its own leaves a client's query alone, unless the process
\* starts again.
LEMMA QueryFrame ==
  ASSUME TypeInv, [Next]_vars, NEW c \in Clients, ~OwnStep(c), ~NewStore
  PROVE  query'[c] = query[c] /\ caught'[c] = caught[c]
<1>0. query \in [Clients -> QueryRecords] /\ caught \in [Clients -> SUBSET Nat]
  BY DEF TypeInv
<1>1. CASE UNCHANGED <<query, caught>>
  BY <1>1
<1>2. ASSUME NEW w \in Writers,
             \/ \E r \in Routes : \E e \in Arrives[r] : Arrive(w, r, e)
             \/ Ingest(w) \/ IngestFails(w) \/ notify(w)
      PROVE  UNCHANGED <<query, caught>>
  BY <1>2 DEF Arrive, Ingest, IngestFails, notify, readers
<1>3. ASSUME NEW d \in Deleters,
             \/ \E r \in Deletes : Delete(d, r[1], r[2])
             \/ DeleteDurable(d) \/ DeleteFails(d) \/ DeleteEphemeral(d)
      PROVE  UNCHANGED <<query, caught>>
  BY <1>3 DEF Delete, DeleteDurable, DeleteFails, DeleteEphemeral, readers
<1>4. ASSUME NEW b \in Clients, b # c, OwnStep(b) PROVE query'[c] = query[c] /\ caught'[c] = caught[c]
  <2>1. ASSUME NEW t, handleSubscribe(b, t) PROVE UNCHANGED <<query, caught>>
    BY <2>1 DEF handleSubscribe
  <2>2. CASE Unsubscribe(b)
    BY <1>0, <1>4, <2>2 DEF Unsubscribe
  <2>3. CASE QueryEphemeral(b)
    BY <1>0, <1>4, <2>3 DEF QueryEphemeral
  <2>4. ASSUME NEW t, NEW n, NEW s, QueryDurable(b, t, n, s)
        PROVE  query'[c] = query[c] /\ caught'[c] = caught[c]
    BY <1>0, <1>4, <2>4 DEF QueryDurable
  <2> QED BY <1>4, <2>1, <2>2, <2>3, <2>4 DEF OwnStep
<1>5. ASSUME NEW b \in Clients, subscribe(b) \/ Receive(b) PROVE UNCHANGED <<query, caught>>
  BY <1>5 DEF subscribe, Receive
<1>6. ASSUME ExpireEphemeral \/ Tick \/ UNCHANGED vars PROVE UNCHANGED <<query, caught>>
  BY <1>6 DEF ExpireEphemeral, Tick, vars, readers
<1> QED BY <1>1, <1>2, <1>3, <1>4, <1>5, <1>6 DEF Next, OwnStep

\* Every step keeps what a query owes and has found.
LEMMA OwedStep == TypeInv /\ OwedInv /\ [Next]_vars => OwedInv'
<1> SUFFICES ASSUME TypeInv, OwedInv, [Next]_vars, NEW c \in Clients, query'[c].pc = "merge"
             PROVE  \A e \in query'[c].owed : /\ e.topic = query'[c].topic
                                              /\ e.durable => e \in query'[c].found
  BY DEF OwedInv
<1>0. query \in [Clients -> QueryRecords]
  BY DEF TypeInv
<1>1. CASE ~OwnStep(c) /\ ~NewStore
  BY <1>1, QueryFrame DEF OwedInv
<1>2. CASE NewStore
  BY <1>2, RestRecords DEF NewStore
<1>3. ASSUME NEW t, handleSubscribe(c, t) PROVE query' = query
  BY <1>3 DEF handleSubscribe
<1>4. CASE Unsubscribe(c)
  <2>1. /\ query'[c].pc = query[c].pc /\ query'[c].topic = query[c].topic
        /\ query'[c].owed = query[c].owed /\ query'[c].found = query[c].found
    BY <1>0, <1>4 DEF Unsubscribe, QueryRecords
  <2> QED BY <2>1 DEF OwedInv
<1>5. CASE QueryEphemeral(c)
  BY <1>5, QueryAnswers, AnsweredQuery, RestRecords
<1>6. ASSUME NEW r \in Queries, QueryDurable(c, r[1], r[2], r[3])
      PROVE  \A e \in query'[c].owed : /\ e.topic = query'[c].topic
                                       /\ e.durable => e \in query'[c].found
  <2>1. r[1] \in Topics /\ r[1] \in Under[r[1]]
    BY StoreAssumption
  <2>2. /\ query'[c].topic = r[1]
        /\ query'[c].found = {e \in durable : e.topic \in Under[r[1]]}
        /\ query'[c].owed = {e \in Present : e.topic = r[1]}
    BY <1>0, <1>6 DEF QueryDurable
  <2>3. \A e \in Present : e.durable => e \in durable
    BY DEF Present, Unexpired, TypeInv
  <2> QED BY <2>1, <2>2, <2>3
<1> QED BY <1>1, <1>2, <1>3, <1>4, <1>5, <1>6 DEF OwnStep, OwedInv

\* A limited answer lacks nothing newer than what it has.
LEMMA LimitStep == TypeInv /\ OwedInv /\ LimitKeepsNewest /\ [Next]_vars => LimitKeepsNewest'
<1> SUFFICES ASSUME TypeInv, OwedInv, LimitKeepsNewest, [Next]_vars,
                    NEW c \in Clients, query'[c].pc = "answered"
             PROVE  \A e \in query'[c].owed :
                      /\ Cardinality(query'[c].found) = query'[c].limit
                      /\ \A f \in query'[c].found : f.stamp >= e.stamp
  BY DEF LimitKeepsNewest
<1>0. query \in [Clients -> QueryRecords]
  BY DEF TypeInv
<1>1. CASE ~OwnStep(c) /\ ~NewStore
  BY <1>1, QueryFrame DEF LimitKeepsNewest
<1>2. CASE NewStore
  BY <1>2, RestRecords DEF NewStore
<1>3. ASSUME NEW t, handleSubscribe(c, t) PROVE query' = query
  BY <1>3 DEF handleSubscribe
<1>4. CASE Unsubscribe(c)
  <2>1. /\ query'[c].pc = query[c].pc /\ query'[c].limit = query[c].limit
        /\ query'[c].owed = query[c].owed /\ query'[c].found = query[c].found
    BY <1>0, <1>4 DEF Unsubscribe, QueryRecords
  <2> QED BY <2>1 DEF LimitKeepsNewest
<1>5. ASSUME NEW a, NEW answer, NEW missing, Answers(c, a, answer, missing)
      PROVE  \A e \in query'[c].owed :
               /\ Cardinality(query'[c].found) = query'[c].limit
               /\ \A f \in query'[c].found : f.stamp >= e.stamp
  <2> DEFINE q == query[c]
             merged == q.found \cup {e \in Unexpired : e.topic = q.topic}
  <2>1. /\ query'[c].found = answer /\ query'[c].owed = missing /\ query'[c].limit = q.limit
    BY <1>5, AnsweredQuery, RestRecords
  <2>2. ASSUME NEW e \in missing
        PROVE  Cardinality(answer) = q.limit /\ \A f \in answer : f.stamp >= e.stamp
    <3>1. e \in q.owed /\ e \in Present /\ e.stamp > q.since /\ e \notin a
      BY <1>5 DEF Answers
    <3>2. e \in merged
      BY <1>5, <3>1 DEF Answers, OwedInv, Present, TypeInv
    <3>3. /\ a \subseteq merged /\ a # merged
          /\ Cardinality(a) = q.limit
          /\ \A f \in a : f.stamp >= e.stamp
      BY <1>5, <3>1, <3>2 DEF Answers, Newest
    <3>4. \A f \in merged : f \in Envelopes
      BY <1>0 DEF QueryRecords, Unexpired, TypeInv, Entries
    <3>5. q.since \in Nat /\ e.stamp \in Nat /\ \A f \in a : f.stamp \in Nat
      BY <1>0, <3>2, <3>3, <3>4, StoreAssumption DEF QueryRecords
    <3>6. \A f \in a : f.stamp > q.since
      BY <3>1, <3>3, <3>5
    <3>7. answer = a
      BY <1>5, <3>6 DEF Answers
    <3> QED BY <3>3, <3>7
  <2> QED BY <2>1, <2>2
<1>6. ASSUME NEW t, NEW n, NEW s, QueryDurable(c, t, n, s) PROVE query'[c].pc = "merge"
  BY <1>0, <1>6 DEF QueryDurable
<1> QED BY <1>1, <1>2, <1>3, <1>4, <1>5, <1>6, QueryAnswers DEF OwnStep, LimitKeepsNewest

------------------------------------------------------------------------------
(* Streams                                                                  *)

\* A writer that has stored its envelope tells it: after any step of another
\* kind it still will.
LEMMA ToBeToldKept ==
  ASSUME TypeInv, [Next]_vars, ~NewStore, \A w \in Writers : ~notify(w),
         NEW e, ToBeTold(e)
  PROVE  ToBeTold(e)'
<1>1. PICK w \in Writers : job[w].env = e /\ job[w].todo = Told
  BY DEF ToBeTold
<1>2. ~Does(w, "ingest") /\ job[w].todo # <<>>
  BY <1>1, TodoFacts DEF Does
<1>3. SUFFICES job'[w] = job[w]
  BY <1>1 DEF ToBeTold
<1>4. job \in [Writers -> Jobs \cup {NoJob}]
  BY DEF TypeInv, JobTypes
<1>5. ASSUME NEW v \in Writers, NEW r \in Routes, NEW f \in Arrives[r], Arrive(v, r, f)
      PROVE  job'[w] = job[w]
  BY <1>2, <1>4, <1>5 DEF Arrive
<1>6. ASSUME NEW v \in Writers, Ingest(v) \/ IngestFails(v) PROVE job'[w] = job[w]
  BY <1>2, <1>4, <1>6 DEF Ingest, IngestFails, Done
<1>7. ASSUME NEW d \in Deleters,
             \/ \E r \in Deletes : Delete(d, r[1], r[2])
             \/ DeleteDurable(d) \/ DeleteFails(d) \/ DeleteEphemeral(d)
      PROVE  UNCHANGED job
  BY <1>7 DEF Delete, DeleteDurable, DeleteFails, DeleteEphemeral
<1>8. ASSUME NEW c \in Clients,
             \/ \E t \in Subscriptions : handleSubscribe(c, t)
             \/ subscribe(c) \/ Receive(c) \/ Unsubscribe(c) \/ QueryEphemeral(c)
             \/ \E r \in Queries : QueryDurable(c, r[1], r[2], r[3])
      PROVE  UNCHANGED job
  BY <1>8 DEF handleSubscribe, subscribe, Receive, Unsubscribe, QueryEphemeral, QueryDurable
<1>9. ASSUME ExpireEphemeral \/ Tick \/ UNCHANGED vars PROVE UNCHANGED job
  BY <1>9 DEF ExpireEphemeral, Tick, vars
<1> QED BY <1>5, <1>6, <1>7, <1>8, <1>9 DEF Next

\* notify tells every client of the topic that the hub knows, or its full channel;
\* the others whose stream is open have had it early.
LEMMA NotifyReaches ==
  ASSUME TypeInv, NEW w \in Writers, notify(w), NEW c \in Clients,
         NEW e, e.topic = stream[c].open, Reaches(c, e)
  PROVE  Reaches(c, e)'
<1> DEFINE f == job[w].env
<1>1. f \in Envelopes /\ Tail(job[w].todo) = <<>> /\ job[w] \in Jobs
  BY AtNotify DEF notify
<1>2. stream[c] \in Streams /\ stream[c].queue \in Seq(Envelopes)
  BY DEF TypeInv, Streams
<1>3. /\ known[c] \subseteq known'[c] /\ Range(stream[c].queue) \subseteq Range(stream'[c].queue)
      /\ f.topic = stream[c].topic => f \in known'[c] \cup Range(stream'[c].queue)
  <2>1. CASE f.topic # stream[c].topic
    BY <1>2, <2>1 DEF notify
  <2>2. CASE f.topic = stream[c].topic /\ Len(stream[c].queue) >= ChannelSize
    BY <1>2, <2>2 DEF notify
  <2>3. CASE f.topic = stream[c].topic /\ ~(Len(stream[c].queue) >= ChannelSize)
    <3>1. known'[c] = known[c] /\ stream'[c] = [stream[c] EXCEPT !.queue = Append(@, f)]
      BY <2>3 DEF notify
    <3>2. stream'[c].queue = Append(stream[c].queue, f)
      BY <1>2, <3>1 DEF Streams
    <3> QED BY <1>1, <1>2, <3>1, <3>2, RangeAppend
  <2> QED BY <2>1, <2>2, <2>3
<1>4. /\ early[c] \subseteq early'[c]
      /\ f.topic = stream[c].open /\ f.topic # stream[c].topic => f \in early'[c]
  BY DEF notify, TypeInv
<1>5. CASE e \in known[c] \cup Range(stream[c].queue) \cup early[c]
  BY <1>3, <1>4, <1>5 DEF Reaches
<1>6. CASE ToBeTold(e)
  <2>1. PICK v \in Writers : job[v].env = e /\ job[v].todo = Told
    BY <1>6 DEF ToBeTold
  <2>2. CASE v = w
    BY <1>3, <1>4, <2>1, <2>2 DEF Reaches
  <2>3. CASE v # w
    <3>1. job'[v] = job[v]
      BY <2>3 DEF notify, Done, TypeInv, JobTypes
    <3> QED BY <2>1, <3>1 DEF Reaches, ToBeTold
  <2> QED BY <2>2, <2>3
<1> QED BY <1>5, <1>6 DEF Reaches

\* What reaches a client goes on to reach it as long as it stays subscribed.
LEMMA ReachesKept ==
  ASSUME TypeInv, [Next]_vars, NEW c \in Clients, ~Unsubscribe(c), ~NewStore,
         NEW e, e.topic = stream[c].open, Reaches(c, e)
  PROVE  Reaches(c, e)'
<1>0. /\ stream \in [Clients -> Streams] /\ known \in [Clients -> SUBSET Envelopes]
      /\ early \in [Clients -> SUBSET Envelopes]
      /\ stream[c] \in Streams /\ stream[c].queue \in Seq(Envelopes)
  BY DEF TypeInv, Streams
<1>1. ASSUME NEW w \in Writers, notify(w) PROVE Reaches(c, e)'
  BY <1>1, NotifyReaches
<1>2. ASSUME \A w \in Writers : ~notify(w),
             early[c] \subseteq early'[c],
             \/ UNCHANGED <<stream, known>>
             \/ /\ known[c] \subseteq known'[c]
                /\ Range(stream[c].queue) \subseteq Range(stream'[c].queue)
             \/ known[c] \cup Range(stream[c].queue) \subseteq known'[c] \cup Range(stream'[c].queue)
      PROVE  Reaches(c, e)'
  BY <1>2, ToBeToldKept DEF Reaches
<1>3. ASSUME NEW w \in Writers,
             \/ \E r \in Routes : \E f \in Arrives[r] : Arrive(w, r, f)
             \/ Ingest(w) \/ IngestFails(w)
      PROVE  UNCHANGED <<stream, known, early>>
  BY <1>3 DEF Arrive, Ingest, IngestFails, readers
<1>4. ASSUME NEW d \in Deleters,
             \/ \E r \in Deletes : Delete(d, r[1], r[2])
             \/ DeleteDurable(d) \/ DeleteFails(d) \/ DeleteEphemeral(d)
      PROVE  UNCHANGED <<stream, known, early>>
  BY <1>4 DEF Delete, DeleteDurable, DeleteFails, DeleteEphemeral, readers
<1>5. ASSUME NEW b \in Clients, subscribe(b) \/ \E t \in Subscriptions : handleSubscribe(b, t)
      PROVE  UNCHANGED <<known, early>> /\ stream'[c].queue = stream[c].queue
  BY <1>0, <1>5 DEF handleSubscribe, subscribe, Streams
<1>6. ASSUME NEW b \in Clients, Receive(b)
      PROVE  /\ known[c] \cup Range(stream[c].queue) \subseteq known'[c] \cup Range(stream'[c].queue)
             /\ early' = early
  <2>1. CASE b # c
    BY <1>0, <1>6, <2>1 DEF Receive
  <2>2. CASE b = c
    <3>1. /\ stream'[c].queue = Tail(stream[c].queue) /\ stream[c].queue # <<>>
          /\ known'[c] = known[c] \cup {Head(stream[c].queue)}
      BY <1>0, <1>6, <2>2 DEF Receive, Streams
    <3> QED BY <1>0, <1>6, <3>1, RangeTail DEF Receive
  <2> QED BY <2>1, <2>2
<1>7. ASSUME NEW b \in Clients, Unsubscribe(b)
      PROVE  known'[c] = known[c] /\ early'[c] = early[c] /\ stream'[c] = stream[c]
  BY <1>0, <1>7 DEF Unsubscribe
<1>8. ASSUME NEW b \in Clients, QueryEphemeral(b)
      PROVE  known[c] \subseteq known'[c] /\ early' = early /\ stream'[c] = stream[c]
  BY <1>0, <1>8 DEF QueryEphemeral
<1>9. ASSUME NEW b \in Clients, NEW t, NEW n, NEW s, QueryDurable(b, t, n, s)
      PROVE  UNCHANGED <<stream, known, early>>
  BY <1>9 DEF QueryDurable
<1>10. ASSUME ExpireEphemeral \/ Tick \/ UNCHANGED vars PROVE UNCHANGED <<stream, known, early>>
  BY <1>10 DEF ExpireEphemeral, Tick, vars, readers
<1> QED BY <1>1, <1>2, <1>3, <1>4, <1>5, <1>6, <1>7, <1>8, <1>9, <1>10 DEF Next

\* Only a client's own steps, and a restart, change what it is subscribed to.
LEMMA TopicFrame ==
  ASSUME TypeInv, [Next]_vars, NEW c \in Clients, ~NewStore, ~Unsubscribe(c),
         \A t \in Subscriptions : ~handleSubscribe(c, t)
  PROVE  stream'[c].open = stream[c].open
<1>0. stream \in [Clients -> Streams]
  BY DEF TypeInv
<1>1. ASSUME NEW w \in Writers,
             \/ \E r \in Routes : \E f \in Arrives[r] : Arrive(w, r, f)
             \/ Ingest(w) \/ IngestFails(w)
      PROVE  UNCHANGED stream
  BY <1>1 DEF Arrive, Ingest, IngestFails, readers
<1>2. ASSUME NEW w \in Writers, notify(w) PROVE stream'[c].open = stream[c].open
  BY <1>0, <1>2 DEF notify, Streams
<1>3. ASSUME NEW d \in Deleters,
             \/ \E r \in Deletes : Delete(d, r[1], r[2])
             \/ DeleteDurable(d) \/ DeleteFails(d) \/ DeleteEphemeral(d)
      PROVE  UNCHANGED stream
  BY <1>3 DEF Delete, DeleteDurable, DeleteFails, DeleteEphemeral, readers
<1>4. ASSUME NEW b \in Clients, NEW t, b # c, handleSubscribe(b, t) \/ Unsubscribe(b)
      PROVE  stream'[c] = stream[c]
  BY <1>0, <1>4 DEF handleSubscribe, Unsubscribe
<1>5. ASSUME NEW b \in Clients, subscribe(b) \/ Receive(b)
      PROVE  stream'[c].open = stream[c].open
  BY <1>0, <1>5 DEF subscribe, Receive, Streams
<1>6. ASSUME NEW b \in Clients,
             QueryEphemeral(b) \/ \E r \in Queries : QueryDurable(b, r[1], r[2], r[3])
      PROVE  UNCHANGED stream
  BY <1>6 DEF QueryEphemeral, QueryDurable
<1>7. ASSUME ExpireEphemeral \/ Tick \/ UNCHANGED vars PROVE UNCHANGED stream
  BY <1>7 DEF ExpireEphemeral, Tick, vars, readers
<1> QED BY <1>1, <1>2, <1>3, <1>4, <1>5, <1>6, <1>7 DEF Next

\* A client is up to date only while it is subscribed: kept by every step.
LEMMA StreamStep == TypeInv /\ StreamInv /\ [Next]_vars => StreamInv'
<1> SUFFICES ASSUME TypeInv, StreamInv, [Next]_vars, NEW c \in Clients
             PROVE  /\ stream'[c].open = "none" => caught'[c] = {}
                    /\ query'[c].pc = "merge" /\ query'[c].live =>
                         stream'[c].open = query'[c].topic /\ query'[c].topic # "none"
  BY DEF StreamInv
<1>0. /\ stream \in [Clients -> Streams] /\ query \in [Clients -> QueryRecords]
      /\ caught \in [Clients -> SUBSET Nat]
  BY DEF TypeInv
<1>1. CASE ~OwnStep(c) /\ ~NewStore
  BY <1>1, QueryFrame, TopicFrame DEF OwnStep, StreamInv
<1>2. CASE NewStore
  BY <1>2, RestRecords DEF NewStore
<1>3. ASSUME NEW t \in Subscriptions, handleSubscribe(c, t)
      PROVE  /\ stream[c].open = "none" /\ stream'[c].open = t /\ t # "none"
             /\ UNCHANGED <<query, caught>>
  BY <1>0, <1>3, StoreAssumption DEF handleSubscribe, Streams
<1>4. CASE Unsubscribe(c)
  BY <1>0, <1>4 DEF Unsubscribe, QueryRecords
<1>5. ASSUME NEW a, NEW answer, NEW missing, Answers(c, a, answer, missing)
      PROVE  /\ stream' = stream /\ query'[c].pc # "merge"
             /\ caught'[c] # caught[c] => stream[c].open # "none"
  BY <1>0, <1>5, AnsweredQuery, RestRecords DEF Answers, StreamInv
<1>6. ASSUME NEW r \in Queries, QueryDurable(c, r[1], r[2], r[3])
      PROVE  /\ UNCHANGED <<stream, caught>> /\ query'[c].topic = r[1] /\ r[1] # "none"
             /\ query'[c].live => stream[c].open = r[1]
  BY <1>0, <1>6, StoreAssumption DEF QueryDurable
<1> QED BY <1>1, <1>2, <1>3, <1>4, <1>5, <1>6, QueryAnswers DEF OwnStep, StreamInv

\* What is new in the store, and not quiet, is going to be told.
LEMMA NewIsTold ==
  ASSUME TypeInv, [Next]_vars, ~NewStore
  PROVE  /\ \A e \in durable' \ quiet' : e \in durable \ quiet \/ ToBeTold(e)'
         /\ \A e \in Present' \ quiet' : e \in Present \ quiet \/ ToBeTold(e)'
<1>1. ASSUME NEW w \in Writers, Ingest(w)
      PROVE  /\ \A e \in durable' \ quiet' : e \in durable \ quiet \/ ToBeTold(e)'
             /\ \A e \in Present' \ quiet' : e \in Present \ quiet \/ ToBeTold(e)'
  <2> DEFINE f == job[w].env
  <2>1. durable' \subseteq durable \cup {f} /\ Present' \subseteq Present \cup {f}
    BY <1>1, IngestAdds
  <2>2. Does(w, "ingest") /\ Done(w, Tail(job[w].todo))
    BY <1>1 DEF Ingest
  <2>3. CASE job[w].todo = Loud
    <3>1. quiet' = quiet \ {f}
      BY <1>1, <2>2, <2>3, AtIngest, TodoFacts DEF Ingest
    <3>2. job'[w].todo = Told /\ job'[w].env = f
      BY <2>2, <2>3, AtIngest, JobStep, TodoFacts
    <3> QED BY <2>1, <3>1, <3>2 DEF ToBeTold
  <2>4. CASE job[w].todo = Mute
    <3>1. quiet' = quiet \cup {f}
      BY <1>1, <2>2, <2>4, AtIngest, TodoFacts DEF Ingest
    <3> QED BY <2>1, <3>1
  <2> QED BY <2>2, <2>3, <2>4, AtIngest
<1>2. CASE \A w \in Writers : ~Ingest(w)
  BY <1>2, StoreShrinks
<1> QED BY <1>1, <1>2

\* Every step keeps what is new since a live query began within its reach.
LEMMA MergeStep == TypeInv /\ StreamInv /\ MergeInv /\ [Next]_vars => MergeInv'
<1> SUFFICES ASSUME TypeInv, StreamInv, MergeInv, [Next]_vars, NEW c \in Clients,
                    query'[c].pc = "merge", query'[c].live, NEW e \in durable' \ quiet',
                    e.topic = query'[c].topic
             PROVE  e \in query'[c].found \/ Reaches(c, e)'
  BY DEF MergeInv
<1>0. query \in [Clients -> QueryRecords]
  BY DEF TypeInv
<1>1. ASSUME ~NewStore, ~Unsubscribe(c), query'[c] = query[c]
      PROVE  e \in query'[c].found \/ Reaches(c, e)'
  <2>1. CASE e \in durable \ quiet
    <3>1. stream[c].open = query[c].topic
      BY <1>1 DEF StreamInv
    <3> QED BY <1>1, <2>1, <3>1, ReachesKept DEF MergeInv
  <2>2. CASE ToBeTold(e)'
    BY <2>2 DEF Reaches
  <2> QED BY <1>1, <2>1, <2>2, NewIsTold
<1>2. CASE NewStore
  BY <1>2, RestRecords DEF NewStore
<1>3. ASSUME NEW t \in Subscriptions, handleSubscribe(c, t)
      PROVE  query' = query /\ ~NewStore /\ ~Unsubscribe(c)
  <2>1. query' = query /\ stream'[c].open # "none" /\ stream \in [Clients -> Streams]
    BY <1>3, StoreAssumption DEF handleSubscribe, TypeInv, Streams
  <2>2. ~NewStore
    BY <2>1, RestRecords DEF NewStore
  <2> QED BY <2>1, <2>2, RestRecords DEF Unsubscribe
<1>4. CASE Unsubscribe(c)
  BY <1>0, <1>4 DEF Unsubscribe, QueryRecords
<1>5. CASE QueryEphemeral(c)
  BY <1>5, QueryAnswers, AnsweredQuery, RestRecords
<1>6. ASSUME NEW r \in Queries, QueryDurable(c, r[1], r[2], r[3]) PROVE e \in query'[c].found
  <2>1. r[1] \in Topics /\ r[1] \in Under[r[1]]
    BY StoreAssumption
  <2>2. /\ query'[c].topic = r[1] /\ durable' = durable
        /\ query'[c].found = {f \in durable : f.topic \in Under[r[1]]}
    BY <1>0, <1>6 DEF QueryDurable, store
  <2> QED BY <2>1, <2>2
<1>7. CASE ~OwnStep(c) /\ ~NewStore
  BY <1>1, <1>7, QueryFrame DEF OwnStep
<1> QED BY <1>1, <1>2, <1>3, <1>4, <1>5, <1>6, <1>7 DEF OwnStep

\* Every step keeps a client that is up to date so.
LEMMA GapStep == TypeInv /\ StreamInv /\ MergeInv /\ GapInv /\ [Next]_vars => GapInv'
<1> SUFFICES ASSUME TypeInv, StreamInv, MergeInv, GapInv, [Next]_vars, NEW c \in Clients,
                    NEW s \in caught'[c], NEW e \in Present' \ quiet',
                    e.topic = stream'[c].open, e.stamp > s
             PROVE  Reaches(c, e)'
  BY DEF GapInv
<1>0. query \in [Clients -> QueryRecords] /\ caught \in [Clients -> SUBSET Nat]
  BY DEF TypeInv
<1>1. ASSUME ~NewStore, ~Unsubscribe(c), s \in caught[c], stream'[c].open = stream[c].open
      PROVE  Reaches(c, e)'
  <2>1. CASE e \in Present \ quiet
    BY <1>1, <2>1, ReachesKept DEF GapInv
  <2>2. CASE ToBeTold(e)'
    BY <2>2 DEF Reaches
  <2> QED BY <1>1, <2>1, <2>2, NewIsTold
<1>2. CASE NewStore
  BY <1>2 DEF NewStore
<1>3. ASSUME NEW t, handleSubscribe(c, t) PROVE FALSE
  BY <1>3 DEF handleSubscribe, StreamInv
<1>4. CASE Unsubscribe(c)
  BY <1>0, <1>4 DEF Unsubscribe
<1>5. ASSUME NEW a, NEW answer, NEW missing, Answers(c, a, answer, missing), s \notin caught[c]
      PROVE  Reaches(c, e)'
  <2> DEFINE q == query[c]
             merged == q.found \cup {f \in Unexpired : f.topic = q.topic}
  <2>1. q.pc = "merge" /\ q.live /\ a = merged /\ s = q.since
    BY <1>0, <1>5 DEF Answers
  <2>2. stream[c].open = q.topic /\ stream' = stream
    BY <1>5, <2>1 DEF Answers, StreamInv
  <2>3. /\ durable' = durable /\ Present' = Present /\ quiet' = quiet
        /\ job' = job /\ early' = early
    BY <1>5 DEF Answers, store, Present, Unexpired, IsExpired
  <2>4. known'[c] = known[c] \cup answer /\ answer = {f \in a : f.stamp > q.since}
    BY <1>5, <2>1 DEF Answers, TypeInv
  <2>5. CASE e \in merged
    BY <2>1, <2>4, <2>5 DEF Reaches
  <2>6. CASE e \notin merged
    <3>1. e \in durable \ quiet
      BY <2>2, <2>3, <2>6 DEF Present
    <3>2. Reaches(c, e)
      BY <2>1, <2>2, <2>6, <3>1 DEF MergeInv
    <3> QED BY <2>2, <2>3, <2>4, <3>2 DEF Reaches, ToBeTold
  <2> QED BY <2>5, <2>6
<1>6. ASSUME NEW a, NEW answer, NEW missing, Answers(c, a, answer, missing)
      PROVE  stream' = stream
  BY <1>6 DEF Answers
<1>7. ASSUME NEW t, NEW n, NEW k, QueryDurable(c, t, n, k) PROVE UNCHANGED <<caught, stream>>
  BY <1>7 DEF QueryDurable
<1>8. ASSUME ~NewStore, ~Unsubscribe(c), \A t \in Subscriptions : ~handleSubscribe(c, t),
             ~QueryEphemeral(c)
      PROVE  caught'[c] = caught[c] /\ stream'[c].open = stream[c].open
  BY <1>7, <1>8, QueryFrame, TopicFrame DEF OwnStep
<1>9. CASE QueryEphemeral(c) /\ ~NewStore /\ ~Unsubscribe(c)
  BY <1>1, <1>5, <1>6, <1>9, QueryAnswers
<1> QED BY <1>1, <1>2, <1>3, <1>4, <1>8, <1>9

------------------------------------------------------------------------------
(* Keys and channels                                                        *)

\* An envelope replaces the one under its key, and a full channel takes no more.
LEMMA BoundStep == TypeInv /\ BoundInv /\ [Next]_vars => BoundInv'
<1> SUFFICES ASSUME TypeInv, BoundInv, [Next]_vars PROVE BoundInv'
  OBVIOUS
<1> USE StoreAssumption
<1>1. /\ \A e, f \in durable' : e.key = f.key => e = f
      /\ \A x, y \in ephemeral' : x.env.key = y.env.key => x = y
  <2>1. CASE \A w \in Writers : ~Ingest(w)
    BY <2>1, StoreShrinks DEF BoundInv
  <2>2. ASSUME NEW e, storeDurable(e) PROVE <1>1!1 /\ <1>1!2
    BY <2>2 DEF storeDurable, BoundInv
  <2>3. ASSUME NEW e, storeEphemeral(e) PROVE <1>1!1 /\ <1>1!2
    <3> DEFINE n == [env |-> e, at |-> clock]
    <3>1. n.env = e
      OBVIOUS
    <3>2. /\ ephemeral' = {x \in ephemeral : x.env.key # e.key} \cup {n}
          /\ durable' = durable
      BY <2>3 DEF storeEphemeral
    <3> QED BY <3>1, <3>2 DEF BoundInv
  <2> QED BY <2>1, <2>2, <2>3 DEF Ingest
<1>2. ASSUME NEW c \in Clients PROVE Len(stream'[c].queue) <= ChannelSize
  <2>0. /\ stream \in [Clients -> Streams] /\ stream[c].queue \in Seq(Envelopes)
        /\ Len(stream[c].queue) \in Nat /\ Len(stream[c].queue) <= ChannelSize
    <3>1. stream \in [Clients -> Streams] /\ stream[c].queue \in Seq(Envelopes)
      BY DEF TypeInv, Streams
    <3> QED BY <3>1, LenProperties DEF BoundInv
  <2>1. ASSUME NEW w \in Writers, notify(w) PROVE Len(stream'[c].queue) <= ChannelSize
    <3>1. job[w].env \in Envelopes
      BY <2>1, AtNotify DEF notify
    <3>2. \/ stream'[c] = stream[c]
          \/ /\ ~(Len(stream[c].queue) >= ChannelSize)
             /\ stream'[c].queue = Append(stream[c].queue, job[w].env)
      BY <2>0, <2>1 DEF notify, Streams
    <3>3. Len(Append(stream[c].queue, job[w].env)) = Len(stream[c].queue) + 1
      BY <2>0, <3>1, AppendProperties
    <3> QED BY <2>0, <3>2, <3>3
  <2>2. ASSUME NEW b \in Clients, Receive(b) PROVE Len(stream'[c].queue) <= ChannelSize
    <3>1. CASE b # c
      BY <2>0, <2>2, <3>1 DEF Receive
    <3>2. CASE b = c
      <4>1. stream'[c].queue = Tail(stream[c].queue) /\ stream[c].queue # <<>>
        BY <2>0, <2>2, <3>2 DEF Receive, Streams
      <4>2. Len(Tail(stream[c].queue)) = Len(stream[c].queue) - 1
        BY <2>0, <4>1, HeadTailProperties
      <4> QED BY <2>0, <4>1, <4>2
    <3> QED BY <3>1, <3>2
  <2>3. ASSUME NEW b \in Clients, NEW t, handleSubscribe(b, t) \/ subscribe(b) \/ Unsubscribe(b)
        PROVE  Len(stream'[c].queue) <= ChannelSize
    <3>1. CASE handleSubscribe(b, t) \/ subscribe(b)
      <4>1. stream'[c].queue = stream[c].queue
        <5>1. CASE handleSubscribe(b, t)
          BY <2>0, <5>1 DEF handleSubscribe, Streams
        <5>2. CASE subscribe(b)
          BY <2>0, <5>2 DEF subscribe, Streams
        <5> QED BY <3>1, <5>1, <5>2
      <4> QED BY <2>0, <4>1
    <3>2. CASE Unsubscribe(b)
      <4>1. stream'[c] = stream[c] \/ stream'[c] = NoStream
        BY <2>0, <3>2 DEF Unsubscribe
      <4> QED BY <2>0, <4>1, RestRecords
    <3> QED BY <2>3, <3>1, <3>2
  <2>4. CASE NewStore
    <3>1. stream'[c].queue = <<>>
      BY <2>4, RestRecords DEF NewStore
    <3> QED BY <3>1
  <2>5. ASSUME NEW w \in Writers,
               \/ \E r \in Routes : \E f \in Arrives[r] : Arrive(w, r, f)
               \/ Ingest(w) \/ IngestFails(w)
        PROVE  UNCHANGED stream
    BY <2>5 DEF Arrive, Ingest, IngestFails, readers
  <2>6. ASSUME NEW d \in Deleters,
               \/ \E r \in Deletes : Delete(d, r[1], r[2])
               \/ DeleteDurable(d) \/ DeleteFails(d) \/ DeleteEphemeral(d)
        PROVE  UNCHANGED stream
    BY <2>6 DEF Delete, DeleteDurable, DeleteFails, DeleteEphemeral, readers
  <2>7. ASSUME NEW b \in Clients,
               QueryEphemeral(b) \/ \E r \in Queries : QueryDurable(b, r[1], r[2], r[3])
        PROVE  UNCHANGED stream
    BY <2>7 DEF QueryEphemeral, QueryDurable
  <2>8. ASSUME ExpireEphemeral \/ Tick \/ UNCHANGED vars PROVE UNCHANGED stream
    BY <2>8 DEF ExpireEphemeral, Tick, vars, readers
  <2> QED BY <2>0, <2>1, <2>2, <2>3, <2>4, <2>5, <2>6, <2>7, <2>8 DEF Next
<1> QED BY <1>1, <1>2 DEF BoundInv

------------------------------------------------------------------------------
(* The theorems                                                             *)

\* An empty store, with nobody at work, satisfies the invariant.
LEMMA InitIInv == Init => IInv
<1> SUFFICES ASSUME Init PROVE IInv
  OBVIOUS
<1> USE StoreAssumption
<1>1. TypeInv
  <2>1. JobTypes
    BY TodoFacts, RestRecords DEF Init, JobTypes
  <2> QED BY <2>1, RestRecords DEF Init, TypeInv
<1>2. BoundInv
  <2>1. \A c \in Clients : stream[c].queue = <<>>
    BY RestRecords DEF Init
  <2> QED BY <2>1 DEF Init, BoundInv
<1>3. /\ \A d \in Deleters : del[d].pc = "idle"
      /\ \A c \in Clients : query[c].pc = "idle" /\ caught[c] = {}
  BY RestRecords DEF Init
<1> QED BY <1>1, <1>2, <1>3
    DEF IInv, DeleteInv, OwedInv, StreamInv, GapInv, MergeInv, LimitKeepsNewest

\* Every step keeps the invariant.
LEMMA StepIInv == IInv /\ [Next]_vars => IInv'
BY StepTypes, BoundStep, DeleteStep, OwedStep, LimitStep, StreamStep, GapStep, MergeStep DEF IInv

\* The invariant holds throughout.
THEOREM StoreInvariant == Spec => []IInv
BY InitIInv, StepIInv, PTL DEF Spec

\* Types; each medium holds at most one envelope per key, whoever ingests and
\* deletes meanwhile, and no channel of sse.go grows past its size.
THEOREM StoreTypes == Spec => []TypeOK
<1>1. IInv => TypeOK
  <2> SUFFICES ASSUME IInv PROVE TypeOK
    OBVIOUS
  <2>1. \A w \in Writers : job[w] = NoJob \/ job[w].env \in Envelopes
    BY DEF IInv, TypeInv, JobTypes, Jobs
  <2>2. \A c \in Clients : {stream[c].open, stream[c].topic} \subseteq Topics \cup {"none"}
    BY DEF IInv, TypeInv, Streams
  <2> QED BY <2>1, <2>2 DEF IInv, TypeInv, BoundInv, Entries, TypeOK
<1> QED BY <1>1, StoreInvariant, PTL

\* Store.Delete leaves nothing of what its key named when it began, though it
\* goes through the two media in two steps and others write in between.
THEOREM DeletionsLeaveNothing == Spec => []DeleteLeavesNothing
<1>1. IInv => DeleteLeavesNothing
  BY DEF IInv, DeleteInv, DeleteLeavesNothing
<1> QED BY <1>1, StoreInvariant, PTL

\* QueryByTopic leaves out an envelope that was there throughout only when the
\* limit is used up by envelopes at least as new.
THEOREM LimitedQueriesKeepNewest == Spec => []LimitKeepsNewest
<1>1. IInv => LimitKeepsNewest
  BY DEF IInv
<1> QED BY <1>1, StoreInvariant, PTL

\* A client that waits for its stream to open and then queries misses nothing that
\* a route which notifies has stored, except what was notified before the hub knew
\* its channel: handleSubscribe flushes the headers first.
THEOREM SubscribersMissNothing == Spec => []NoGap
<1>1. IInv => NoGap
  <2> SUFFICES ASSUME IInv, NEW c \in Clients, NEW s \in caught[c],
                      NEW e \in Present \ quiet,
                      e.topic = stream[c].open, e.stamp > s
               PROVE  \/ e \in known[c] \cup Range(stream[c].queue) \cup early[c]
                      \/ \E w \in Writers : job[w].env = e /\ "notify" \in Range(job[w].todo)
    BY DEF NoGap
  <2>1. Reaches(c, e)
    BY DEF IInv, GapInv
  <2> QED BY <2>1, TodoFacts DEF Reaches, ToBeTold
<1> QED BY <1>1, StoreInvariant, PTL

==============================================================================
