---------------------------- MODULE EnvelopeStore ----------------------------
(***************************************************************************)
(* The envelope store (internal/envelope/store.go) with what writes to it    *)
(* and reads from it in one node: POST, GET and DELETE /data, mesh           *)
(* messages, the heartbeat feed (internal/feeds), the sweeper, and the hub   *)
(* that streams new envelopes to subscribers (internal/api/sse.go).          *)
(*                                                                          *)
(* Durable envelopes are in LevelDB, which no lock guards; ephemeral ones in *)
(* a map under a mutex, lost when the process ends.  A handler that touches  *)
(* both does so in two steps, and others run in between.                     *)
(***************************************************************************)
EXTENDS Integers, Sequences, FiniteSets, Functions

CONSTANTS
  Envelopes,      \* records: topic, key, durable, ttl, stamp, valid, size
  Topics, Keys,
  Under,          \* Under[t]: the topics t and t:..., whose LevelDB keys begin with d:t:
  Arrives,        \* the envelopes that come by each of Routes
  Clients,        \* they query, and hold one stream at a time
  Queries,        \* <<topic, limit, since>> of GET /data
  Deletes,        \* <<topic, key>> of DELETE /data
  Subscriptions,  \* topics of GET /data/subscribe
  Writers, Deleters,       \* goroutines that ingest and that delete
  ChannelSize,             \* of a subscriber, 16 in the code
  MaxEphemeralTTL, MaxDurableSize,
  MaxClock

Routes == {"post", "mesh", "catchup", "feed"}

ASSUME StoreAssumption ==
  /\ \A e \in Envelopes : /\ e.topic \in Topics /\ e.key \in Keys
                          /\ e.durable \in BOOLEAN /\ e.valid \in BOOLEAN
                          /\ e.ttl \in Nat /\ e.stamp \in Nat /\ e.size \in Nat
  /\ \A e, f \in Envelopes : e.key = f.key => e.topic = f.topic
  /\ "none" \notin Topics
  /\ Under \in [Topics -> SUBSET Topics] /\ \A t \in Topics : t \in Under[t]
  /\ Arrives \in [Routes -> SUBSET Envelopes]
  /\ IsFiniteSet(Envelopes)
  /\ Queries \subseteq Topics \X (Nat \ {0}) \X Nat
  /\ Deletes \subseteq Topics \X Keys /\ Subscriptions \subseteq Topics
  /\ ChannelSize \in Nat \ {0} /\ MaxClock \in Nat
  /\ MaxEphemeralTTL \in Nat /\ MaxDurableSize \in Nat

VARIABLES
  clock,
  durable,    \* the envelopes in LevelDB, at most one per key
  ephemeral,  \* s.ephemeral: pairs of an envelope and its ReceivedAt, one per key
  job,        \* what each writer has still to do with which envelope
  del,        \* where each Delete is
  stream,     \* open: topic of the stream a client holds; topic: of its channel in the hub
  query,      \* each client's query; its answer stays only if it lacks something
  known,      \* what a client was sent since it subscribed, and what its full channel cost it
  early,      \* what was notified when its stream was open and not in the hub yet
  caught,     \* the since parameters for which it is up to date
  quiet       \* envelopes stored by a route that notifies nobody

store == <<durable, ephemeral>>
readers == <<stream, query, known, early, caught>>
vars == <<clock, store, job, del, readers, quiet>>

NoJob == [env |-> [topic |-> "none"], route |-> "none", todo |-> <<>>]
NoDelete == [pc |-> "idle", topic |-> "none", key |-> "none", old |-> {}]
NoStream == [open |-> "none", topic |-> "none", queue |-> <<>>]
NoQuery == [pc |-> "idle", topic |-> "none", limit |-> 0, since |-> 0, live |-> FALSE,
            found |-> {}, owed |-> {}]

Init == /\ clock = 0 /\ durable = {} /\ ephemeral = {} /\ quiet = {}
        /\ job = [w \in Writers |-> NoJob] /\ del = [d \in Deleters |-> NoDelete]
        /\ stream = [c \in Clients |-> NoStream] /\ query = [c \in Clients |-> NoQuery]
        /\ known = [c \in Clients |-> {}] /\ early = [c \in Clients |-> {}]
        /\ caught = [c \in Clients |-> {}]


IsExpired(entry) == clock - entry.at > entry.env.ttl
Unexpired == {entry.env : entry \in {x \in ephemeral : ~IsExpired(x)}}
Present == durable \cup Unexpired

------------------------------------------------------------------------------
(* Writers                                                                  *)

\* Mutant: subscribers are told first.
NotifyFirst == <<"notify", "ingest">>

\* What each route does with an envelope, in order; gossip is in EnvelopeGossip.
handlePostData == <<"ingest", "notify">>
onEnvelope == <<"ingest", "notify">>
onDataResponse == <<"ingest">>
publish == <<"ingest">>

Steps(route) == CASE route = "post" -> handlePostData
                  [] route = "mesh" -> onEnvelope
                  [] route = "catchup" -> onDataResponse
                  [] route = "feed" -> publish

\* What does not verify is dropped by every route before it has any effect.
Arrive(w, route, e) ==
  /\ job[w].todo = <<>> /\ e.valid
  /\ job' = [job EXCEPT ![w] = [env |-> e, route |-> route, todo |-> Steps(route)]]
  /\ UNCHANGED <<clock, store, del, readers, quiet>>

storeDurable(e) ==
  /\ e.durable /\ e.size <= MaxDurableSize
  /\ durable' = {f \in durable : f.key # e.key} \cup {e}
  /\ UNCHANGED ephemeral

storeEphemeral(e) ==
  /\ ~e.durable /\ e.ttl <= MaxEphemeralTTL
  /\ ephemeral' = {x \in ephemeral : x.env.key # e.key} \cup {[env |-> e, at |-> clock]}
  /\ UNCHANGED durable

Does(w, step) == job[w].todo # <<>> /\ Head(job[w].todo) = step
Done(w, rest) == job' = [job EXCEPT ![w] = IF rest = <<>> THEN NoJob ELSE [@ EXCEPT !.todo = rest]]

Ingest(w) ==
  LET e == job[w].env
  IN  /\ Does(w, "ingest")
      /\ storeDurable(e) \/ storeEphemeral(e)
      /\ del' = [d \in Deleters |-> [del[d] EXCEPT !.old = @ \ {e}]]
      /\ quiet' = IF "notify" \in Range(Steps(job[w].route)) THEN quiet \ {e} ELSE quiet \cup {e}
      /\ Done(w, Tail(job[w].todo))
      /\ UNCHANGED <<clock, readers>>

\* Over a limit, or the Put failed.  Only onEnvelope goes on.
IngestFails(w) ==
  LET e == job[w].env
  IN  /\ Does(w, "ingest")
      /\ \/ e.durable
         \/ e.ttl > MaxEphemeralTTL
      /\ Done(w, IF job[w].route = "mesh" THEN Tail(job[w].todo) ELSE <<>>)
      /\ UNCHANGED <<clock, store, del, readers, quiet>>

\* h.notify: a full channel loses the envelope.
notify(w) ==
  LET e == job[w].env
      Told == {c \in Clients : stream[c].topic = e.topic}
      Full == {c \in Told : Len(stream[c].queue) >= ChannelSize}
  IN  /\ Does(w, "notify")
      /\ stream' = [c \in Clients |-> IF c \in Told \ Full
                                      THEN [stream[c] EXCEPT !.queue = Append(@, e)]
                                      ELSE stream[c]]
      /\ known' = [c \in Clients |-> IF c \in Full THEN known[c] \cup {e} ELSE known[c]]
      /\ early' = [c \in Clients |-> IF stream[c].open = e.topic /\ c \notin Told
                                     THEN early[c] \cup {e} ELSE early[c]]
      /\ Done(w, Tail(job[w].todo))
      /\ UNCHANGED <<clock, store, del, query, caught, quiet>>

ExpireEphemeral ==
  /\ \E x \in ephemeral : IsExpired(x)
  /\ ephemeral' = {x \in ephemeral : ~IsExpired(x)}
  /\ UNCHANGED <<clock, durable, job, del, readers, quiet>>

Tick == /\ clock < MaxClock /\ clock' = clock + 1
        /\ UNCHANGED <<store, job, del, readers, quiet>>

------------------------------------------------------------------------------
(* DELETE /data                                                             *)

\* The answer of a Delete is kept for as long as there is something to compare.
Answered(r) == IF r.old = {} THEN NoDelete ELSE [r EXCEPT !.pc = "done"]

AtKey(topic, key) == {e \in Present : e.key = key /\ e.topic = topic}

\* Has, the first step.
Delete(d, topic, key) ==
  /\ del[d].pc \in {"idle", "done"}
  /\ del' = [del EXCEPT ![d] =
       [pc |-> IF \E e \in durable : e.topic = topic /\ e.key = key
               THEN "durable" ELSE "ephemeral",
        topic |-> topic, key |-> key, old |-> AtKey(topic, key)]]
  /\ UNCHANGED <<clock, store, job, readers, quiet>>

\* Mutant: the map is left alone when there was a durable envelope.
DeleteDurableReturns(d) ==
  /\ del[d].pc = "durable"
  /\ durable' = {e \in durable : ~(e.topic = del[d].topic /\ e.key = del[d].key)}
  /\ del' = [del EXCEPT ![d] = Answered(@)]
  /\ UNCHANGED <<clock, ephemeral, job, readers, quiet>>

DeleteDurable(d) ==
  /\ del[d].pc = "durable"
  /\ durable' = {e \in durable : ~(e.topic = del[d].topic /\ e.key = del[d].key)}
  /\ del' = [del EXCEPT ![d].pc = "ephemeral"]
  /\ UNCHANGED <<clock, ephemeral, job, readers, quiet>>

\* LevelDB fails Has or Delete: 500, and the map is not looked at.
DeleteFails(d) ==
  /\ del[d].pc = "durable"
  /\ del' = [del EXCEPT ![d] = NoDelete]
  /\ UNCHANGED <<clock, store, job, readers, quiet>>

\* The map is keyed by the key alone, whatever the topic.
DeleteEphemeral(d) ==
  /\ del[d].pc = "ephemeral"
  /\ ephemeral' = {x \in ephemeral : x.env.key # del[d].key}
  /\ del' = [del EXCEPT ![d] = Answered(@)]
  /\ UNCHANGED <<clock, durable, job, readers, quiet>>

------------------------------------------------------------------------------
(* GET /data and GET /data/subscribe                                        *)

\* The headers are written and flushed: the client sees the stream open.
handleSubscribe(c, topic) ==
  /\ stream[c].open = "none"
  /\ stream' = [stream EXCEPT ![c].open = topic]
  /\ UNCHANGED <<clock, store, job, del, query, known, early, caught, quiet>>

\* Only then does the hub learn of the channel.
subscribe(c) ==
  /\ stream[c].open # "none" /\ stream[c].topic = "none"
  /\ stream' = [stream EXCEPT ![c].topic = stream[c].open]
  /\ UNCHANGED <<clock, store, job, del, query, known, early, caught, quiet>>

Receive(c) ==
  /\ stream[c].queue # <<>>
  /\ stream' = [stream EXCEPT ![c].queue = Tail(@)]
  /\ known' = [known EXCEPT ![c] = @ \cup {Head(stream[c].queue)}]
  /\ UNCHANGED <<clock, store, job, del, query, early, caught, quiet>>

Unsubscribe(c) ==
  /\ stream[c].topic # "none"
  /\ stream' = [stream EXCEPT ![c] = NoStream]
  /\ known' = [known EXCEPT ![c] = {}] /\ early' = [early EXCEPT ![c] = {}]
  /\ caught' = [caught EXCEPT ![c] = {}]
  /\ query' = [query EXCEPT ![c].live = FALSE]
  /\ UNCHANGED <<clock, store, job, del, quiet>>

\* QueryByTopic: the iterator is a snapshot, taken by prefix of the key.
QueryDurable(c, topic, limit, since) ==
  /\ query[c].pc # "merge"
  /\ query' = [query EXCEPT ![c] =
       [pc |-> "merge", topic |-> topic, limit |-> limit, since |-> since,
        live |-> stream[c].open = topic,
        found |-> {e \in durable : e.topic \in Under[topic]},
        owed |-> {e \in Present : e.topic = topic}]]
  /\ UNCHANGED <<clock, store, job, del, stream, known, early, caught, quiet>>

\* Mutant: the limit is applied to what the stores hold, in any order.
AnyOf(found, limit) ==
  {a \in SUBSET found : \/ Cardinality(a) = limit
                        \/ a = found /\ Cardinality(found) < limit}

\* The first limit results after the sort, newest first; ties in any order.
Newest(found, limit) ==
  {a \in SUBSET found :
     /\ \/ Cardinality(a) = limit
        \/ a = found /\ Cardinality(found) < limit
     /\ \A e \in a, f \in found \ a : e.stamp >= f.stamp}

\* The map is read and the lists merged; since is applied to what the limit left.
QueryEphemeral(c) ==
  LET q == query[c]
      merged == q.found \cup {e \in Unexpired : e.topic = q.topic}
  IN  /\ q.pc = "merge"
      /\ \E a \in Newest(merged, q.limit) :
           LET answer == {e \in a : e.stamp > q.since}
               missing == {e \in q.owed \cap Present : e.stamp > q.since} \ answer
               whole == q.live /\ a = merged
           IN  /\ query' = [query EXCEPT ![c] =
                    IF missing = {} THEN NoQuery
                    ELSE [q EXCEPT !.pc = "answered", !.found = answer, !.owed = missing]]
               /\ known' = [known EXCEPT ![c] = IF q.live THEN @ \cup answer ELSE @]
               /\ caught' = [caught EXCEPT ![c] = IF whole THEN @ \cup {q.since} ELSE @]
      /\ UNCHANGED <<clock, store, job, del, stream, early, quiet>>

------------------------------------------------------------------------------
\* The process ends and starts again.
NewStore ==
  /\ ephemeral' = {} /\ quiet' = {}
  /\ job' = [w \in Writers |-> NoJob] /\ del' = [d \in Deleters |-> NoDelete]
  /\ stream' = [c \in Clients |-> NoStream] /\ query' = [c \in Clients |-> NoQuery]
  /\ known' = [c \in Clients |-> {}] /\ early' = [c \in Clients |-> {}]
  /\ caught' = [c \in Clients |-> {}]
  /\ UNCHANGED <<clock, durable>>

Next == \/ \E w \in Writers, r \in Routes : \E e \in Arrives[r] : Arrive(w, r, e)
        \/ \E w \in Writers : Ingest(w) \/ IngestFails(w) \/ notify(w)
        \/ \E d \in Deleters, r \in Deletes : Delete(d, r[1], r[2])
        \/ \E d \in Deleters : DeleteDurable(d) \/ DeleteFails(d) \/ DeleteEphemeral(d)
        \/ \E c \in Clients, t \in Subscriptions : handleSubscribe(c, t)
        \/ \E c \in Clients : subscribe(c) \/ Receive(c) \/ Unsubscribe(c) \/ QueryEphemeral(c)
        \/ \E c \in Clients, r \in Queries : QueryDurable(c, r[1], r[2], r[3])
        \/ ExpireEphemeral \/ Tick \/ NewStore

Spec == Init /\ [][Next]_vars

------------------------------------------------------------------------------
(* Properties                                                               *)

\* Types of the variables.
TypeOK ==
  /\ clock \in 0..MaxClock
  /\ durable \subseteq Envelopes /\ quiet \subseteq Envelopes
  /\ ephemeral \subseteq [env : Envelopes, at : 0..MaxClock]
  /\ \A e, f \in durable : e.key = f.key => e = f
  /\ \A x, y \in ephemeral : x.env.key = y.env.key => x = y
  /\ \A w \in Writers : job[w] = NoJob \/ job[w].env \in Envelopes
  /\ \A c \in Clients : {stream[c].open, stream[c].topic} \subseteq Topics \cup {"none"}
  /\ \A c \in Clients : Len(stream[c].queue) <= ChannelSize

\* A client that waits for its stream to open and then asks for what was there
\* before (the backfill that handleSubscribe's gap warning advises) knows all of
\* its topic: what the store holds and the answer lacked is in its stream, was
\* sent, was lost to its full channel, or will be notified - or it was notified
\* in the one gap there is, after the headers were flushed and before the hub
\* knew the channel.  It relies on Ingest coming before notify; what catch-up
\* and the feeds store is not notified at all.
NoGap ==
  \A c \in Clients : \A s \in caught[c] : \A e \in Present \ quiet :
    e.topic = stream[c].open /\ e.stamp > s =>
      \/ e \in known[c] \cup Range(stream[c].queue) \cup early[c]
      \/ \E w \in Writers : job[w].env = e /\ "notify" \in Range(job[w].todo)

\* QueryByTopic, though it reads the two stores at different times: an envelope
\* of the topic newer than since that was there when the query began and when
\* it was answered is in the answer, unless the limit cut the answer and all that
\* is in it is at least as new.
LimitKeepsNewest ==
  \A c \in Clients : query[c].pc = "answered" =>
    \A e \in query[c].owed :
      /\ Cardinality(query[c].found) = query[c].limit
      /\ \A f \in query[c].found : f.stamp >= e.stamp

\* When Delete has answered, what the key named when it began is gone from both
\* stores, unless it was ingested again meanwhile; the durable and the ephemeral
\* store can each have an envelope with the same key.
DeleteLeavesNothing ==
  \A d \in Deleters : del[d].pc = "done" => del[d].old \cap Present = {}

==============================================================================
