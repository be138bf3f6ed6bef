--------------------------- MODULE EnvelopeGossip ----------------------------
(***************************************************************************)
(* Flooding of data envelopes over the mesh (internal/gossip/handlers.go and *)
(* Manager.BroadcastEnvelope): posting through the API, duplicate            *)
(* suppression with a bounded set of hashes, detection of conflicting        *)
(* payloads, forwarding to the peers that declared an interest, and the      *)
(* catch-up that two peers ask of each other when they connect.              *)
(*                                                                           *)
(* An envelope stands for its hash (topic, public key, payload, timestamp),   *)
(* which does not cover the signature: copies with and without a good         *)
(* signature have the same hash.  Ident is the hash without the payload.      *)
(***************************************************************************)
EXTENDS Integers, Sequences, FiniteSets

CONSTANTS
  Nodes,
  Links,          \* the pairs of nodes that connect to each other
  Topics,
  Interests,      \* LocalInterests: the topics the prefixes of a node match
  CatchUp,        \* CatchUpTopics, a sequence
  Envelopes,
  Idents,
  Ident,          \* topic, key and timestamp of an envelope
  Topic,
  Ingestible,     \* those within the size and TTL limits of the stores
  NoGossip,       \* the envelopes marked local-only
  Local,          \* the envelopes whose key is in LocalPubkeys of a node
  Posts,          \* the envelopes clients post at a node
  Strays,         \* <<e, signed>>: the copies a peer outside Nodes may send to a node
  Outside,        \* that peer
  Client,         \* the sender of a post
  Warnings,       \* the hashes of slash warnings
  MaxSeen,
  CatchUpLimit,   \* the Limit of a catch-up request
  Room,           \* the messages that fit the buffers of a connection
  MaxUpsets       \* bound on broken links, stray and rate-limited messages, warnings

ASSUME EnvelopeAssumption ==
  /\ IsFiniteSet(Envelopes) /\ IsFiniteSet(Idents) /\ Envelopes \cap Idents = {}
  /\ IsFiniteSet(Warnings) /\ Warnings \cap (Envelopes \cup Idents) = {}
  /\ Links \subseteq SUBSET Nodes
  /\ Interests \in [Nodes -> SUBSET Topics] /\ CatchUp \in Seq(Topics)
  /\ Ident \in [Envelopes -> Idents] /\ Topic \in [Envelopes -> Topics]
  /\ Ingestible \subseteq Envelopes /\ NoGossip \subseteq Envelopes
  /\ Local \in [Nodes -> SUBSET Envelopes]
  /\ Posts \in [Nodes -> SUBSET Ingestible] /\ Strays \in [Nodes -> SUBSET (Envelopes \X BOOLEAN)]
  /\ {Outside, Client} \cap Nodes = {} /\ Outside # Client
  /\ MaxSeen \in Nat /\ MaxSeen >= 4 /\ MaxUpsets \in Nat
  /\ CatchUpLimit \in Nat /\ Room \in Nat \ {0}

VARIABLES
  linked,     \* the connections that are up
  announcing, \* announcing[a][b]: what a has yet to announce to b
  chan,       \* chan[a][b]: the messages from a to b on their connection
  interests,  \* interests[a][b]: the topics that b declared to a
  seen,       \* the hashes of envelopes, identities and warnings a node has seen
  dupCounts,  \* payloads beyond the first for an identity, up to 2
  reported,   \* dupReported
  stored,     \* the envelope store
  forwards,   \* <<e, sender>>: stored, and about to be forwarded
  answers,    \* answers[n][a]: the answer to a's request that n has yet to send
  unchecked,  \* how many hashes were added to seen without a look at its limit
  missed,     \* <<n, e>>: n refused a copy of e, or was not sent one
  posted, strayed, evicted, upsets   \* what happened, for the properties

vars == <<linked, announcing, chan, interests, seen, dupCounts, reported, stored,
          forwards, answers, unchecked, missed, posted, strayed, evicted, upsets>>

Pairs == {p \in Nodes \X Nodes : {p[1], p[2]} \in Links /\ p[1] # p[2]}

Msg(type, body) == [type |-> type, body |-> body]
NoAnswer == Msg("none", {})

Init == /\ linked = {}
        /\ announcing = [a \in Nodes |-> [b \in Nodes |-> <<>>]]
        /\ chan = [a \in Nodes |-> [b \in Nodes |-> <<>>]]
        /\ interests = [a \in Nodes |-> [b \in Nodes |-> {}]]
        /\ seen = [n \in Nodes |-> {}]
        /\ dupCounts = [n \in Nodes |-> [i \in Idents |-> 0]]
        /\ reported = [n \in Nodes |-> {}] /\ stored = [n \in Nodes |-> {}]
        /\ forwards = [n \in Nodes |-> {}]
        /\ answers = [n \in Nodes |-> [a \in Nodes |-> NoAnswer]]
        /\ unchecked = [n \in Nodes |-> 0]
        /\ missed = {} /\ posted = {} /\ strayed = {} /\ evicted = {} /\ upsets = 0

------------------------------------------------------------------------------
(* Messages                                                                 *)

\* A write has no deadline: it waits for the peer to read.
Fits(a, b) == Len(chan[a][b]) < Room

\* Mutant: the catch-up is not asked for.
AnnounceNoRequest(n) == <<Msg("topics", Interests[n])>>

\* announceInterests, then requestCatchUp; announceSHIP is in ShipGossip.
announce(n) ==
  <<Msg("topics", Interests[n])>>
    \o [i \in DOMAIN CatchUp |-> Msg("request", {CatchUp[i]})]

\* The peers forwardToInterested sends e to.
Interested(n, e, sender) ==
  {m \in Nodes \ {sender} : {n, m} \in linked /\ Topic[e] \in interests[n][m]}

OnTopic(n, t) == {e \in stored[n] : Topic[e] = t}

\* The answers of the store to a request: as many as the limit allows of what
\* it has on the topic.  Which ones is in EnvelopeStore.
QueryByTopic(n, t) ==
  IF Cardinality(OnTopic(n, t)) <= CatchUpLimit THEN {OnTopic(n, t)}
  ELSE {es \in SUBSET OnTopic(n, t) : Cardinality(es) = CatchUpLimit}

------------------------------------------------------------------------------
(* Connections                                                              *)

LinkUp(a, b) ==
  /\ {a, b} \notin linked
  /\ linked' = linked \cup {{a, b}}
  /\ announcing' = [announcing EXCEPT ![a][b] = announce(a), ![b][a] = announce(b)]
  /\ UNCHANGED <<chan, interests, seen, dupCounts, reported, stored, forwards, answers,
                 posted, strayed, unchecked, missed, evicted, upsets>>

\* One send of announceInterests and requestCatchUp.
Announce(a, b) ==
  /\ announcing[a][b] # <<>> /\ Fits(a, b)
  /\ announcing' = [announcing EXCEPT ![a][b] = Tail(@)]
  /\ chan' = [chan EXCEPT ![a][b] = Append(@, Head(announcing[a][b]))]
  /\ UNCHANGED <<linked, interests, seen, dupCounts, reported, stored, forwards, answers,
                 posted, strayed, unchecked, missed, evicted, upsets>>

\* The transport breaks and both ends run removePeer.
LinkDown(a, b) ==
  /\ {a, b} \in linked /\ upsets < MaxUpsets
  /\ linked' = linked \ {{a, b}}
  /\ announcing' = [announcing EXCEPT ![a][b] = <<>>, ![b][a] = <<>>]
  /\ chan' = [chan EXCEPT ![a][b] = <<>>, ![b][a] = <<>>]
  /\ interests' = [interests EXCEPT ![a][b] = {}, ![b][a] = {}]
  /\ answers' = [answers EXCEPT ![a][b] = NoAnswer, ![b][a] = NoAnswer]
  /\ upsets' = upsets + 1
  /\ UNCHANGED <<seen, dupCounts, reported, stored, forwards, posted, strayed,
                 unchecked, missed, evicted>>

------------------------------------------------------------------------------
(* onData                                                                   *)

\* Mutant: half of the limit is evicted only above the limit.
PruneAbove(s) ==
  IF Cardinality(s) > MaxSeen
  THEN {s \ x : x \in {y \in SUBSET s : Cardinality(y) = MaxSeen \div 2}}
  ELSE {s}

\* The values of the set of hashes after the eviction at its limit: Go's map
\* order picks any half of the limit.
Prune(s) ==
  IF Cardinality(s) >= MaxSeen
  THEN {s \ x : x \in {y \in SUBSET s : Cardinality(y) = MaxSeen \div 2}}
  ELSE {s}

\* Mutant: a copy is compared with the identity before its hash is looked up.
SeenAfterConflict(n, e) == e \in seen[n] /\ Ident[e] \notin seen[n]

Seen(n, e) == e \in seen[n]

Conflicting(n, e) == Ident[e] \in seen[n] /\ e \notin Local[n]

\* dupCounts[identityHash]++, as far as the test count >= 2 tells it apart.
CountConflict(n, e) ==
  IF Conflicting(n, e)
  THEN [dupCounts EXCEPT ![n][Ident[e]] = IF @ = 0 THEN 1 ELSE 2]
  ELSE dupCounts

\* The third payload of an identity, reported once.
DoublePublish(n, e) == /\ Conflicting(n, e)
                       /\ dupCounts[n][Ident[e]] >= 1 /\ Ident[e] \notin reported[n]

\* Mutant: a copy is taken for good without a look at its signature.
ValidatedAll(e, signed) == {e}

\* Validate: what is left of a copy of e to store and to forward.
Validated(e, signed) == IF signed THEN {e} ELSE {}

\* What Store.Ingest keeps; an error of it does not stop the forwarding.
Ingest(es) == es \cap Ingestible

\* Everything up to the forwarding.  A report broadcasts a slash warning, whose
\* messages are not modelled; reported stands for it.  The signature is looked
\* at last: conflicts are counted, and the hash is marked, without it.
OnData(n, e, signed, sender) ==
  \/ /\ Seen(n, e)
     /\ UNCHANGED <<seen, dupCounts, reported, stored, forwards, missed, evicted>>
  \/ /\ ~Seen(n, e) /\ DoublePublish(n, e)
     /\ dupCounts' = CountConflict(n, e)
     /\ reported' = [reported EXCEPT ![n] = @ \cup {Ident[e]}]
     /\ missed' = missed \cup {<<n, e>>}
     /\ UNCHANGED <<seen, stored, forwards, evicted>>
  \/ /\ ~Seen(n, e) /\ ~DoublePublish(n, e)
     /\ dupCounts' = CountConflict(n, e)
     /\ LET marked == seen[n] \cup {Ident[e]}
        IN  \E kept \in Prune(marked) :
              /\ seen' = [seen EXCEPT ![n] = kept \cup {e}]
              /\ evicted' = IF kept = marked THEN evicted ELSE evicted \cup {n}
     /\ stored' = [stored EXCEPT ![n] = @ \cup Ingest(Validated(e, signed))]
     /\ forwards' = [forwards EXCEPT ![n] =
                       @ \cup {<<f, sender>> : f \in Validated(e, signed) \ NoGossip}]
     /\ missed' = missed \cup (IF signed THEN {} ELSE {<<n, e>>})
     /\ UNCHANGED reported

\* forwardToInterested, once there is room for each of its sends; the lock it
\* holds meanwhile is in MeshPeers.  BroadcastEnvelope marks the hash first.
Forward(n, e, sender) ==
  /\ <<e, sender>> \in forwards[n]
  /\ \A m \in Interested(n, e, sender) : Fits(n, m)
  /\ forwards' = [forwards EXCEPT ![n] = @ \ {<<e, sender>>}]
  /\ IF sender = Client
     THEN /\ seen' = [seen EXCEPT ![n] = @ \cup {e}]
          /\ unchecked' = [unchecked EXCEPT ![n] = @ + 1]
     ELSE UNCHANGED <<seen, unchecked>>
  /\ chan' = [chan EXCEPT ![n] = [m \in Nodes |->
                IF m \in Interested(n, e, sender)
                THEN Append(chan[n][m], Msg("data", {e})) ELSE chan[n][m]]]
  /\ UNCHANGED <<linked, announcing, interests, dupCounts, reported, stored, answers, posted,
                 strayed, missed, evicted, upsets>>

\* handlePostData: the store first, then BroadcastEnvelope.
Post(n, e) ==
  /\ e \in Posts[n] /\ <<n, e>> \notin posted
  /\ posted' = posted \cup {<<n, e>>}
  /\ stored' = [stored EXCEPT ![n] = @ \cup Ingest({e})]
  /\ forwards' = [forwards EXCEPT ![n] = @ \cup ({<<e, Client>>} \ (NoGossip \X {Client}))]
  /\ UNCHANGED <<linked, announcing, chan, interests, seen, dupCounts, reported, answers,
                 strayed, unchecked, missed, evicted, upsets>>

Stray(n, e, signed) ==
  /\ <<e, signed>> \in Strays[n] /\ upsets < MaxUpsets
  /\ upsets' = upsets + 1
  /\ strayed' = strayed \cup {<<n, e, signed>>}
  /\ OnData(n, e, signed, Outside)
  /\ UNCHANGED <<linked, announcing, chan, interests, answers, posted, unchecked>>

\* onSlashWarning marks the warning's hash without looking at the limit.  What
\* it then does is in MeshPeers (removal) and in slashTracker.
OnSlashWarning(n, w) ==
  /\ w \notin seen[n] /\ upsets < MaxUpsets
  /\ upsets' = upsets + 1
  /\ unchecked' = [unchecked EXCEPT ![n] = @ + 1]
  /\ seen' = [seen EXCEPT ![n] = @ \cup {w}]
  /\ UNCHANGED <<linked, announcing, chan, interests, dupCounts, reported, stored,
                 forwards, answers, posted, strayed, missed, evicted>>

------------------------------------------------------------------------------
(* The read loop of n for its connection to a handles one message at a time. *)

Ready(a, n) == /\ chan[a][n] # <<>> /\ answers[n][a] = NoAnswer
               /\ \A f \in forwards[n] : f[2] # a

Take(a, n) == chan' = [chan EXCEPT ![a][n] = Tail(@)]

OnTopics(a, n) ==
  /\ Head(chan[a][n]).type = "topics"
  /\ interests' = [interests EXCEPT ![n][a] = Head(chan[a][n]).body]
  /\ UNCHANGED <<seen, dupCounts, reported, stored, forwards, answers, missed, evicted, upsets>>

OnDataRequest(a, n) ==
  /\ Head(chan[a][n]).type = "request"
  /\ \E t \in Head(chan[a][n]).body : \E es \in QueryByTopic(n, t) :
       /\ answers' = [answers EXCEPT ![n][a] = Msg("response", es)]
       /\ missed' = missed \cup ({a} \X (OnTopic(n, t) \ es))
  /\ UNCHANGED <<interests, seen, dupCounts, reported, stored, forwards, evicted, upsets>>

\* What the stores of the nodes answer has a good signature.
OnDataResponse(a, n) ==
  /\ Head(chan[a][n]).type = "response"
  /\ stored' = [stored EXCEPT ![n] = @ \cup
                  Ingest(UNION {Validated(e, TRUE) : e \in Head(chan[a][n]).body})]
  /\ UNCHANGED <<interests, seen, dupCounts, reported, forwards, answers, missed, evicted, upsets>>

\* So has what they forward.
OnDataMessage(a, n) ==
  /\ Head(chan[a][n]).type = "data"
  /\ \E e \in Head(chan[a][n]).body : OnData(n, e, TRUE, a)
  /\ UNCHANGED <<interests, answers, upsets>>

\* allowPeerMessage refuses: the envelope is dropped without a trace.
RateLimited(a, n) ==
  /\ Head(chan[a][n]).type = "data" /\ upsets < MaxUpsets
  /\ upsets' = upsets + 1
  /\ missed' = missed \cup ({n} \X Head(chan[a][n]).body)
  /\ UNCHANGED <<interests, seen, dupCounts, reported, stored, forwards, answers, evicted>>

HandleMessage(a, n) ==
  /\ Ready(a, n) /\ Take(a, n)
  /\ \/ OnTopics(a, n) \/ OnDataRequest(a, n) \/ OnDataResponse(a, n)
     \/ OnDataMessage(a, n) \/ RateLimited(a, n)
  /\ UNCHANGED <<linked, announcing, posted, strayed, unchecked>>

\* The read loop of n sends what onDataRequest has encoded for a.
Answer(n, a) ==
  /\ answers[n][a] # NoAnswer /\ Fits(n, a)
  /\ answers' = [answers EXCEPT ![n][a] = NoAnswer]
  /\ chan' = [chan EXCEPT ![n][a] = Append(@, answers[n][a])]
  /\ UNCHANGED <<linked, announcing, interests, seen, dupCounts, reported, stored, forwards,
                 posted, strayed, unchecked, missed, evicted, upsets>>

Forwards(n) == \E e \in Envelopes, s \in Nodes \cup {Outside, Client} : Forward(n, e, s)

Next == \/ \E p \in Pairs : \/ LinkUp(p[1], p[2]) \/ Announce(p[1], p[2])
                              \/ LinkDown(p[1], p[2])
                              \/ HandleMessage(p[1], p[2]) \/ Answer(p[1], p[2])
        \/ \E n \in Nodes : Forwards(n)
        \/ \E n \in Nodes, e \in Envelopes : Post(n, e)
        \/ \E n \in Nodes, e \in Envelopes, signed \in BOOLEAN : Stray(n, e, signed)
        \/ \E n \in Nodes, w \in Warnings : OnSlashWarning(n, w)

Spec == Init /\ [][Next]_vars

(***************************************************************************)
(* Goroutines that wait for nothing run, and a seed is dialled again after a  *)
(* connection breaks.  Nothing is assumed of the writes, which have no        *)
(* deadline: they wait for as long as the connection is full, and the read    *)
(* loop that would empty it may itself be waiting to write.                   *)
(***************************************************************************)
FairSpec == /\ Spec
            /\ \A n \in Nodes : WF_vars(Forwards(n))
            /\ \A p \in Pairs : /\ WF_vars(LinkUp(p[1], p[2])) /\ WF_vars(Announce(p[1], p[2]))
                                /\ WF_vars(HandleMessage(p[1], p[2])) /\ WF_vars(Answer(p[1], p[2]))

------------------------------------------------------------------------------
Hashes == Envelopes \cup Idents \cup Warnings
Messages == [type : {"topics", "request", "response", "data"},
             body : SUBSET (Topics \cup Envelopes)]

TypeOK == /\ linked \subseteq Links
          /\ announcing \in [Nodes -> [Nodes -> Seq(Messages)]]
          /\ chan \in [Nodes -> [Nodes -> Seq(Messages)]]
          /\ interests \in [Nodes -> [Nodes -> SUBSET Topics]]
          /\ seen \in [Nodes -> SUBSET Hashes]
          /\ dupCounts \in [Nodes -> [Idents -> 0..2]]
          /\ reported \in [Nodes -> SUBSET Idents]
          /\ stored \in [Nodes -> SUBSET Ingestible]
          /\ forwards \in [Nodes -> SUBSET (Envelopes \X (Nodes \cup {Outside, Client}))]
          /\ answers \in [Nodes -> [Nodes -> Messages \cup {NoAnswer}]]
          /\ unchecked \in [Nodes -> Nat]

\* The set of hashes exceeds its limit only by what BroadcastEnvelope and
\* onSlashWarning, which do not look at the limit, have added: onData never adds
\* more than it evicts.
SeenBounded == \A n \in Nodes : Cardinality(seen[n]) <= MaxSeen + unchecked[n]

\* The envelopes of which a copy, and a copy with a good signature, entered.
Known == {e \in Envelopes : \E n \in Nodes : \/ <<n, e>> \in posted
                                             \/ \E s \in BOOLEAN : <<n, e, s>> \in strayed}
Signed == {e \in Envelopes : \E n \in Nodes : <<n, e>> \in posted \/ <<n, e, TRUE>> \in strayed}

\* "same (topic, pubkey, timestamp) with 3+ different payloads": as long as a
\* node has evicted nothing, it accuses a key only after three different payloads
\* came in under the key's name, however many copies of two came in over how
\* many connections.  The key need not have signed any of them: onData counts
\* and reports before it validates.
AccusationsSound ==
  \A n \in Nodes \ evicted : \A i \in reported[n] :
    \E e, f, g \in Known : /\ e # f /\ f # g /\ e # g
                           /\ Ident[e] = i /\ Ident[f] = i /\ Ident[g] = i

\* Nothing is stored, about to be forwarded or answered but what came in with a
\* good signature somewhere, although an unsigned copy has the same hash, is
\* marked as seen and may come first or last.
OnlySignedSpread ==
  \A n \in Nodes : /\ stored[n] \subseteq Signed
                    /\ \A f \in forwards[n] : f[1] \in Signed
                    /\ \A a \in Nodes : answers[n][a].body \subseteq Signed

\* Every write finds the connection with room again and again.
WritesEnd == \A p \in Pairs : []<>Fits(p[1], p[2])

\* As long as writes end, an envelope on a catch-up topic that a client posts
\* reaches every neighbour, also one that is just connecting or loses its
\* connection: what was posted before its interests were known is in the answer
\* to its catch-up request.  It is missed only where a copy was dropped by the
\* rate limit or as a third payload, where an unsigned copy came first and its
\* hash counts as seen, and where the limit of the catch-up left it out.
NeighboursGetIt ==
  WritesEnd =>
    \A p \in Pairs : \A e \in Posts[p[1]] :
      /\ e \notin NoGossip /\ Topic[e] \in Interests[p[2]]
      /\ \E i \in DOMAIN CatchUp : CatchUp[i] = Topic[e]
      => (<<p[1], e>> \in posted ~> e \in stored[p[2]] \/ <<p[2], e>> \in missed)

==============================================================================
