------------------------ MODULE EnvelopeGossipProofs -------------------------
(***************************************************************************)
(* For any mesh, any limit of at least four and buffers of any size, the set  *)
(* of hashes stays bounded, a node that evicted nothing accuses a key only    *)
(* after three payloads came in under its name, and nothing is stored or      *)
(* passed on that did not come in with a good signature.  Inv adds to these   *)
(* where the envelopes in flight come from, and what the set of hashes still  *)
(* shows of the conflicts that dupCounts has counted.                         *)
(***************************************************************************)
EXTENDS EnvelopeGossip, FiniteSetTheorems, TLAPS

Senders == Nodes \cup {Outside, Client}

\* The messages whose envelopes are in K, and that declare topics for topics.
Safe(K) == {m \in Messages : /\ m.type \in {"data", "response"} => m.body \subseteq K
                             /\ m.type = "topics" => m.body \subseteq Topics}

Responses(K) == {Msg("response", es) : es \in SUBSET K}

\* The connections, and messages that carry no envelope but what was signed.
NetOK == /\ linked \subseteq Links
         /\ interests \in [Nodes -> [Nodes -> SUBSET Topics]]
         /\ announcing \in [Nodes -> [Nodes -> Seq(Safe({}))]]
         /\ chan \in [Nodes -> [Nodes -> Seq(Safe(Signed))]]
         /\ answers \in [Nodes -> [Nodes -> Responses(Signed) \cup {NoAnswer}]]

Typed == /\ seen \in [Nodes -> SUBSET Hashes]
         /\ dupCounts \in [Nodes -> [Idents -> 0..2]]
         /\ reported \in [Nodes -> SUBSET Idents]
         /\ stored \in [Nodes -> SUBSET Ingestible]
         /\ forwards \in [Nodes -> SUBSET (Envelopes \X Senders)]
         /\ unchecked \in [Nodes -> Nat]

\* Whatever a node remembers came in, and what it stores or is about to send
\* came in with a good signature.
FromClients ==
  /\ \A n \in Nodes : seen[n] \cap Envelopes \subseteq Known
  /\ \A n \in Nodes : stored[n] \subseteq Signed
  /\ \A n \in Nodes : \A f \in forwards[n] : f[1] \in Signed

Bounded == \A n \in Nodes : Cardinality(seen[n]) <= MaxSeen + unchecked[n]

\* What n has seen justifies what it has counted and reported.
Justified(n) ==
  /\ \A i \in Idents \cap seen[n] : \E e \in Envelopes \cap seen[n] : Ident[e] = i
  /\ \A i \in Idents : dupCounts[n][i] >= 1 =>
       \E e, f \in Envelopes \cap seen[n] : e # f /\ Ident[e] = i /\ Ident[f] = i
  /\ \A i \in reported[n] :
       \E e, f, g \in Known : /\ e # f /\ f # g /\ e # g
                              /\ Ident[e] = i /\ Ident[f] = i /\ Ident[g] = i

Inv == /\ NetOK
       /\ Typed
       /\ FromClients
       /\ Bounded
       /\ \A n \in Nodes \ evicted : Justified(n)

------------------------------------------------------------------------------
\* What is signed stays signed, so a message and an answer stay safe.
LEMMA SafeGrows ==
  ASSUME NEW K, NEW L, K \subseteq L
  PROVE  /\ \A c \in [Nodes -> [Nodes -> Seq(Safe(K))]] : c \in [Nodes -> [Nodes -> Seq(Safe(L))]]
         /\ \A c \in [Nodes -> [Nodes -> Responses(K) \cup {NoAnswer}]] :
               c \in [Nodes -> [Nodes -> Responses(L) \cup {NoAnswer}]]
<1>1. Safe(K) \subseteq Safe(L) /\ Responses(K) \subseteq Responses(L)
  BY DEF Safe, Responses
<1>2. \A s : s \in Seq(Safe(K)) => s \in Seq(Safe(L))
  BY <1>1
<1>3. ASSUME NEW c \in [Nodes -> [Nodes -> Seq(Safe(K))]], NEW a \in Nodes, NEW b \in Nodes
      PROVE  c[a][b] \in Seq(Safe(L))
  BY <1>2
<1>4. ASSUME NEW c \in [Nodes -> [Nodes -> Responses(K) \cup {NoAnswer}]]
      PROVE  c \in [Nodes -> [Nodes -> Responses(L) \cup {NoAnswer}]]
  BY <1>1
<1>5. ASSUME NEW c \in [Nodes -> [Nodes -> Seq(Safe(K))]]
      PROVE  c \in [Nodes -> [Nodes -> Seq(Safe(L))]]
  BY <1>3, Zenon
<1> QED
  BY <1>4, <1>5

\* There are finitely many hashes.
LEMMA HashesFinite == IsFiniteSet(Hashes) /\ IsFiniteSet(Envelopes)
<1>1. IsFiniteSet(Envelopes \cup Idents)
  BY EnvelopeAssumption, FS_Union
<1> QED
  BY <1>1, EnvelopeAssumption, FS_Union DEF Hashes

\* onData never leaves more hashes than the limit allows: what it evicts at the
\* limit makes room for the two hashes it adds.
LEMMA PruneBounds ==
  ASSUME NEW s \in SUBSET Hashes, NEW i \in Idents, NEW e \in Envelopes,
         NEW kept \in Prune(s \cup {i}), NEW k \in Nat,
         Cardinality(s) <= MaxSeen + k
  PROVE  /\ kept \subseteq s \cup {i}
         /\ Cardinality(kept \cup {e}) <= MaxSeen + k
<1> DEFINE t == s \cup {i}
<1>1. IsFiniteSet(Hashes)
  BY HashesFinite
<1>2. IsFiniteSet(s) /\ IsFiniteSet(t) /\ t \subseteq Hashes
  BY <1>1, FS_Subset DEF Hashes
<1>3. Cardinality(s) \in Nat /\ Cardinality(t) \in Nat /\ Cardinality(t) <= Cardinality(s) + 1
  BY <1>2, FS_AddElement, FS_CardinalityType
<1>4. kept \subseteq t
  BY DEF Prune
<1>5. IsFiniteSet(kept) /\ Cardinality(kept) \in Nat
  BY <1>2, <1>4, FS_Subset, FS_CardinalityType
<1>6. Cardinality(kept \cup {e}) <= Cardinality(kept) + 1 /\ Cardinality(kept \cup {e}) \in Nat
  <2>1. /\ IsFiniteSet(kept \cup {e})
        /\ Cardinality(kept \cup {e}) = IF e \in kept THEN Cardinality(kept) ELSE Cardinality(kept) + 1
    BY <1>5, FS_AddElement, Zenon
  <2> QED
    BY <1>5, <2>1
<1>7. CASE Cardinality(t) < MaxSeen
  <2>1. kept = t
    BY <1>7, <1>3, EnvelopeAssumption DEF Prune
  <2> QED
    BY <2>1, <1>3, <1>4, <1>6, <1>7, EnvelopeAssumption
<1>8. CASE Cardinality(t) >= MaxSeen
  <2>1. PICK y \in SUBSET t : kept = t \ y /\ Cardinality(y) = MaxSeen \div 2
    BY <1>8 DEF Prune
  <2>2. IsFiniteSet(y) /\ t \cap y = y
    BY <1>2, FS_Subset
  <2>3. Cardinality(kept) = Cardinality(t) - MaxSeen \div 2
    <3>1. Cardinality(t \ y) = Cardinality(t) - Cardinality(t \cap y)
      BY <1>2, FS_Difference, Zenon
    <3> HIDE DEF t
    <3> QED
      BY <2>1, <2>2, <3>1
  <2>4. MaxSeen \div 2 >= 2 /\ MaxSeen \div 2 \in Nat
    BY EnvelopeAssumption
  <2> QED
    BY <2>3, <2>4, <1>3, <1>4, <1>6, EnvelopeAssumption
<1> QED
  BY <1>3, <1>7, <1>8, EnvelopeAssumption

\* The initial state: nothing has happened.
LEMMA InvInit == Init => Inv
<1> SUFFICES ASSUME Init PROVE Inv
  OBVIOUS
<1> USE EnvelopeAssumption DEF Init
<1>0. NetOK
  BY DEF NetOK
<1>1. Typed
  BY DEF Typed
<1>2. FromClients
  BY DEF FromClients
<1>3. Bounded
  <2>1. \A n \in Nodes : unchecked[n] = 0 /\ seen[n] = {}
    OBVIOUS
  <2>2. Cardinality({}) = 0
    BY FS_EmptySet, Zenon
  <2>3. \A n \in Nodes : Cardinality(seen[n]) = 0
    BY <2>1, <2>2, Zenon
  <2> QED
    BY <2>1, <2>3, EnvelopeAssumption DEF Bounded
<1>4. \A n \in Nodes : Justified(n)
  BY DEF Justified
<1> QED
  BY <1>0, <1>1, <1>2, <1>3, <1>4 DEF Inv

\* What was posted or came in once stays known, and what is signed is known.
LEMMA KnownGrows ==
  ASSUME posted \subseteq posted', strayed \subseteq strayed'
  PROVE  Known \subseteq Known' /\ Signed \subseteq Signed' /\ Signed' \subseteq Known'
BY DEF Known, Signed

\* A step that lets in nothing new.
LEMMA KnownFrame ==
  ASSUME UNCHANGED <<posted, strayed>>
  PROVE  Known' = Known /\ Signed' = Signed
BY DEF Known, Signed

\* A node whose view did not change stays justified when more becomes known.
LEMMA JustifiedFrame ==
  ASSUME NEW n \in Nodes, Justified(n), Known \subseteq Known', seen'[n] = seen[n],
         dupCounts'[n] = dupCounts[n], reported'[n] = reported[n]
  PROVE  Justified(n)'
BY DEF Justified

\* A hash that is added without a look at the limit is counted.
LEMMA AddBounds ==
  ASSUME NEW s \in SUBSET Hashes, NEW h \in Hashes, NEW k \in Nat,
         Cardinality(s) <= MaxSeen + k
  PROVE  Cardinality(s \cup {h}) <= MaxSeen + (k + 1)
<1>1. IsFiniteSet(s) /\ Cardinality(s) \in Nat
  BY HashesFinite, FS_Subset, FS_CardinalityType
<1>2. Cardinality(s \cup {h}) = IF h \in s THEN Cardinality(s) ELSE Cardinality(s) + 1
  BY <1>1, FS_AddElement, Zenon
<1> QED
  BY <1>1, <1>2, EnvelopeAssumption

\* A node that takes in an envelope from a peer, over whatever connection.
LEMMA OnDataKeeps ==
  ASSUME Inv, NEW n \in Nodes, NEW e \in Known', NEW signed \in BOOLEAN,
         signed => e \in Signed', NEW s \in Nodes \cup {Outside},
         OnData(n, e, signed, s), posted' = posted, unchecked' = unchecked, strayed \subseteq strayed'
  PROVE  Typed' /\ FromClients' /\ Bounded' /\ \A m \in Nodes \ evicted' : Justified(m)'
<1> USE DEF Inv
<1>1. /\ e \in Envelopes /\ Ident[e] \in Idents /\ s # Client /\ s \in Senders
      /\ Known \subseteq Known' /\ Signed \subseteq Signed'
  BY KnownGrows, EnvelopeAssumption DEF Known, Senders
<1>3. CASE Seen(n, e) /\ UNCHANGED <<seen, dupCounts, reported, stored, forwards, evicted>>
  <2>1. Typed' /\ FromClients'
    BY <1>1, <1>3 DEF Typed, FromClients
  <2>3. Bounded'
    BY <1>3 DEF Bounded
  <2>4. \A m \in Nodes \ evicted' : Justified(m)'
    BY <1>1, <1>3, JustifiedFrame
  <2> QED
    BY <2>1, <2>3, <2>4
<1>4. CASE /\ ~Seen(n, e) /\ DoublePublish(n, e)
           /\ dupCounts' = CountConflict(n, e)
           /\ reported' = [reported EXCEPT ![n] = @ \cup {Ident[e]}]
           /\ UNCHANGED <<seen, stored, forwards, evicted>>
  <2>1. /\ dupCounts' \in [Nodes -> [Idents -> 0..2]]
        /\ \A m \in Nodes : m # n => dupCounts'[m] = dupCounts[m]
        /\ \A i \in Idents : i # Ident[e] => dupCounts'[n][i] = dupCounts[n][i]
    BY <1>1, <1>4 DEF CountConflict, Typed
  <2>2. Typed' /\ FromClients'
    BY <1>1, <1>4, <2>1 DEF Typed, FromClients
  <2>4. Bounded'
    BY <1>4 DEF Bounded
  <2>5. ASSUME NEW m \in Nodes \ evicted', m # n PROVE Justified(m)'
    <3>1. seen'[m] = seen[m] /\ dupCounts'[m] = dupCounts[m] /\ reported'[m] = reported[m] /\ Justified(m)
      BY <1>4, <2>1, <2>5 DEF Typed
    <3> QED
      BY <1>1, <3>1, JustifiedFrame
  <2>6. ASSUME n \notin evicted' PROVE Justified(n)'
    <3>1. Justified(n) /\ e \notin seen[n] /\ dupCounts[n][Ident[e]] >= 1
      BY <1>4, <2>6 DEF Seen, DoublePublish
    <3>2. PICK f, g \in Envelopes \cap seen[n] : f # g /\ Ident[f] = Ident[e] /\ Ident[g] = Ident[e]
      BY <1>1, <3>1 DEF Justified
    <3>3. f \in Known' /\ g \in Known' /\ e # f /\ e # g
      BY <1>1, <3>1, <3>2 DEF FromClients
    <3>4. reported'[n] = reported[n] \cup {Ident[e]} /\ seen'[n] = seen[n]
      BY <1>4 DEF Typed
    <3>5. \A i \in Idents \cap seen'[n] : \E d \in Envelopes \cap seen'[n] : Ident[d] = i
      BY <3>1, <3>4 DEF Justified
    <3>6. \A i \in Idents : dupCounts'[n][i] >= 1 =>
            \E c, d \in Envelopes \cap seen'[n] : c # d /\ Ident[c] = i /\ Ident[d] = i
      BY <2>1, <3>1, <3>2, <3>4 DEF Justified
    <3>7. \A i \in reported'[n] :
            \E b, c, d \in Known' : /\ b # c /\ c # d /\ b # d
                                   /\ Ident[b] = i /\ Ident[c] = i /\ Ident[d] = i
      <4>1. ASSUME NEW i \in reported[n]
            PROVE  \E b, c, d \in Known' : /\ b # c /\ c # d /\ b # d
                                          /\ Ident[b] = i /\ Ident[c] = i /\ Ident[d] = i
        BY <1>1, <3>1 DEF Justified
      <4> QED
        BY <3>2, <3>3, <3>4, <4>1
    <3> QED
      BY <3>5, <3>6, <3>7 DEF Justified
  <2> QED
    BY <2>2, <2>4, <2>5, <2>6
<1>5. ASSUME ~Seen(n, e), ~DoublePublish(n, e), dupCounts' = CountConflict(n, e),
             NEW kept \in Prune(seen[n] \cup {Ident[e]}),
             seen' = [seen EXCEPT ![n] = kept \cup {e}],
             evicted' = IF kept = seen[n] \cup {Ident[e]} THEN evicted ELSE evicted \cup {n},
             stored' = [stored EXCEPT ![n] = @ \cup Ingest(Validated(e, signed))],
             forwards' = [forwards EXCEPT ![n] =
                            @ \cup {<<f, s>> : f \in Validated(e, signed) \ NoGossip}],
             UNCHANGED reported
      PROVE  Typed' /\ FromClients' /\ Bounded' /\ \A m \in Nodes \ evicted' : Justified(m)'
  <2>1. /\ kept \subseteq seen[n] \cup {Ident[e]}
        /\ Cardinality(kept \cup {e}) <= MaxSeen + unchecked[n]
    BY <1>1, <1>5, PruneBounds DEF Typed, Bounded
  <2>2. /\ \A m \in Nodes : m # n => /\ seen'[m] = seen[m] /\ forwards'[m] = forwards[m]
                                    /\ dupCounts'[m] = dupCounts[m]
        /\ seen'[n] = kept \cup {e}
        /\ \A f \in forwards'[n] : f \in forwards[n] \/ (f = <<e, s>> /\ signed)
        /\ \A i \in Idents : i # Ident[e] => dupCounts'[n][i] = dupCounts[n][i]
        /\ ~Conflicting(n, e) => dupCounts'[n] = dupCounts[n]
    BY <1>1, <1>5 DEF Typed, CountConflict, Validated
  <2>3. dupCounts' \in [Nodes -> [Idents -> 0..2]]
    BY <1>1, <1>5 DEF CountConflict, Typed
  <2>4. forwards' \in [Nodes -> SUBSET (Envelopes \X Senders)]
    BY <1>1, <1>5 DEF Typed, Validated
  <2>5. Typed'
    BY <1>1, <1>5, <2>1, <2>3, <2>4 DEF Typed, Validated, Ingest, Hashes
  <2>6. FromClients'
    <3>1. ASSUME NEW m \in Nodes PROVE seen'[m] \cap Envelopes \subseteq Known'
      <4>1. seen[m] \cap Envelopes \subseteq Known'
        BY <1>1 DEF FromClients
      <4>2. Ident[e] \notin Envelopes /\ e \in Known'
        BY <1>1, EnvelopeAssumption
      <4> QED
        BY <2>1, <2>2, <4>1, <4>2
    <3>2. ASSUME NEW m \in Nodes, NEW f \in forwards'[m] PROVE f[1] \in Signed'
      <4>1. CASE f \in forwards[m]
        BY <4>1, <1>1 DEF FromClients
      <4>2. CASE f = <<e, s>> /\ signed
        BY <4>2, <1>1
      <4> QED
        BY <2>2, <3>2, <4>1, <4>2
    <3>3. ASSUME NEW m \in Nodes PROVE stored'[m] \subseteq Signed'
      BY <1>1, <1>5 DEF FromClients, Typed, Ingest, Validated
    <3> QED
      BY <3>1, <3>2, <3>3 DEF FromClients
  <2>7. Bounded'
    BY <2>1, <2>2 DEF Bounded
  <2>8. ASSUME NEW m \in Nodes \ evicted', m # n PROVE Justified(m)'
    <3>1. m \notin evicted
      BY <1>5, <2>8
    <3> QED
      BY <1>1, <1>5, <2>2, <2>8, <3>1, JustifiedFrame
  <2>9. ASSUME n \notin evicted' PROVE Justified(n)'
    <3>1. Justified(n) /\ seen'[n] = seen[n] \cup {Ident[e], e} /\ e \notin seen[n]
      BY <1>5, <2>2, <2>9 DEF Seen
    <3>2. \A i \in Idents \cap seen'[n] : \E d \in Envelopes \cap seen'[n] : Ident[d] = i
      BY <1>1, <3>1, EnvelopeAssumption DEF Justified
    <3>3. ASSUME NEW i \in Idents, dupCounts'[n][i] >= 1
          PROVE  \E c, d \in Envelopes \cap seen'[n] : c # d /\ Ident[c] = i /\ Ident[d] = i
      <4>1. CASE dupCounts'[n][i] = dupCounts[n][i]
        BY <3>1, <3>3, <4>1 DEF Justified
      <4>2. CASE i = Ident[e] /\ Conflicting(n, e)
        <5>1. PICK d \in Envelopes \cap seen[n] : Ident[d] = i
          BY <4>2, <3>1 DEF Conflicting, Justified
        <5> QED
          BY <5>1, <4>2, <1>1, <3>1
      <4> QED
        BY <2>2, <4>1, <4>2
    <3>4. \A i \in reported'[n] :
            \E b, c, d \in Known' : /\ b # c /\ c # d /\ b # d
                                   /\ Ident[b] = i /\ Ident[c] = i /\ Ident[d] = i
      BY <1>1, <1>5, <3>1 DEF Justified
    <3> QED
      BY <3>2, <3>3, <3>4 DEF Justified
  <2> QED
    BY <2>5, <2>6, <2>7, <2>8, <2>9
<1> QED
  BY <1>3, <1>4, <1>5 DEF OnData

\* A step that leaves the nodes' stores, hashes and forwards alone.
LEMMA DataFrame ==
  ASSUME Inv,
         UNCHANGED <<seen, dupCounts, reported, stored, forwards, posted, strayed, unchecked, evicted>>
  PROVE  Typed' /\ FromClients' /\ Bounded' /\ \A m \in Nodes \ evicted' : Justified(m)'
<1> USE DEF Inv
<1>1. Known' = Known /\ Signed' = Signed
  BY KnownFrame
<1>2. Typed' /\ FromClients'
  BY <1>1 DEF Typed, FromClients
<1>4. Bounded'
  BY DEF Bounded
<1>5. \A m \in Nodes \ evicted' : Justified(m)'
  BY <1>1, JustifiedFrame
<1> QED
  BY <1>2, <1>4, <1>5

\* The pairs are pairs of distinct nodes.
LEMMA PairNodes == \A p \in Pairs : p[1] \in Nodes /\ p[2] \in Nodes /\ p[1] # p[2]
BY DEF Pairs

\* Taking the first message, or sending one more, keeps messages safe.
LEMMA ChanKeeps ==
  ASSUME NEW S, NEW c \in [Nodes -> [Nodes -> Seq(S)]], NEW a \in Nodes, NEW n \in Nodes
  PROVE  /\ c[a][n] # <<>> => /\ Head(c[a][n]) \in S
                              /\ [c EXCEPT ![a][n] = Tail(@)] \in [Nodes -> [Nodes -> Seq(S)]]
         /\ \A m \in S : [c EXCEPT ![a][n] = Append(@, m)] \in [Nodes -> [Nodes -> Seq(S)]]
         /\ \A s \in Seq(S) : [c EXCEPT ![a][n] = s] \in [Nodes -> [Nodes -> Seq(S)]]
<1>1. ASSUME NEW s \in Seq(S) PROVE [c EXCEPT ![a][n] = s] \in [Nodes -> [Nodes -> Seq(S)]]
  OBVIOUS
<1>2. c[a][n] # <<>> => Head(c[a][n]) \in S /\ Tail(c[a][n]) \in Seq(S)
  OBVIOUS
<1>3. \A m \in S : Append(c[a][n], m) \in Seq(S)
  OBVIOUS
<1> QED
  BY <1>1, <1>2, <1>3

\* What a node announces carries no envelope.
LEMMA AnnounceSafe ==
  ASSUME NEW a \in Nodes
  PROVE  announce(a) \in Seq(Safe({}))
<1>1. \A i \in DOMAIN CatchUp : Msg("request", {CatchUp[i]}) \in Safe({})
  BY EnvelopeAssumption DEF Msg, Safe, Messages
<1>2. [i \in DOMAIN CatchUp |-> Msg("request", {CatchUp[i]})] \in Seq(Safe({}))
  <2>1. DOMAIN CatchUp = 1..Len(CatchUp) /\ Len(CatchUp) \in Nat
    BY EnvelopeAssumption
  <2> DEFINE requests == [i \in 1..Len(CatchUp) |-> Msg("request", {CatchUp[i]})]
  <2>2. requests \in [1..Len(CatchUp) -> Safe({})]
    BY <1>1, <2>1
  <2>3. requests \in Seq(Safe({}))
    <3> HIDE DEF requests
    <3> QED
      BY <2>1, <2>2
  <2> QED
    BY <2>1, <2>3
<1>3. <<Msg("topics", Interests[a])>> \in Seq(Safe({}))
  BY EnvelopeAssumption DEF Msg, Safe, Messages
<1> QED
  BY <1>2, <1>3 DEF announce

\* The connections: their announcements carry no data.
LEMMA ConnectionStep ==
  ASSUME Inv, NEW a \in Nodes, NEW b \in Nodes, a # b, {a, b} \in Links,
         LinkUp(a, b) \/ Announce(a, b) \/ LinkDown(a, b)
  PROVE  Inv'
<1>1. UNCHANGED <<seen, dupCounts, reported, stored, forwards, posted, strayed, unchecked, evicted>>
  BY DEF LinkUp, Announce, LinkDown
<1>2. Signed' = Signed
  BY <1>1, KnownFrame
<1> DEFINE S == Safe(Signed)
           N == Safe({})
<1>3. /\ chan \in [Nodes -> [Nodes -> Seq(S)]] /\ announcing \in [Nodes -> [Nodes -> Seq(N)]]
      /\ linked \subseteq Links /\ interests \in [Nodes -> [Nodes -> SUBSET Topics]]
      /\ answers \in [Nodes -> [Nodes -> Responses(Signed) \cup {NoAnswer}]]
  BY DEF Inv, NetOK
<1>4. N \subseteq S /\ announce(a) \in Seq(N) /\ announce(b) \in Seq(N)
  BY AnnounceSafe DEF Safe
<1>5. SUFFICES /\ chan' \in [Nodes -> [Nodes -> Seq(S)]] /\ announcing' \in [Nodes -> [Nodes -> Seq(N)]]
               /\ linked' \subseteq Links /\ interests' \in [Nodes -> [Nodes -> SUBSET Topics]]
               /\ answers' \in [Nodes -> [Nodes -> Responses(Signed) \cup {NoAnswer}]]
  BY <1>1, <1>2, DataFrame DEF Inv, NetOK
<1> HIDE DEF S, N
<1>6. CASE LinkUp(a, b)
  <2>1. linked' = linked \cup {{a, b}} /\ UNCHANGED <<chan, interests, answers>>
    BY <1>6 DEF LinkUp
  <2>2. linked' \subseteq Links
    BY <1>3, <2>1, Zenon
  <2>3. announcing' = [announcing EXCEPT ![a][b] = announce(a), ![b][a] = announce(b)]
    BY <1>6 DEF LinkUp
  <2>4. announcing' \in [Nodes -> [Nodes -> Seq(N)]]
    BY <1>3, <1>4, <2>3
  <2> QED
    BY <1>3, <2>1, <2>2, <2>4
<1>7. CASE Announce(a, b)
  <2>1. /\ announcing[a][b] # <<>> /\ UNCHANGED <<linked, interests, answers>>
        /\ announcing' = [announcing EXCEPT ![a][b] = Tail(@)]
        /\ chan' = [chan EXCEPT ![a][b] = Append(@, Head(announcing[a][b]))]
    BY <1>7 DEF Announce
  <2>2. /\ Head(announcing[a][b]) \in N
        /\ announcing' \in [Nodes -> [Nodes -> Seq(N)]]
    BY <1>3, <2>1, ChanKeeps
  <2>3. chan' \in [Nodes -> [Nodes -> Seq(S)]]
    BY <1>3, <1>4, <2>1, <2>2, ChanKeeps
  <2> QED
    BY <1>3, <2>1, <2>2, <2>3
<1>8. CASE LinkDown(a, b)
  <2>1. /\ linked' \subseteq linked
        /\ announcing' = [announcing EXCEPT ![a][b] = <<>>, ![b][a] = <<>>]
        /\ chan' = [chan EXCEPT ![a][b] = <<>>, ![b][a] = <<>>]
        /\ interests' = [interests EXCEPT ![a][b] = {}, ![b][a] = {}]
        /\ answers' = [answers EXCEPT ![a][b] = NoAnswer, ![b][a] = NoAnswer]
    BY <1>8 DEF LinkDown
  <2>2. <<>> \in Seq(S) /\ <<>> \in Seq(N)
    OBVIOUS
  <2>3. /\ chan' \in [Nodes -> [Nodes -> Seq(S)]] /\ announcing' \in [Nodes -> [Nodes -> Seq(N)]]
    BY <1>3, <2>1, <2>2
  <2>4. interests' \in [Nodes -> [Nodes -> SUBSET Topics]]
    BY <1>3, <2>1
  <2>5. answers' \in [Nodes -> [Nodes -> Responses(Signed) \cup {NoAnswer}]]
    BY <1>3, <2>1
  <2> QED
    BY <1>3, <2>1, <2>3, <2>4, <2>5
<1> QED
  BY <1>6, <1>7, <1>8

\* A response with what was signed is safe.
LEMMA ResponseSafe ==
  ASSUME NEW es \in SUBSET Signed
  PROVE  Msg("response", es) \in Safe(Signed) /\ Msg("response", es).body = es
<1>1. es \in SUBSET (Topics \cup Envelopes)
  BY DEF Signed
<1> HIDE DEF Signed
<1> QED
  BY <1>1 DEF Msg, Safe, Messages

\* The answer that a read loop sends carries what the store had.
LEMMA AnswerStep ==
  ASSUME Inv, NEW n \in Nodes, NEW a \in Nodes, Answer(n, a)
  PROVE  Inv'
<1>1. UNCHANGED <<linked, announcing, interests, seen, dupCounts, reported, stored, forwards,
                  posted, strayed, unchecked, evicted>>
  BY DEF Answer
<1>2. Signed' = Signed
  BY <1>1, KnownFrame
<1> DEFINE S == Safe(Signed)
<1>3. /\ chan \in [Nodes -> [Nodes -> Seq(S)]]
      /\ answers \in [Nodes -> [Nodes -> Responses(Signed) \cup {NoAnswer}]]
  BY DEF Inv, NetOK
<1>4. answers[n][a] \in S
  <2>1. PICK es \in SUBSET Signed : answers[n][a] = Msg("response", es)
    BY <1>3 DEF Answer, Responses
  <2> QED
    BY <2>1, ResponseSafe
<1>5. chan' \in [Nodes -> [Nodes -> Seq(S)]]
  <2>1. chan' = [chan EXCEPT ![n][a] = Append(@, answers[n][a])]
    BY DEF Answer
  <2> HIDE DEF S
  <2> QED
    BY <1>3, <1>4, <2>1, ChanKeeps
<1>6. answers' \in [Nodes -> [Nodes -> Responses(Signed) \cup {NoAnswer}]]
  BY <1>3 DEF Answer
<1>7. NetOK'
  BY <1>1, <1>2, <1>5, <1>6 DEF Inv, NetOK
<1> QED
  BY <1>1, <1>7, DataFrame DEF Inv

\* forwardToInterested sends only what the node was about to forward; the hash
\* that BroadcastEnvelope adds is counted.
LEMMA ForwardStep ==
  ASSUME Inv, NEW n \in Nodes, NEW e \in Envelopes, NEW s \in Senders, Forward(n, e, s)
  PROVE  Inv'
<1> USE DEF Inv
<1>1. /\ UNCHANGED <<linked, announcing, interests, answers, dupCounts, reported, stored, posted,
                     strayed, evicted>>
      /\ <<e, s>> \in forwards[n] /\ e \in Signed
  BY DEF Forward, FromClients
<1>0. Known' = Known /\ Signed' = Signed /\ e \in Known
  BY <1>1, KnownFrame, KnownGrows
<1>2. /\ forwards' = [forwards EXCEPT ![n] = @ \ {<<e, s>>}]
      /\ \A m \in Nodes : m # n => forwards'[m] = forwards[m]
      /\ forwards'[n] = forwards[n] \ {<<e, s>>}
  BY DEF Forward, Typed
<1>3. NetOK'
  <2> DEFINE S == Safe(Signed)
  <2>1. Msg("data", {e}) \in S /\ chan \in [Nodes -> [Nodes -> Seq(S)]]
    BY <1>1 DEF NetOK, Safe, Msg, Messages
  <2> DEFINE out == [m \in Nodes |-> IF m \in Interested(n, e, s)
                       THEN Append(chan[n][m], Msg("data", {e})) ELSE chan[n][m]]
  <2> HIDE DEF S
  <2>2. out \in [Nodes -> Seq(S)]
    BY <2>1
  <2>3. chan' = [chan EXCEPT ![n] = out]
    BY DEF Forward
  <2>4. chan' \in [Nodes -> [Nodes -> Seq(S)]]
    <3> HIDE DEF out
    <3> QED
      BY <2>1, <2>2, <2>3
  <2> QED
    BY <1>0, <1>1, <2>4 DEF NetOK, S
<1>4. /\ \A m \in Nodes : m # n => seen'[m] = seen[m]
      /\ s # Client => seen' = seen
      /\ s = Client => seen'[n] = seen[n] \cup {e}
      /\ seen' \in [Nodes -> SUBSET Hashes]
  <2>1. seen \in [Nodes -> SUBSET Hashes] /\ e \in Hashes
    BY DEF Typed, Hashes
  <2>2. CASE s = Client
    <3>1. seen' = [seen EXCEPT ![n] = @ \cup {e}]
      BY <2>2 DEF Forward
    <3> QED
      BY <2>1, <2>2, <3>1
  <2>3. CASE s # Client
    <3>1. seen' = seen
      BY <2>3 DEF Forward
    <3> QED
      BY <2>1, <2>3, <3>1
  <2> QED
    BY <2>2, <2>3
<1>5. Typed'
  <2>1. forwards' \in [Nodes -> SUBSET (Envelopes \X Senders)]
    BY <1>2 DEF Typed
  <2>2. unchecked' \in [Nodes -> Nat]
    <3>1. \/ unchecked' = unchecked
          \/ unchecked' = [unchecked EXCEPT ![n] = @ + 1]
      BY DEF Forward
    <3>2. unchecked \in [Nodes -> Nat]
      BY DEF Typed
    <3> QED
      BY <3>1, <3>2
  <2> QED
    BY <1>1, <1>4, <2>1, <2>2 DEF Typed
<1>6. FromClients'
  BY <1>0, <1>1, <1>2, <1>4 DEF FromClients
<1>7. Bounded'
  <2>1. CASE s = Client
    <3>1. Cardinality(seen[n] \cup {e}) <= MaxSeen + (unchecked[n] + 1)
      BY AddBounds DEF Bounded, Typed, Hashes
    <3>2. unchecked'[n] = unchecked[n] + 1 /\ \A m \in Nodes : m # n => unchecked'[m] = unchecked[m]
      BY <2>1 DEF Forward, Typed
    <3> QED
      BY <1>4, <2>1, <3>1, <3>2 DEF Bounded
  <2>2. CASE s # Client
    BY <1>4, <2>2 DEF Bounded, Forward
  <2> QED
    BY <2>1, <2>2
<1>8. ASSUME NEW m \in Nodes \ evicted' PROVE Justified(m)'
  <2>1. Justified(m) /\ dupCounts'[m] = dupCounts[m] /\ reported'[m] = reported[m]
    BY <1>1
  <2>2. seen[m] \subseteq seen'[m] /\ seen'[m] \cap Idents = seen[m] \cap Idents
    BY <1>4, EnvelopeAssumption
  <2> QED
    BY <1>0, <2>1, <2>2 DEF Justified
<1> QED
  BY <1>3, <1>5, <1>6, <1>7, <1>8

\* A post stores a valid envelope and queues it.
LEMMA PostStep ==
  ASSUME Inv, NEW n \in Nodes, NEW e \in Envelopes, Post(n, e)
  PROVE  Inv'
<1> USE DEF Inv
<1>1. /\ UNCHANGED <<linked, announcing, chan, interests, seen, dupCounts, reported,
                     answers, strayed, unchecked, evicted>>
      /\ posted' = posted \cup {<<n, e>>} /\ e \in Ingestible
  BY EnvelopeAssumption DEF Post
<1>2. Known \subseteq Known' /\ Signed \subseteq Signed' /\ e \in Signed'
  BY <1>1 DEF Known, Signed
<1>3. /\ \A m \in Nodes : m # n => forwards'[m] = forwards[m]
      /\ \A f \in forwards'[n] : f \in forwards[n] \/ f = <<e, Client>>
      /\ forwards' \in [Nodes -> SUBSET (Envelopes \X Senders)]
  BY <1>1 DEF Post, Typed, Senders
<1>4. NetOK'
  BY <1>1, <1>2, SafeGrows DEF NetOK
<1>5. Typed'
  BY <1>1, <1>3 DEF Typed, Post, Ingest
<1>6. FromClients'
  <2>1. ASSUME NEW m \in Nodes, NEW f \in forwards'[m] PROVE f[1] \in Signed'
    BY <1>2, <1>3 DEF FromClients
  <2>2. ASSUME NEW m \in Nodes PROVE stored'[m] \subseteq Signed'
    BY <1>2 DEF FromClients, Post, Typed, Ingest
  <2> QED
    BY <1>1, <1>2, <2>1, <2>2 DEF FromClients
<1>7. Bounded'
  BY <1>1 DEF Bounded
<1>8. \A m \in Nodes \ evicted' : Justified(m)'
  BY <1>1, <1>2, JustifiedFrame
<1> QED
  BY <1>4, <1>5, <1>6, <1>7, <1>8

\* An envelope from outside the mesh.
LEMMA StrayStep ==
  ASSUME Inv, NEW n \in Nodes, NEW e \in Envelopes, NEW signed \in BOOLEAN, Stray(n, e, signed)
  PROVE  Inv'
<1>1. /\ UNCHANGED <<linked, announcing, chan, interests, answers, posted, unchecked>>
      /\ strayed \subseteq strayed' /\ <<n, e, signed>> \in strayed' /\ OnData(n, e, signed, Outside)
  BY DEF Stray
<1>2. Signed \subseteq Signed' /\ e \in Known' /\ (signed => e \in Signed')
  BY <1>1 DEF Known, Signed
<1>3. NetOK'
  BY <1>1, <1>2, SafeGrows DEF NetOK, Inv
<1> QED
  BY <1>1, <1>2, <1>3, OnDataKeeps DEF Inv

\* The hash of a warning is counted, and is none of the hashes that conflicts
\* are found by.
LEMMA WarningStep ==
  ASSUME Inv, NEW n \in Nodes, NEW w \in Warnings, OnSlashWarning(n, w)
  PROVE  Inv'
<1> USE DEF Inv
<1>1. /\ UNCHANGED <<linked, announcing, chan, interests, dupCounts, reported, stored,
                     forwards, answers, posted, strayed, evicted>>
      /\ unchecked' = [unchecked EXCEPT ![n] = @ + 1] /\ w \in Hashes
  BY DEF OnSlashWarning, Hashes
<1>0. Known' = Known /\ Signed' = Signed
  BY <1>1, KnownFrame
<1>2. /\ \A m \in Nodes : m # n => seen'[m] = seen[m]
      /\ seen'[n] = seen[n] \cup {w} /\ seen' \in [Nodes -> SUBSET Hashes]
  BY <1>1 DEF OnSlashWarning, Typed
<1>3. NetOK' /\ Typed'
  <2>1. unchecked' \in [Nodes -> Nat]
    BY <1>1 DEF Typed
  <2>2. NetOK'
    BY <1>0, <1>1 DEF NetOK
  <2> QED
    BY <1>1, <1>2, <2>1, <2>2 DEF Typed
<1>4. FromClients'
  BY <1>0, <1>1, <1>2, EnvelopeAssumption DEF FromClients
<1>5. Bounded'
  <2>1. Cardinality(seen[n] \cup {w}) <= MaxSeen + (unchecked[n] + 1)
    BY <1>1, AddBounds DEF Bounded, Typed
  <2>2. unchecked'[n] = unchecked[n] + 1 /\ \A m \in Nodes : m # n => unchecked'[m] = unchecked[m]
    BY <1>1 DEF Typed
  <2> QED
    BY <1>2, <2>1, <2>2 DEF Bounded
<1>6. ASSUME NEW m \in Nodes \ evicted' PROVE Justified(m)'
  <2>1. Justified(m) /\ dupCounts'[m] = dupCounts[m] /\ reported'[m] = reported[m]
    BY <1>1
  <2>2. seen[m] \subseteq seen'[m] /\ seen'[m] \cap Idents = seen[m] \cap Idents
    BY <1>2, EnvelopeAssumption
  <2> QED
    BY <1>0, <2>1, <2>2 DEF Justified
<1> QED
  BY <1>3, <1>4, <1>5, <1>6

\* A message taken from a connection carries only what was signed, and so does
\* the answer.
LEMMA MessageStep ==
  ASSUME Inv, NEW a \in Nodes, NEW n \in Nodes, HandleMessage(a, n)
  PROVE  Inv'
<1> DEFINE S == Safe(Signed)
<1>1. /\ Ready(a, n) /\ Take(a, n) /\ UNCHANGED <<linked, announcing, posted, strayed, unchecked>>
      /\ chan \in [Nodes -> [Nodes -> Seq(S)]] /\ chan[a][n] # <<>>
  BY DEF HandleMessage, Ready, Inv, NetOK
<1>2. Known' = Known /\ Signed' = Signed /\ Signed \subseteq Known
  BY <1>1, KnownFrame, KnownGrows
<1>3. Head(chan[a][n]) \in S /\ chan' \in [Nodes -> [Nodes -> Seq(S)]]
  <2> HIDE DEF S
  <2> QED
    BY <1>1, ChanKeeps DEF Take
<1>4. ASSUME interests' \in [Nodes -> [Nodes -> SUBSET Topics]],
             answers' \in [Nodes -> [Nodes -> Responses(Signed) \cup {NoAnswer}]]
      PROVE  NetOK'
  BY <1>1, <1>2, <1>3, <1>4 DEF Inv, NetOK
<1>5. CASE OnTopics(a, n)
  <2>1. UNCHANGED <<seen, dupCounts, reported, stored, forwards, answers, evicted>>
    BY <1>5 DEF OnTopics
  <2>2. interests' \in [Nodes -> [Nodes -> SUBSET Topics]]
    BY <1>3, <1>5 DEF OnTopics, Inv, NetOK, Safe, Messages
  <2> QED
    BY <1>1, <1>4, <2>1, <2>2, DataFrame DEF Inv, NetOK
<1>6. CASE OnDataRequest(a, n)
  <2>1. UNCHANGED <<interests, seen, dupCounts, reported, stored, forwards, evicted>>
    BY <1>6 DEF OnDataRequest
  <2>0. PICK t : \E es \in QueryByTopic(n, t) : answers' = [answers EXCEPT ![n][a] = Msg("response", es)]
    BY <1>6 DEF OnDataRequest
  <2>2. PICK es \in QueryByTopic(n, t) : answers' = [answers EXCEPT ![n][a] = Msg("response", es)]
    BY <2>0
  <2>3. es \subseteq Signed
    BY <2>2 DEF QueryByTopic, OnTopic, Inv, FromClients
  <2>4. answers' \in [Nodes -> [Nodes -> Responses(Signed) \cup {NoAnswer}]]
    BY <2>2, <2>3 DEF Responses, Inv, NetOK
  <2> QED
    BY <1>1, <1>4, <2>1, <2>4, DataFrame DEF Inv, NetOK
<1>7. CASE OnDataResponse(a, n)
  <2> DEFINE body == Head(chan[a][n]).body
  <2>1. /\ UNCHANGED <<interests, seen, dupCounts, reported, forwards, answers, evicted>>
        /\ Head(chan[a][n]).type = "response"
        /\ stored' = [stored EXCEPT ![n] = @ \cup Ingest(UNION {Validated(e, TRUE) : e \in body})]
    BY <1>7 DEF OnDataResponse
  <2>2. UNION {Validated(e, TRUE) : e \in body} \subseteq Signed
    BY <1>3, <2>1 DEF Validated, Safe
  <2>3. /\ stored' \in [Nodes -> SUBSET Ingestible]
        /\ \A m \in Nodes : stored'[m] \subseteq Signed
    BY <2>1, <2>2 DEF Ingest, Inv, Typed, FromClients
  <2>4. Typed' /\ FromClients'
    BY <1>1, <1>2, <2>1, <2>3 DEF Inv, Typed, FromClients
  <2>5. Bounded' /\ \A m \in Nodes \ evicted' : Justified(m)'
    BY <1>1, <1>2, <2>1, JustifiedFrame DEF Inv, Bounded
  <2> QED
    BY <1>4, <2>1, <2>4, <2>5 DEF Inv, NetOK
<1>8. CASE OnDataMessage(a, n)
  <2>1. UNCHANGED <<interests, answers>> /\ Head(chan[a][n]).type = "data"
    BY <1>8 DEF OnDataMessage
  <2>2. PICK e \in Head(chan[a][n]).body : OnData(n, e, TRUE, a)
    BY <1>8 DEF OnDataMessage
  <2>3. e \in Known' /\ e \in Signed'
    BY <1>2, <1>3, <2>1, <2>2 DEF Safe
  <2> QED
    BY <1>1, <1>4, <2>1, <2>2, <2>3, OnDataKeeps DEF Inv, NetOK
<1>9. CASE RateLimited(a, n)
  <2>1. UNCHANGED <<interests, seen, dupCounts, reported, stored, forwards, answers, evicted>>
    BY <1>9 DEF RateLimited
  <2> QED
    BY <1>1, <1>4, <2>1, DataFrame DEF Inv, NetOK
<1> QED
  BY <1>5, <1>6, <1>7, <1>8, <1>9 DEF HandleMessage

\* The invariant holds in every reachable state, for any mesh.
THEOREM GossipInvariant == Spec => []Inv
<1>1. Inv /\ [Next]_vars => Inv'
  <2> SUFFICES ASSUME Inv, [Next]_vars PROVE Inv'
    OBVIOUS
  <2>1. ASSUME NEW p \in Pairs, LinkUp(p[1], p[2]) \/ Announce(p[1], p[2]) \/ LinkDown(p[1], p[2])
        PROVE  Inv'
    <3>1. {p[1], p[2]} \in Links
      BY DEF Pairs
    <3> QED
      BY <2>1, <3>1, PairNodes, ConnectionStep
  <2>2. ASSUME NEW p \in Pairs, HandleMessage(p[1], p[2]) \/ Answer(p[1], p[2]) PROVE Inv'
    BY <2>2, PairNodes, MessageStep, AnswerStep
  <2>3. ASSUME NEW n \in Nodes, Forwards(n) PROVE Inv'
    BY <2>3, ForwardStep DEF Forwards, Senders
  <2>4. ASSUME NEW n \in Nodes, NEW e \in Envelopes, Post(n, e) PROVE Inv'
    BY <2>4, PostStep
  <2>7. ASSUME NEW n \in Nodes, NEW e \in Envelopes, NEW signed \in BOOLEAN, Stray(n, e, signed)
        PROVE  Inv'
    BY <2>7, StrayStep
  <2>6. ASSUME NEW n \in Nodes, NEW w \in Warnings, OnSlashWarning(n, w) PROVE Inv'
    BY <2>6, WarningStep
  <2>5. CASE UNCHANGED vars
    <3>1. NetOK' /\ UNCHANGED <<seen, dupCounts, reported, stored, forwards, posted, strayed, unchecked, evicted>>
      BY <2>5, KnownFrame DEF vars, Inv, NetOK
    <3> QED
      BY <3>1, DataFrame DEF Inv
  <2> QED
    BY <2>1, <2>2, <2>3, <2>4, <2>5, <2>6, <2>7 DEF Next
<1> QED
  BY <1>1, InvInit, PTL DEF Spec

\* Every variable keeps its type.
THEOREM GossipTypeCorrect == Spec => []TypeOK
<1>1. Inv => TypeOK
  <2> SUFFICES ASSUME Inv PROVE TypeOK
    OBVIOUS
  <2>1. \A K, s : s \in Seq(Safe(K)) => s \in Seq(Messages)
    BY DEF Safe
  <2>2. ASSUME NEW a \in Nodes, NEW b \in Nodes
        PROVE  chan[a][b] \in Seq(Messages) /\ announcing[a][b] \in Seq(Messages)
    BY <2>1 DEF Inv, NetOK
  <2>3. /\ chan \in [Nodes -> [Nodes -> Seq(Messages)]]
        /\ announcing \in [Nodes -> [Nodes -> Seq(Messages)]]
    BY <2>2, Zenon DEF Inv, NetOK
  <2>4. Responses(Signed) \subseteq Messages
    BY ResponseSafe DEF Responses, Safe
  <2>5. answers \in [Nodes -> [Nodes -> Messages \cup {NoAnswer}]]
    BY <2>4 DEF Inv, NetOK
  <2> QED
    BY <2>3, <2>5 DEF Inv, NetOK, Typed, TypeOK, Senders
<1> QED
  BY <1>1, GossipInvariant, PTL

\* Validate stands before everything that leaves a node or stays in it: whatever
\* unsigned copies come in, and however they race the signed ones, what a node
\* stores, forwards and answers came in with a good signature.
THEOREM UnsignedNeverSpread == Spec => []OnlySignedSpread
<1>1. Inv => OnlySignedSpread
  <2> SUFFICES ASSUME Inv, NEW n \in Nodes, NEW a \in Nodes PROVE answers[n][a].body \subseteq Signed
    BY DEF Inv, FromClients, OnlySignedSpread
  <2>1. answers[n][a] = NoAnswer \/ \E es \in SUBSET Signed : answers[n][a] = Msg("response", es)
    BY DEF Inv, NetOK, Responses
  <2>2. CASE answers[n][a] = NoAnswer
    <3>1. NoAnswer.body = {}
      BY DEF Msg, NoAnswer
    <3> QED
      BY <2>2, <3>1
  <2>3. ASSUME NEW es \in SUBSET Signed, answers[n][a] = Msg("response", es)
        PROVE  answers[n][a].body \subseteq Signed
    BY <2>3, ResponseSafe
  <2> QED
    BY <2>1, <2>2, <2>3
<1> QED
  BY <1>1, GossipInvariant, PTL

\* onData's eviction keeps the set of hashes within its limit, but for what the
\* node's own posts and slash warnings added, whatever the order of arrivals.
THEOREM SeenStaysBounded == Spec => []SeenBounded
<1>1. Inv => SeenBounded
  BY DEF Inv, Bounded, SeenBounded
<1> QED
  BY <1>1, GossipInvariant, PTL

\* A node that evicted nothing accuses a key of double publishing only when three
\* payloads of one identity came in under its name, signed or not, however their
\* copies arrive.
THEOREM AccusationsStaySound == Spec => []AccusationsSound
<1>1. Inv => AccusationsSound
  BY DEF Inv, Justified, AccusationsSound
<1> QED
  BY <1>1, GossipInvariant, PTL

==============================================================================
