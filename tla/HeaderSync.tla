----------------------------- MODULE HeaderSync ------------------------------
(***************************************************************************)
(* Start-up of a node: open the header store, then try the configured BSV   *)
(* nodes in order until one SyncFrom succeeds (cmd/anvil/main.go and         *)
(* internal/headers/sync.go), and serve from whatever the store then holds.  *)
(* The syncer is the only writer of the store it is composed with.           *)
(***************************************************************************)
EXTENDS HeaderStore, FiniteSetsExt

CONSTANTS
  Nodes,         \* cfg.BSV.Nodes, a sequence of peers
  Mined,         \* the headers the network mines, all with proof of work
  Faulty,        \* the nodes that may answer with anything in Batches
  MaxHeaders,    \* maxHeadersPerMsg
  LocatorMax,    \* 32, the loop bound of buildLocator
  LocatorDense,  \* 10, entries before the step doubles
  IOFailures,    \* the failures that may occur: "dial", "read", "write"
  MaxStops       \* bound on crashes and power losses

NodeSet == {Nodes[i] : i \in DOMAIN Nodes}

ASSUME SyncAssumption == /\ MaxHeaders \in Nat \ {0} /\ MaxStops \in Nat
                         /\ LocatorMax \in Nat \ {0, 1} /\ LocatorDense \in Nat \ {0}
                         /\ Nodes \in Seq(NodeSet)
                         /\ Faulty \subseteq NodeSet
                         /\ IOFailures \subseteq {"dial", "read", "write"}
                         /\ Genesis \in Mined /\ Mined \subseteq Blocks
                         /\ \A b \in Mined \ {Genesis} : Prev[b] \in Mined /\ ValidPoW[b]

VARIABLES
  phase,    \* "down", "dial", "connect", "request", "store" or "serving"
  node,     \* index into Nodes
  round,    \* the headers message being stored: its tip height and if full
  stats,    \* SyncStats: LastSource, if LastError and if LastSuccessAt are set
  peerHead, \* the tip of the chain each node follows
  answered, \* the tip of each node's chain when it last answered us
  stops

syncVars == <<phase, node, round, stats, peerHead, answered, stops>>
allVars == <<vars, syncVars>>

NoRound == [tip |-> 0, full |-> FALSE]
NoStats == [source |-> 0, failed |-> FALSE, succeeded |-> FALSE]

------------------------------------------------------------------------------
(* buildLocator: heights from the tip down, one apart at first, then doubling *)

\* Mutant: the height is not clamped at genesis.
LocatorStepUnclamped(i, s) ==
  LET step == IF i >= LocatorDense THEN 2 * s[2] ELSE s[2]
  IN  <<s[1] - step, step>>

\* What iteration i makes of the loop state <<height, step>>.
LocatorStep(i, s) ==
  LET step == IF i >= LocatorDense THEN 2 * s[2] ELSE s[2]
  IN  <<IF s[1] <= step THEN 0 ELSE s[1] - step, step>>

\* The loop state at the start of iteration i.
LocatorAt(t) ==
  LET walk[i \in 0..LocatorMax] ==
        IF i = 0 THEN <<t, 1>> ELSE LocatorStep(i - 1, walk[i - 1])
  IN walk

\* The heights whose hashes are sent; genesis is appended when the loop ran out.
buildLocator(t) ==
  {LocatorAt(t)[i][1] : i \in 0..(LocatorMax - 1)} \cup {0}

\* What a node that follows the protocol answers: the headers above the
\* highest locator entry on its own chain.
Path[b \in Mined] == IF b = Genesis THEN <<>> ELSE Append(Path[Prev[b]], b)

OnPeerChain(n, h) ==
  h = 0 \/ (h <= Len(Path[peerHead[n]]) /\ Path[peerHead[n]][h] = db.hdr[h])

HonestReply(n) ==
  LET common == CHOOSE h \in buildLocator(tip) :
                  /\ OnPeerChain(n, h)
                  /\ \A k \in buildLocator(tip) : OnPeerChain(n, k) => k <= h
      path == Path[peerHead[n]]
  IN  SubSeq(path, common + 1, Min({common + MaxHeaders, Len(path)}))

\* Headers messages. A faulty node sends any batch, as often as it is asked: the
\* store checks each header only against its own Bits.
Replies(n) == {HonestReply(n)} \cup (IF n \in Faulty THEN Batches ELSE {})

------------------------------------------------------------------------------
SyncInit == /\ Init
            /\ phase = "down" /\ node = 1 /\ round = NoRound /\ stats = NoStats
            /\ peerHead = [n \in NodeSet |-> Genesis]
            /\ answered = [n \in NodeSet |-> Genesis]
            /\ stops = 0

Start == /\ phase = "down"
         /\ NewStore
         /\ phase' = "dial" /\ node' = 1 /\ round' = NoRound /\ stats' = NoStats
         /\ UNCHANGED <<peerHead, answered, stops>>

\* Mutant: the same node is tried again.
FailStays == /\ phase' = "dial" /\ node' = node /\ round' = NoRound
             /\ stats' = [stats EXCEPT !.source = node, !.failed = TRUE]

\* recordFailure, then main's loop goes to the next node.
Fail == /\ phase' = "dial" /\ node' = node + 1 /\ round' = NoRound
        /\ stats' = [stats EXCEPT !.source = node, !.failed = TRUE]

\* recordSuccess, and main's loop breaks.
Succeed == /\ phase' = "serving" /\ round' = NoRound
           /\ stats' = [source |-> node, failed |-> FALSE, succeeded |-> TRUE]
           /\ UNCHANGED node

\* recordAttempt, and Connect is called.
Dial == /\ phase = "dial" /\ node <= Len(Nodes)
        /\ phase' = "connect"
        /\ stats' = [stats EXCEPT !.source = node, !.failed = FALSE]
        /\ UNCHANGED <<vars, node, round, peerHead, answered, stops>>

\* The handshake ends with the node's verack. Whatever the node sends before it
\* is ignored, changes nothing here, and restarts the read's deadline.
Handshake == /\ phase = "connect"
             /\ phase' = "request"
             /\ UNCHANGED <<vars, node, round, stats, peerHead, answered, stops>>

DialFails == /\ "dial" \in IOFailures /\ phase = "connect"
             /\ Fail
             /\ UNCHANGED <<vars, peerHead, answered, stops>>

\* No node is left: main goes on with the headers it has.
GiveUp == /\ phase = "dial" /\ node > Len(Nodes)
          /\ phase' = "serving"
          /\ UNCHANGED <<vars, node, round, stats, peerHead, answered, stops>>

\* RequestHeaders and ReadHeaders, up to the call of AddHeaders: the headers
\* message has come. Pings and ignored messages before it change nothing here,
\* and each of them restarts the read's deadline.
ReadHeaders ==
  /\ phase = "request" /\ call = "idle"
  /\ \E headers \in Replies(Nodes[node]) :
       /\ answered' = [answered EXCEPT ![Nodes[node]] =
                          peerHead[Nodes[node]]]
       /\ \/ /\ headers = <<>>
             /\ Succeed
             /\ UNCHANGED vars
          \/ /\ AddHeaders(tip + 1, headers)
             /\ round' = [tip |-> tip + Len(headers), full |-> Len(headers) >= MaxHeaders]
             /\ phase' = "store"
             /\ UNCHANGED <<node, stats>>
  /\ UNCHANGED <<peerHead, stops>>

\* The connection breaks or is silent for readTimeout after the last message.
ReadFails == /\ "read" \in IOFailures /\ phase = "request"
             /\ Fail
             /\ UNCHANGED <<vars, peerHead, answered, stops>>

StoreStep == /\ phase = "store"
             /\ \/ CheckHeader \/ RejectHeader \/ WriteBatch \/ Publish
                \/ "write" \in IOFailures /\ WriteFails
             /\ UNCHANGED syncVars

\* Mutant: a full headers message is taken for the last one.
StoredStopsEarly == /\ phase = "store" /\ call = "idle"
                    /\ \/ tip # round.tip /\ Fail
                       \/ tip = round.tip /\ Succeed
                    /\ UNCHANGED <<vars, peerHead, answered, stops>>

\* AddHeaders has returned: an error, a full message or the last one.
Stored == /\ phase = "store" /\ call = "idle"
          /\ \/ tip # round.tip /\ Fail
             \/ /\ tip = round.tip /\ round.full
                /\ phase' = "request" /\ round' = NoRound
                /\ UNCHANGED <<node, stats>>
             \/ tip = round.tip /\ ~round.full /\ Succeed
          /\ UNCHANGED <<vars, peerHead, answered, stops>>

StopNode == /\ stops < MaxStops
            /\ Crash \/ PowerLoss
            /\ stops' = stops + 1
            /\ phase' = "down" /\ node' = 1 /\ round' = NoRound /\ stats' = NoStats
            /\ UNCHANGED <<peerHead, answered>>

FlushDisk == Flush /\ UNCHANGED syncVars

\* A node hears of a heavier chain: a new block, or a reorganisation.
Mine == /\ \E n \in NodeSet, b \in Mined :
              /\ ChainWork[b] > ChainWork[peerHead[n]]
              /\ peerHead' = [peerHead EXCEPT ![n] = b]
        /\ UNCHANGED <<vars, phase, node, round, stats, answered, stops>>

\* What the node that is asked decides: when its answer comes or fails to come.
Answer == Handshake \/ DialFails \/ ReadHeaders \/ ReadFails

HonestAnswer == /\ phase \in {"connect", "request"} /\ Nodes[node] \notin Faulty
                /\ Answer

Progress == Start \/ Dial \/ GiveUp \/ StoreStep \/ Stored

SyncNext == Progress \/ Answer \/ StopNode \/ FlushDisk \/ Mine

(***************************************************************************)
(* The start-up sequence is one goroutine and goes on by itself between the  *)
(* reads. A read ends by itself only with an honest node, which answers or    *)
(* falls silent for readTimeout: the deadline is set again for every message, *)
(* so a faulty node that goes on sending ignored ones keeps it open for ever. *)
(***************************************************************************)
SyncSpec == SyncInit /\ [][SyncNext]_allVars
            /\ WF_allVars(Progress) /\ WF_allVars(HonestAnswer)

------------------------------------------------------------------------------
\* A sync that reports success has stored the whole chain an honest node had
\* when it last answered: it did not stop at a full headers message.
SyncReachesPeer ==
  phase = "serving" /\ stats.succeeded /\ Nodes[stats.source] \notin Faulty
    => LET b == answered[Nodes[stats.source]]
       IN  b \in DOMAIN db.idx /\ db.idx[b] <= tip

\* The locator starts at the tip and ends at genesis, so an honest node always
\* finds a common header, and every entry is a height the store can look up.
LocatorUsable ==
  up /\ call = "idle" => /\ {tip, 0} \subseteq buildLocator(tip)
                         /\ buildLocator(tip) \subseteq DOMAIN db.hdr
                         /\ tip > 0 => tip - 1 \in buildLocator(tip)
                         /\ Cardinality(buildLocator(tip)) <= LocatorMax + 1

\* Without a restart the sync never takes a header off the chain, whatever the
\* nodes answer.
SyncNeverShortens ==
  [][up /\ up' => /\ db'.tip >= db.tip
                  /\ \A h \in 0..db.tip : db'.hdr[h] = db.hdr[h]]_allVars

\* A node that is not restarted any more gets to the serving phase, whichever
\* nodes fail to answer or answer wrongly, unless one faulty node holds it for
\* ever, with ignored messages or with full headers messages without end.
StartupCompletes ==
  \/ []<>(phase = "serving")
  \/ \E i \in {j \in DOMAIN Nodes : Nodes[j] \in Faulty} :
       <>[](node = i /\ phase \in {"connect", "request", "store"})
==============================================================================
