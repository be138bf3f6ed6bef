----------------------------- MODULE PaymentGate -----------------------------
(***************************************************************************)
(* The x402 payment gate in front of the REST handlers (internal/api:        *)
(* payment.go, payment_verify.go, payment_resolve.go, token_gate.go).        *)
(*                                                                          *)
(* Every HTTP request is a goroutine that runs the token gate, resolves the  *)
(* payees and then issues a challenge or verifies a payment.  It holds       *)
(* pg.mu only around single accesses to pendingChallenges, so requests, the  *)
(* cleanExpired goroutines, the clock, new monetization metadata and other   *)
(* users of the miners' mempool interleave between any two steps.            *)
(*                                                                          *)
(* A challenge is named by its nonce UTXO, which no other challenge carries  *)
(* (NoncePool), and the nonce by the number of challenges issued.  A request *)
(* stands for all that a proof is bound to: method, path, query, header and  *)
(* body hash.  A transaction stands for its txid.                            *)
(***************************************************************************)
EXTENDS Integers, Sequences, FiniteSets

CONSTANTS
  Handlers,          \* the HTTP requests of a behaviour, a goroutine each
  Requests,          \* what may be asked for
  Path, Topic,       \* the path and the topic parameter of a request
  PostRequests,      \* routed through authOrPay, which has no token gate
  InfraPaths,        \* /content/ and /.well-known/
  Topics, NoTopic,
  PriceSats, EndpointPrices, MaxAppPriceSats,
  NodeScript, NoScript,
  AllowPassthrough, AllowSplit, AllowTokenGating,
  RequireMempool, HasARC, DevNonces,
  ChallengeTTL,
  Monetizations,     \* metadata that topics may carry
  Txs, Spends, Outputs,
  Orphans,           \* transactions with a parent the miners do not know
  Credentials,       \* the X-App-Token headers: none, invalid or valid
  PaymentHeaders,    \* the X402-Proof and X-Bsv-Payment headers clients send
  MaxNonces, MaxClock

Models == {"none", "passthrough", "split", "token", "free"}
NoMon == [model |-> "none", script |-> NoScript, price |-> 0]

NoHeader == [kind |-> "none", nonce |-> 0, request |-> "", tx |-> "", txid |-> ""]

(***************************************************************************)
(* The last two conjuncts are NewPaymentGate's: otherwise there is no gate.  *)
(***************************************************************************)
ASSUME GateAssumption ==
  /\ Path \in [Requests -> STRING] /\ Topic \in [Requests -> Topics \cup {NoTopic}]
  /\ NoTopic \notin Topics
  /\ PriceSats \in Nat /\ MaxAppPriceSats \in Nat
  /\ \A p \in DOMAIN EndpointPrices : EndpointPrices[p] \in Nat
  /\ \A m \in Monetizations : m.model \in Models /\ m.price \in Nat
  /\ ChallengeTTL \in Nat /\ MaxNonces \in Nat /\ MaxClock \in Nat
  /\ NoHeader \in PaymentHeaders /\ Credentials \subseteq {"none", "invalid", "valid"}
  /\ \A d \in PaymentHeaders : /\ d.kind \in {"none", "direct", "proof"}
                               /\ d.kind # "none" => d.tx \in Txs
  /\ {RequireMempool, HasARC, DevNonces, AllowPassthrough, AllowSplit,
      AllowTokenGating} \subseteq BOOLEAN
  /\ PriceSats > 0 \/ AllowPassthrough \/ AllowSplit
  /\ PriceSats > 0 => NodeScript # NoScript

VARIABLES
  clock,     \* time.Now().Unix()
  mon,       \* the monetization of the latest envelope of each topic
  quoted,    \* every challenge issued, by nonce
  pending,   \* pg.pendingChallenges: the nonces of the challenges in the map
  cleaners,  \* go pg.cleanExpired() goroutines that have not run yet
  mempool,   \* transactions the miners have accepted
  job        \* where each request is

vars == <<clock, mon, quoted, pending, cleaners, mempool, job>>

------------------------------------------------------------------------------
(* Prices and payees                                                        *)

priceForPath(path) ==
  IF path \in InfraPaths THEN 0
  ELSE IF path \in DOMAIN EndpointPrices THEN EndpointPrices[path] ELSE PriceSats

Resolve(topic) == IF topic = NoTopic THEN NoMon ELSE mon[topic]

NodePayee(req) ==
  IF priceForPath(Path[req]) > 0 /\ NodeScript # NoScript
  THEN {[role |-> "infrastructure", script |-> NodeScript,
         sats |-> priceForPath(Path[req])]}
  ELSE {}

AppPayee(m) ==
  {[role |-> "content", script |-> m.script,
    sats |-> IF MaxAppPriceSats > 0 /\ m.price > MaxAppPriceSats
             THEN MaxAppPriceSats ELSE m.price]}

tokenGated(req) == Resolve(Topic[req]).model = "token"

resolvePayees(req) ==
  LET m == Resolve(Topic[req])
  IN  CASE m.model = "passthrough" /\ AllowPassthrough -> AppPayee(m)
        [] m.model = "split" /\ AllowSplit -> NodePayee(req) \cup AppPayee(m)
        [] OTHER -> NodePayee(req)

\* Some output pays at least the amount to the script.  Each payee is looked
\* up by itself, so one output can count for two payees.
PaysAll(tx, payees) ==
  \A p \in payees : \E o \in Outputs[tx] : o.sats >= p.sats /\ o.script = p.script

------------------------------------------------------------------------------
Idle == [pc |-> "idle", req |-> "", cred |-> "none", header |-> NoHeader,
         payees |-> {}, status |-> "none", how |-> "none"]

Init == /\ clock = 0 /\ mon = [t \in Topics |-> NoMon]
        /\ quoted = <<>> /\ pending = {} /\ cleaners = 0
        /\ mempool = {}
        /\ job = [h \in Handlers |-> Idle]

Goto(h, label) == job' = [job EXCEPT ![h].pc = label]

Refuse(h) == Goto(h, "refused")

Serve(h, by) == job' = [job EXCEPT ![h].pc = "served", ![h].how = by]

Arrive(h, req, cred, header) ==
  /\ job[h].pc = "idle"
  /\ job' = [job EXCEPT ![h] =
       [Idle EXCEPT !.pc = IF AllowTokenGating /\ req \notin PostRequests
                           THEN "token" ELSE "pay",
                    !.req = req, !.cred = cred, !.header = header]]
  /\ UNCHANGED <<clock, mon, quoted, pending, cleaners, mempool>>

\* TokenGate.Middleware; its Resolve is not the one of the payment gate.
TokenGate(h) ==
  /\ job[h].pc = "token"
  /\ IF tokenGated(job[h].req) /\ job[h].cred # "valid"
     THEN Refuse(h) ELSE Goto(h, "pay")
  /\ UNCHANGED <<clock, mon, quoted, pending, cleaners, mempool>>

\* PaymentGate.Middleware up to the branch on the headers.
Middleware(h) ==
  /\ job[h].pc = "pay"
  /\ LET payees == resolvePayees(job[h].req)
         next == CASE job[h].header.kind = "none"   -> "mint"
                   [] job[h].header.kind = "direct" -> "direct"
                   [] job[h].header.kind = "proof"  -> "lookup"
     IN  \/ tokenGated(job[h].req) /\ Serve(h, "token")
         \/ ~tokenGated(job[h].req) /\ payees = {} /\ Serve(h, "free")
         \/ /\ ~tokenGated(job[h].req) /\ payees # {}
            /\ job' = [job EXCEPT ![h].pc = next, ![h].payees = payees]
  /\ UNCHANGED <<clock, mon, quoted, pending, cleaners, mempool>>

\* issueChallengeForPayees after MintNonce returned: the payees are those of
\* the Middleware step, the expiry counts from now.
IssueChallenge(h) ==
  /\ job[h].pc = "mint" /\ Len(quoted) < MaxNonces
  /\ quoted' = Append(quoted, [req |-> job[h].req, payees |-> job[h].payees,
                               expires |-> clock + ChallengeTTL])
  /\ pending' = pending \cup {Len(quoted) + 1}
  /\ cleaners' = cleaners + 1
  /\ Goto(h, "challenged")
  /\ UNCHANGED <<clock, mon, mempool>>

MintFails(h) == /\ job[h].pc = "mint"
                /\ Refuse(h)
                /\ UNCHANGED <<clock, mon, quoted, pending, cleaners, mempool>>

\* now is read before the lock is taken, so it may be behind the clock.
CleanExpired ==
  /\ cleaners > 0
  /\ \E now \in 0..clock :
       pending' = {n \in pending : ~(now > quoted[n].expires)}
  /\ cleaners' = cleaners - 1
  /\ UNCHANGED <<clock, mon, quoted, mempool, job>>

Nonce(h) == job[h].header.nonce

\* Mutant: the proof is compared with the challenge only, not with the request.
BoundToChallenge(h) == job[h].header.request = quoted[Nonce(h)].req

Bound(h) == /\ job[h].header.request = quoted[Nonce(h)].req
            /\ job[h].req = quoted[Nonce(h)].req

\* Mutant: the challenge is taken out of the map at the lookup.
LookUpTakes(h) ==
  /\ job[h].pc = "lookup"
  /\ IF Nonce(h) \in pending /\ Bound(h) THEN Goto(h, "check") ELSE Refuse(h)
  /\ pending' = pending \ {Nonce(h)}
  /\ UNCHANGED <<clock, mon, quoted, cleaners, mempool>>

\* verifyProof, steps 1 to 3: the lock is released after the lookup.
LookUp(h) ==
  /\ job[h].pc = "lookup"
  /\ IF Nonce(h) \in pending /\ Bound(h) THEN Goto(h, "check") ELSE Refuse(h)
  /\ UNCHANGED <<clock, mon, quoted, pending, cleaners, mempool>>

\* verifyProof, step 4.
Expired(h) ==
  /\ job[h].pc = "check" /\ clock > quoted[Nonce(h)].expires
  /\ pending' = pending \ {Nonce(h)}
  /\ Refuse(h)
  /\ UNCHANGED <<clock, mon, quoted, cleaners, mempool>>

\* Mutant: the inputs of the transaction are not searched for the nonce.
NonceSpentUnchecked(h) == TRUE

NonceSpent(h) == DevNonces \/ Nonce(h) \in Spends[job[h].header.tx]

\* verifyProof, steps 5 to 8.
Acceptable(h) == LET d == job[h].header
                 IN  /\ NonceSpent(h)
                     /\ PaysAll(d.tx, quoted[d.nonce].payees)
                     /\ d.txid \in {"", d.tx}

VerifyProof(h) ==
  /\ job[h].pc = "check" /\ clock <= quoted[Nonce(h)].expires
  /\ IF Acceptable(h)
     THEN Goto(h, IF RequireMempool /\ HasARC THEN "submit" ELSE "consume")
     ELSE Refuse(h)
  /\ UNCHANGED <<clock, mon, quoted, pending, cleaners, mempool>>

\* verifyDirectPayment up to ARC: the payees are those just resolved.
VerifyDirect(h) ==
  /\ job[h].pc = "direct"
  /\ IF ~PaysAll(job[h].header.tx, job[h].payees) THEN Refuse(h)
     ELSE IF HasARC THEN Goto(h, "submit") ELSE Serve(h, "direct")
  /\ UNCHANGED <<clock, mon, quoted, pending, cleaners, mempool>>

\* The miners accept a transaction unless it conflicts with one they have.
Minable(tx) == /\ tx \notin Orphans
               /\ \A u \in mempool : u # tx => Spends[u] \cap Spends[tx] = {}

AcceptedStatuses == {"SEEN_ON_NETWORK", "MINED", "SEEN_IN_ORPHAN_MEMPOOL"}

\* ARCClient.Submit: what the miners do with it and what the answer is.
ARCAnswers(tx) ==
  (IF Minable(tx) THEN {[status |-> "SEEN_ON_NETWORK", pool |-> mempool \cup {tx}],
                        [status |-> "error", pool |-> mempool \cup {tx}]} ELSE {})
  \cup (IF tx \in mempool THEN {[status |-> "MINED", pool |-> mempool]} ELSE {})
  \cup (IF tx \in Orphans THEN {[status |-> "SEEN_IN_ORPHAN_MEMPOOL", pool |-> mempool]}
        ELSE {})
  \cup {[status |-> s, pool |-> mempool] : s \in {"REJECTED", "error"}}

\* Mutant: the verification starts again whenever ARC does not answer.
SubmitRetries(h) ==
  /\ job[h].pc = "submit"
  /\ \E a \in ARCAnswers(job[h].header.tx) :
       /\ mempool' = a.pool
       /\ job' = [job EXCEPT
            ![h].status = a.status,
            ![h].how = IF a.status \in AcceptedStatuses /\ job[h].header.kind = "direct"
                       THEN "direct" ELSE @,
            ![h].pc = CASE a.status = "error" ->
                            IF job[h].header.kind = "direct" THEN "direct" ELSE "lookup"
                        [] a.status = "REJECTED" -> "refused"
                        [] OTHER -> IF job[h].header.kind = "direct"
                                    THEN "served" ELSE "consume"]
  /\ UNCHANGED <<clock, mon, quoted, pending, cleaners>>

Submit(h) ==
  /\ job[h].pc = "submit"
  /\ \E a \in ARCAnswers(job[h].header.tx) :
       /\ mempool' = a.pool
       /\ job' = [job EXCEPT
            ![h].status = a.status,
            ![h].how = IF a.status \in AcceptedStatuses /\ job[h].header.kind = "direct"
                       THEN "direct" ELSE @,
            ![h].pc = IF a.status \notin AcceptedStatuses THEN "refused"
                      ELSE IF job[h].header.kind = "direct" THEN "served" ELSE "consume"]
  /\ UNCHANGED <<clock, mon, quoted, pending, cleaners>>

\* Mutant: the used challenge is left for cleanExpired.
ConsumeNothing(h) ==
  /\ job[h].pc = "consume"
  /\ Serve(h, "proof")
  /\ UNCHANGED <<clock, mon, quoted, pending, cleaners, mempool>>

\* The end of verifyProof: the challenge is deleted and the request served.
Consume(h) ==
  /\ job[h].pc = "consume"
  /\ pending' = pending \ {Nonce(h)}
  /\ Serve(h, "proof")
  /\ UNCHANGED <<clock, mon, quoted, cleaners, mempool>>

\* A new envelope, or the expiry of the latest one, changes what Resolve returns.
Monetize == /\ \E t \in Topics, m \in Monetizations \cup {NoMon} :
                 mon' = [mon EXCEPT ![t] = m]
            /\ UNCHANGED <<clock, quoted, pending, cleaners, mempool, job>>

\* A client gives a transaction to the miners without the node.
Broadcast == /\ \E tx \in Txs : Minable(tx) /\ mempool' = mempool \cup {tx}
             /\ UNCHANGED <<clock, mon, quoted, pending, cleaners, job>>

Tick == /\ clock < MaxClock
        /\ clock' = clock + 1
        /\ UNCHANGED <<mon, quoted, pending, cleaners, mempool, job>>

Handle(h) == \/ TokenGate(h) \/ Middleware(h) \/ IssueChallenge(h) \/ MintFails(h)
             \/ LookUp(h) \/ Expired(h) \/ VerifyProof(h) \/ VerifyDirect(h)
             \/ Submit(h) \/ Consume(h)

Next == \/ \E h \in Handlers, req \in Requests, cred \in Credentials,
              header \in PaymentHeaders : Arrive(h, req, cred, header)
        \/ \E h \in Handlers : Handle(h)
        \/ CleanExpired \/ Monetize \/ Broadcast \/ Tick

Spec == Init /\ [][Next]_vars

(***************************************************************************)
(* net/http runs every handler and ARCClient has a timeout of 30 s.  MintNonce *)
(* calls the toolbox with context.Background(): it is taken to return, because *)
(* the requests the toolbox makes go through clients with timeouts.            *)
(***************************************************************************)
FairSpec == Spec /\ \A h \in Handlers : WF_vars(Handle(h))

------------------------------------------------------------------------------
Done == {"served", "refused", "challenged"}
Labels == {"idle", "token", "pay", "mint", "lookup", "check", "direct", "submit",
           "consume"} \cup Done

Scripts == {NodeScript, NoScript} \cup {m.script : m \in Monetizations}
Payees == [role : {"infrastructure", "content"}, script : Scripts, sats : Nat]
Challenges == [req : Requests, payees : SUBSET Payees, expires : Nat]
Tokens == {"none", "invalid", "valid"}
Statuses == AcceptedStatuses \cup {"none", "REJECTED", "error"}
Ways == {"none", "token", "free", "direct", "proof"}
Jobs == [pc : Labels, req : Requests \cup {""}, cred : Tokens, header : PaymentHeaders,
         payees : SUBSET Payees, status : Statuses, how : Ways]

TypeOK ==
  /\ clock \in Nat /\ cleaners \in Nat
  /\ mon \in [Topics -> Monetizations \cup {NoMon}]
  /\ quoted \in Seq(Challenges)
  /\ pending \subseteq 1..Len(quoted)
  /\ mempool \subseteq Txs
  /\ job \in [Handlers -> Jobs]

ByProof(h) == job[h].pc = "served" /\ job[h].how = "proof"

\* ARC reported the payment of h as held by the miners.
Seen(h) == job[h].status \in {"SEEN_ON_NETWORK", "MINED"}

\* "Replay-safe: the nonce UTXO can only be spent once": however proofs for a
\* challenge race each other, they are served for one and the same transaction.
\* A transaction in the orphan pool does not count: its inputs are not claimed.
OneTxPerChallenge ==
  ~DevNonces =>
    \A h, k \in Handlers :
      ByProof(h) /\ Seen(h) /\ ByProof(k) /\ Seen(k) /\ Nonce(h) = Nonce(k)
        => job[h].header.tx = job[k].header.tx

\* A challenge that has been served is not in the map any more, so a proof sent
\* after the response cannot be served again.
UsedChallengeGone == \A h \in Handlers : ByProof(h) => Nonce(h) \notin pending

\* A challenge leaves the map only by being served or by expiring: a refused
\* proof, or one whose ARC answer got lost, does not cost the client its payment.
UnusedChallengeKept ==
  \A n \in 1..Len(quoted) :
    n \in pending \/ clock > quoted[n].expires \/ \E h \in Handlers : ByProof(h) /\ Nonce(h) = n

\* What was served for a proof had been quoted for that very request, and the
\* transaction pays the quoted payees, whatever the topic costs by now.
QuoteHonoured ==
  \A h \in Handlers : ByProof(h) =>
    /\ Nonce(h) \in 1..Len(quoted)
    /\ quoted[Nonce(h)].req = job[h].req
    /\ PaysAll(job[h].header.tx, quoted[Nonce(h)].payees)

\* Every request is answered, also when the token gate, the wallet or ARC fails.
RequestsAnswered ==
  \A h \in Handlers : job[h].pc \notin {"idle"} \cup Done ~> job[h].pc \in Done

==============================================================================
