---------------------------- MODULE PaymentProofs ----------------------------
(***************************************************************************)
(* For every pool size the nonce pool never overflows and never hands one    *)
(* nonce UTXO to two challenges; and what the payment gate guarantees for    *)
(* any number of concurrent requests, any prices, any transactions and any   *)
(* behaviour of clients and ARC.                                             *)
(***************************************************************************)
EXTENDS NoncePool, PaymentGate, SequenceTheorems, TLAPS

------------------------------------------------------------------------------
(* The nonce pool.                                                           *)

\* The refiller's count, taken before it mints, still fits: only handlers
\* touch the pool meanwhile, and they only take.
RoomForFill ==
  /\ minting <=> fill.pc # "idle"
  /\ fill.pc # "idle" => /\ fill.minted <= fill.needed
                         /\ Len(pool) + (fill.needed - fill.minted) <= PoolSize
  /\ fill.pc = "append" => fill.minted < fill.needed

\* Everything handed out or kept was created by the wallet before.
Created ==
  /\ next > 0
  /\ \A i \in 1..Len(pool) : 0 < pool[i] /\ pool[i] < next
  /\ \A n \in issued : 0 < n /\ n < next
  /\ fill.held < next
  /\ fill.pc = "append" => fill.held > 0

PoolInv == PoolTypes /\ PoolBounded /\ NoncesDistinct /\ RoomForFill /\ Created

\* A new pool is empty.
LEMMA PoolInitInv == PoolInit => PoolInv
<1> SUFFICES ASSUME PoolInit PROVE PoolInv
  OBVIOUS
<1> USE PoolAssumption
<1>1. minting \in BOOLEAN
  BY Zenon DEF PoolInit
<1>2. /\ pool = <<>> /\ issued = {} /\ fill.pc = "idle" /\ fill.held = 0
      /\ next = 1 /\ fill \in Fills /\ spawned = 1 /\ demand = 0 /\ Len(pool) = 0
  BY DEF PoolInit, NoFill, Fills
<1>3. minting <=> fill.pc # "idle"
  BY <1>2 DEF PoolInit
<1>4. PoolTypes
  BY <1>1, <1>2 DEF PoolTypes
<1> QED BY <1>2, <1>3, <1>4 DEF PoolInv, PoolBounded, NoncesDistinct, RoomForFill, Created

\* What MintFromPool leaves behind.
LEMMA PopFacts ==
  ASSUME pool \in Seq(Nat), pool # <<>>
  PROVE  LET q == SubSeq(pool, 1, Len(pool) - 1)
         IN  /\ q \in Seq(Nat) /\ Len(q) = Len(pool) - 1 /\ Len(pool) \in Nat \ {0}
             /\ \A i \in 1..Len(q) : q[i] = pool[i]
<1> DEFINE q == SubSeq(pool, 1, Len(pool) - 1)
<1>1. Len(pool) \in Nat \ {0} /\ \A i \in 1..(Len(pool) - 1) : pool[i] \in Nat
  BY EmptySeq
<1>2. /\ q \in Seq(Nat)
      /\ Len(q) = IF 1 <= Len(pool) - 1 THEN Len(pool) - 1 - 1 + 1 ELSE 0
      /\ \A i \in 1..(Len(pool) - 1 - 1 + 1) : q[i] = pool[1 + i - 1]
  BY <1>1, SubSeqProperties
<1> HIDE DEF q
<1>3. Len(q) = Len(pool) - 1
  <2>1. CASE Len(pool) = 1
    BY <1>2, <2>1
  <2>2. CASE Len(pool) # 1
    <3>1. \A n \in Nat \ {0} : n # 1 => 1 <= n - 1 /\ n - 1 - 1 + 1 = n - 1
      OBVIOUS
    <3>2. 1 <= Len(pool) - 1 /\ Len(pool) - 1 - 1 + 1 = Len(pool) - 1
      BY <1>1, <2>2, <3>1
    <3> QED BY <1>2, <3>2
  <2> QED BY <2>1, <2>2
<1>4. ASSUME NEW i \in 1..Len(q) PROVE q[i] = pool[i]
  <2>1. i \in Int /\ 1 + i - 1 = i /\ i \in 1..(Len(pool) - 1 - 1 + 1)
    BY <1>1, <1>3
  <2> QED BY <1>2, <2>1
<1> QED BY <1>1, <1>2, <1>3, <1>4 DEF q

\* Every lock section of MintNonce and replenish keeps the invariant.
LEMMA PoolStep == PoolInv /\ [PoolNext]_poolVars => PoolInv'
<1> SUFFICES ASSUME PoolInv, [PoolNext]_poolVars PROVE PoolInv'
  OBVIOUS
<1> USE PoolAssumption
<1>1. CASE UNCHANGED poolVars
  BY <1>1 DEF poolVars, PoolInv, PoolTypes, PoolBounded, NoncesDistinct, RoomForFill, Created
<1>2. CASE MintFromPool
  <2>1. pool \in Seq(Nat) /\ pool # <<>>
    BY <1>2 DEF MintFromPool, PoolInv, PoolTypes
  <2>2. /\ pool' \in Seq(Nat) /\ Len(pool') = Len(pool) - 1 /\ Len(pool) \in Nat \ {0}
        /\ \A i \in 1..Len(pool') : pool'[i] = pool[i] /\ i \in 1..Len(pool) /\ i # Len(pool)
    BY <1>2, <2>1, PopFacts DEF MintFromPool
  <2>3. /\ UNCHANGED <<minting, fill, demand, next>>
        /\ issued' = issued \cup {pool[Len(pool)]}
        /\ spawned' = spawned \/ spawned' = spawned + 1
    BY <1>2 DEF MintFromPool
  <2>4. Len(pool) \in 1..Len(pool) /\ pool[Len(pool)] \in Nat
    BY <2>1, <2>2
  <2>5. PoolTypes'
    <3>1. issued' \subseteq Nat
      BY <2>3, <2>4 DEF PoolInv, PoolTypes
    <3>2. spawned \in Nat
      BY DEF PoolInv, PoolTypes
    <3>3. spawned' \in Nat
      BY <2>3, <3>2
    <3> QED BY <2>2, <2>3, <3>1, <3>3 DEF PoolInv, PoolTypes
  <2>6. NoncesDistinct'
    BY <2>2, <2>3, <2>4 DEF PoolInv, NoncesDistinct
  <2>7. Created'
    BY <2>2, <2>3, <2>4 DEF PoolInv, Created
  <2>8. PoolBounded' /\ RoomForFill'
    <3>1. fill.needed \in Nat /\ fill.minted \in Nat
      BY DEF PoolInv, PoolTypes, Fills
    <3>2. PoolBounded'
      BY <2>2 DEF PoolInv, PoolBounded
    <3>3. fill' = fill /\ minting' = minting
      BY <2>3
    <3> QED BY <2>2, <3>1, <3>2, <3>3 DEF PoolInv, RoomForFill
  <2> QED BY <2>5, <2>6, <2>7, <2>8 DEF PoolInv
<1>3. CASE MintOnDemand
  BY <1>3 DEF MintOnDemand, PoolInv, PoolTypes, PoolBounded, NoncesDistinct, RoomForFill, Created
<1>4. CASE DemandMinted
  <2>1. /\ UNCHANGED <<pool, minting, fill>> /\ demand' = demand - 1 /\ demand > 0
        /\ issued' = issued \cup {next} /\ next' = next + 1 /\ spawned' = spawned + 1
    BY <1>4 DEF DemandMinted
  <2>2. PoolTypes'
    BY <2>1 DEF PoolInv, PoolTypes
  <2>3. \A i \in 1..Len(pool) : pool[i] \in Nat
    BY DEF PoolInv, PoolTypes
  <2>4. fill.held \in Nat /\ next \in Nat
    BY DEF PoolInv, PoolTypes, Fills
  <2>5. NoncesDistinct'
    BY <2>1, <2>3, <2>4 DEF PoolInv, NoncesDistinct, Created
  <2>6. Created'
    <3>1. \A n \in issued : n \in Nat
      BY DEF PoolInv, PoolTypes
    <3> QED BY <2>1, <2>3, <2>4, <3>1 DEF PoolInv, Created
  <2> QED BY <2>1, <2>2, <2>5, <2>6 DEF PoolInv, PoolBounded, RoomForFill
<1>5. CASE DemandFails
  BY <1>5 DEF DemandFails, PoolInv, PoolTypes, PoolBounded, NoncesDistinct, RoomForFill, Created
<1>6. CASE ReplenishStart
  <2>1. /\ UNCHANGED <<pool, demand, next, issued>> /\ minting' = TRUE
        /\ spawned' = spawned - 1 /\ spawned > 0
        /\ fill' = [pc |-> "fill", needed |-> PoolSize - Len(pool), minted |-> 0, held |-> 0]
    BY <1>6 DEF ReplenishStart
  <2>2. Len(pool) \in Nat /\ PoolSize - Len(pool) \in Nat
    BY DEF PoolInv, PoolTypes, PoolBounded
  <2>3. /\ fill' \in Fills /\ fill'.pc = "fill" /\ fill'.held = 0 /\ fill'.minted = 0
        /\ fill'.needed = PoolSize - Len(pool)
    BY <2>1, <2>2 DEF Fills
  <2>4. minting' \in BOOLEAN /\ (minting' <=> fill'.pc # "idle")
    BY <2>1, <2>3
  <2>5. PoolTypes'
    BY <2>1, <2>3, <2>4 DEF PoolInv, PoolTypes
  <2>6. \A i \in 1..Len(pool) : pool[i] # 0
    BY DEF PoolInv, Created
  <2>7. 0 \notin issued
    BY DEF PoolInv, Created
  <2> QED BY <2>1, <2>2, <2>3, <2>4, <2>5, <2>6, <2>7
          DEF PoolInv, PoolBounded, NoncesDistinct, RoomForFill, Created
<1>7. CASE ReplenishSkips
  BY <1>7 DEF ReplenishSkips, PoolInv, PoolTypes, PoolBounded, NoncesDistinct, RoomForFill, Created
<1>8. CASE FillMints
  <2>1. /\ UNCHANGED <<pool, minting, spawned, demand, issued>> /\ next' = next + 1
        /\ fill' = [fill EXCEPT !.pc = "append", !.held = next]
        /\ fill.pc = "fill" /\ fill.minted < fill.needed
    BY <1>8 DEF FillMints
  <2>2. fill \in Fills /\ next \in Nat /\ \A i \in 1..Len(pool) : pool[i] \in Nat
    BY DEF PoolInv, PoolTypes
  <2>3. /\ fill' \in Fills /\ fill'.pc = "append" /\ fill'.held = next
        /\ fill'.minted = fill.minted /\ fill'.needed = fill.needed
    BY <2>1, <2>2 DEF Fills
  <2>4. PoolTypes'
    BY <2>1, <2>2, <2>3 DEF PoolInv, PoolTypes
  <2>5. NoncesDistinct'
    BY <2>1, <2>2, <2>3 DEF PoolInv, NoncesDistinct, Created
  <2>6. Created'
    <3>1. \A n \in issued : n \in Nat
      BY DEF PoolInv, PoolTypes
    <3> QED BY <2>1, <2>2, <2>3, <3>1 DEF PoolInv, Created
  <2> QED BY <2>1, <2>2, <2>3, <2>4, <2>5, <2>6 DEF PoolInv, PoolBounded, RoomForFill
<1>9. CASE FillAppends
  <2>1. /\ UNCHANGED <<minting, spawned, demand, next, issued>>
        /\ pool' = Append(pool, fill.held) /\ fill.pc = "append"
        /\ fill' = [fill EXCEPT !.pc = "fill", !.minted = @ + 1, !.held = 0]
    BY <1>9 DEF FillAppends
  <2>2. fill \in Fills /\ next \in Nat /\ pool \in Seq(Nat) /\ fill.held \in Nat
    BY DEF PoolInv, PoolTypes, Fills
  <2>3. /\ fill' \in Fills /\ fill'.pc = "fill" /\ fill'.held = 0
        /\ fill'.minted = fill.minted + 1 /\ fill'.needed = fill.needed
    <3>1. fill' = [pc |-> "fill", needed |-> fill.needed, minted |-> fill.minted + 1, held |-> 0]
      BY <2>1, <2>2 DEF Fills
    <3> QED BY <2>2, <3>1 DEF Fills
  <2>4. /\ pool' \in Seq(Nat) /\ Len(pool') = Len(pool) + 1 /\ Len(pool) \in Nat
        /\ pool'[Len(pool) + 1] = fill.held
        /\ \A i \in 1..Len(pool) : pool'[i] = pool[i]
    BY <2>1, <2>2
  <2>5. \A i \in 1..Len(pool') : i \in 1..Len(pool) \/ i = Len(pool) + 1
    BY <2>4
  <2>6. \A i \in 1..Len(pool) : pool[i] # fill.held /\ pool[i] \notin issued /\ pool[i] > 0
    BY DEF PoolInv, NoncesDistinct, Created
  <2>7. fill.held > 0 /\ fill.held < next /\ fill.held \notin issued /\ 0 \notin issued
    BY <2>1 DEF PoolInv, NoncesDistinct, Created
  <2>8. NoncesDistinct'
    <3>1. \A i, j \in 1..Len(pool') : i # j => pool'[i] # pool'[j]
      BY <2>4, <2>5, <2>6 DEF PoolInv, NoncesDistinct
    <3>2. \A i \in 1..Len(pool') : pool'[i] \notin issued' /\ pool'[i] # fill'.held
      BY <2>1, <2>3, <2>4, <2>5, <2>6, <2>7
    <3> QED BY <2>1, <2>3, <2>7, <3>1, <3>2 DEF NoncesDistinct
  <2>9. Created'
    BY <2>1, <2>3, <2>4, <2>5, <2>7 DEF PoolInv, Created
  <2>10. PoolBounded' /\ RoomForFill'
    BY <2>1, <2>2, <2>3, <2>4 DEF PoolInv, PoolBounded, RoomForFill, Fills
  <2>11. PoolTypes'
    BY <2>1, <2>3, <2>4 DEF PoolInv, PoolTypes
  <2> QED BY <2>8, <2>9, <2>10, <2>11 DEF PoolInv
<1>10. CASE FillEnds
  <2>1. UNCHANGED <<pool, spawned, demand, next, issued>> /\ fill' = NoFill /\ minting' = FALSE
    BY <1>10 DEF FillEnds
  <2>2. fill' \in Fills /\ fill'.pc = "idle" /\ fill'.held = 0
    BY <2>1 DEF NoFill, Fills
  <2>3. minting' \in BOOLEAN /\ (minting' <=> fill'.pc # "idle")
    BY <2>1, <2>2
  <2>4. \A i \in 1..Len(pool) : pool[i] # 0
    BY DEF PoolInv, Created
  <2>5. 0 \notin issued
    BY DEF PoolInv, Created
  <2>6. PoolTypes'
    BY <2>1, <2>2, <2>3 DEF PoolInv, PoolTypes
  <2> QED BY <2>1, <2>2, <2>3, <2>4, <2>5, <2>6
          DEF PoolInv, PoolBounded, NoncesDistinct, RoomForFill, Created
<1> QED BY <1>1, <1>2, <1>3, <1>4, <1>5, <1>6, <1>7, <1>8, <1>9, <1>10
        DEF PoolNext, ReplenishEnters, FillStep

\* The invariant holds between any two lock sections.
LEMMA PoolInvariance == PoolSpec => []PoolInv
BY PoolInitInv, PoolStep, PTL DEF PoolSpec

\* MintNonce and replenish keep the pool within poolSize whatever their
\* interleaving, for every poolSize.
THEOREM PoolStaysBounded == PoolSpec => []PoolBounded
<1>1. PoolInv => PoolBounded
  BY DEF PoolInv
<1> QED BY PoolInvariance, <1>1, PTL

\* No two challenges are given the same nonce UTXO.
THEOREM NoncesStayDistinct == PoolSpec => []NoncesDistinct
<1>1. PoolInv => NoncesDistinct
  BY DEF PoolInv
<1> QED BY PoolInvariance, <1>1, PTL

------------------------------------------------------------------------------
(* The payment gate.                                                         *)

\* The miners never hold two transactions that spend the same output.
MempoolCompatible ==
  \A t, u \in mempool : t # u => Spends[t] \cap Spends[u] = {}

\* Past VerifyProof the checks of verifyProof have been made.
Verified(h) == \/ job[h].pc \in {"submit", "consume"} /\ job[h].header.kind = "proof"
               \/ ByProof(h)

LookedUp(h) == job[h].pc = "check" \/ Verified(h)

\* What a request has established about its payment, by its program point.
Route(h) ==
  /\ job[h].pc \in {"lookup", "check", "consume"} => job[h].header.kind = "proof"
  /\ job[h].pc = "direct" => job[h].header.kind = "direct"
  /\ job[h].pc = "submit" => job[h].header.kind \in {"direct", "proof"}
  /\ job[h].pc \in {"token", "pay", "lookup", "check"} => job[h].status = "none"
  /\ job[h].pc \in {"token", "pay", "mint"} => job[h].req \in Requests
  /\ LookedUp(h) => Nonce(h) \in 1..Len(quoted) /\ Bound(h)
  /\ Verified(h) => Acceptable(h)
  /\ (job[h].pc = "consume" \/ ByProof(h)) /\ Seen(h) => job[h].header.tx \in mempool

Routes == \A h \in Handlers : Route(h)

IInv == /\ TypeOK /\ MempoolCompatible /\ Routes
        /\ UsedChallengeGone /\ UnusedChallengeKept

\* At first no challenge is issued and no request is served.
LEMMA InitIInv == Init => IInv
<1> SUFFICES ASSUME Init PROVE IInv
  OBVIOUS
<1> USE GateAssumption
<1>1. Idle \in Jobs
  BY DEF Idle, Jobs, Labels, Done, Tokens, Statuses, Ways
<1>2. job = [h \in Handlers |-> Idle] /\ job \in [Handlers -> Jobs]
  BY <1>1 DEF Init
<1>3. /\ clock \in Nat /\ cleaners \in Nat /\ mempool = {} /\ pending = {} /\ quoted = <<>>
      /\ mon \in [Topics -> Monetizations \cup {NoMon}] /\ quoted \in Seq(Challenges)
      /\ Len(quoted) = 0
  BY DEF Init
<1>4. \A h \in Handlers : job[h].pc = "idle"
  BY <1>2 DEF Idle
<1>5. TypeOK /\ MempoolCompatible
  BY <1>2, <1>3 DEF TypeOK, MempoolCompatible
<1>6. Routes
  BY <1>4 DEF Routes, Route, LookedUp, Verified, ByProof
<1>7. UsedChallengeGone /\ UnusedChallengeKept
  BY <1>3, <1>4 DEF UsedChallengeGone, UnusedChallengeKept, ByProof
<1> QED BY <1>5, <1>6, <1>7 DEF IInv

\* What the moves of a request change.
LEMMA GotoFacts ==
  ASSUME job \in [Handlers -> Jobs], NEW h \in Handlers, NEW label \in Labels,
         Goto(h, label)
  PROVE  /\ job' \in [Handlers -> Jobs]
         /\ \A k \in Handlers : k # h => job'[k] = job[k]
         /\ job'[h].pc = label /\ job'[h].header = job[h].header
         /\ job'[h].req = job[h].req /\ job'[h].how = job[h].how
         /\ job'[h].status = job[h].status
BY DEF Goto, Jobs

\* What serving a request changes.
LEMMA ServeFacts ==
  ASSUME job \in [Handlers -> Jobs], NEW h \in Handlers, NEW by \in Ways, Serve(h, by)
  PROVE  /\ job' \in [Handlers -> Jobs]
         /\ \A k \in Handlers : k # h => job'[k] = job[k]
         /\ job'[h].pc = "served" /\ job'[h].header = job[h].header
         /\ job'[h].req = job[h].req /\ job'[h].how = by
         /\ job'[h].status = job[h].status
<1>1. job' = [job EXCEPT ![h] = [job[h] EXCEPT !.pc = "served", !.how = by]]
  BY DEF Serve
<1>2. job[h] \in Jobs /\ "served" \in Labels
  BY DEF Labels, Done
<1> DEFINE s == [job[h] EXCEPT !.pc = "served", !.how = by]
<1>3. /\ s \in Jobs /\ s.pc = "served" /\ s.header = job[h].header
      /\ s.req = job[h].req /\ s.how = by /\ s.status = job[h].status
  BY <1>2 DEF Jobs
<1> HIDE DEF s
<1> QED BY <1>1, <1>3 DEF s

\* A request that does not move keeps what it has established while the list of
\* challenges and the mempool grow.
LEMMA RouteKept ==
  ASSUME NEW k \in Handlers, Route(k), job'[k] = job[k], mempool \subseteq mempool',
         Len(quoted) \in Nat, Len(quoted') \in Nat, Len(quoted) <= Len(quoted'),
         \A i \in 1..Len(quoted) : quoted'[i] = quoted[i]
  PROVE  Route(k)'
<1>1. /\ (LookedUp(k)' <=> LookedUp(k)) /\ (Verified(k)' <=> Verified(k))
      /\ (ByProof(k)' <=> ByProof(k)) /\ (Seen(k)' <=> Seen(k)) /\ Nonce(k)' = Nonce(k)
  BY DEF LookedUp, Verified, ByProof, Seen, Nonce
<1>2. Verified(k) => LookedUp(k)
  BY DEF LookedUp
<1>3. LookedUp(k) => /\ Nonce(k) \in 1..Len(quoted) /\ Bound(k)
                     /\ quoted'[Nonce(k)] = quoted[Nonce(k)]
  BY DEF Route
<1>4. LookedUp(k) => Nonce(k)' \in 1..Len(quoted') /\ Bound(k)'
  BY <1>1, <1>3 DEF Bound
<1>5. Verified(k) => Acceptable(k)'
  BY <1>1, <1>2, <1>3 DEF Route, Acceptable, NonceSpent, Nonce, PaysAll
<1> QED BY <1>1, <1>4, <1>5 DEF Route

\* A step of one request that neither serves a proof nor touches the challenges.
LEMMA QuietMove ==
  ASSUME IInv, NEW h \in Handlers, job' \in [Handlers -> Jobs],
         \A k \in Handlers : k # h => job'[k] = job[k],
         ~ByProof(h), ~ByProof(h)', Route(h)',
         UNCHANGED <<clock, mon, quoted, pending, cleaners>>,
         mempool \subseteq mempool', mempool' \subseteq Txs, MempoolCompatible'
  PROVE  IInv'
<1>1. TypeOK'
  BY DEF IInv, TypeOK
<1>2. Len(quoted) \in Nat
  BY DEF IInv, TypeOK
<1>3. \A k \in Handlers : k # h => Route(k)'
  BY <1>2, RouteKept DEF IInv, Routes
<1>4. \A k \in Handlers : (ByProof(k)' <=> ByProof(k)) /\ (ByProof(k) => Nonce(k)' = Nonce(k))
  BY DEF ByProof, Nonce
<1>5. UsedChallengeGone'
  BY <1>4 DEF IInv, UsedChallengeGone
<1>6. UnusedChallengeKept'
  BY <1>4 DEF IInv, UnusedChallengeKept
<1> QED BY <1>1, <1>3, <1>5, <1>6 DEF IInv, Routes

\* A request that has been answered, and not for a proof, has nothing to show.
LEMMA AnsweredRoute ==
  ASSUME NEW h \in Handlers,
         \/ job'[h].pc \in {"refused", "challenged"}
         \/ job'[h].pc = "served" /\ job'[h].how # "proof"
  PROVE  Route(h)' /\ ~ByProof(h)'
BY DEF Route, LookedUp, Verified, ByProof

\* resolvePayees returns payees.
LEMMA PayeesTyped ==
  ASSUME TypeOK, NEW req \in Requests
  PROVE  resolvePayees(req) \subseteq Payees
<1> USE GateAssumption
<1>1. priceForPath(Path[req]) \in Nat
  BY DEF priceForPath
<1>2. NodePayee(req) \subseteq Payees
  BY <1>1 DEF NodePayee, Payees, Scripts
<1>3. Resolve(Topic[req]) \in Monetizations \cup {NoMon}
  BY DEF Resolve, TypeOK
<1>4. ASSUME NEW m \in Monetizations \cup {NoMon} PROVE AppPayee(m) \subseteq Payees
  <2>1. m.price \in Nat /\ m.script \in Scripts
    BY DEF NoMon, Scripts
  <2> QED BY <2>1 DEF AppPayee, Payees
<1> DEFINE m == Resolve(Topic[req])
<1>5. resolvePayees(req) \in {NodePayee(req), AppPayee(m), NodePayee(req) \cup AppPayee(m)}
  BY DEF resolvePayees
<1> QED BY <1>2, <1>3, <1>4, <1>5

\* A new request has established nothing.
LEMMA ArriveKeeps ==
  ASSUME IInv, NEW h \in Handlers, NEW req \in Requests, NEW cred \in Credentials,
         NEW header \in PaymentHeaders, Arrive(h, req, cred, header)
  PROVE  IInv'
<1> USE GateAssumption
<1> DEFINE label == IF AllowTokenGating /\ req \notin PostRequests THEN "token" ELSE "pay"
           new == [Idle EXCEPT !.pc = label, !.req = req, !.cred = cred, !.header = header]
<1>1. Idle \in Jobs /\ label \in Labels /\ cred \in Tokens
  BY DEF Idle, Jobs, Labels, Done, Tokens, Statuses, Ways
<1>2. /\ new \in Jobs /\ new.pc \in {"token", "pay"} /\ new.req \in Requests
      /\ new.status = "none"
  <2>1. Idle.status = "none"
    BY DEF Idle
  <2> HIDE DEF label
  <2>2. new \in Jobs /\ new.pc = label /\ new.req = req /\ new.status = Idle.status
    BY <1>1 DEF Jobs
  <2> QED BY <2>1, <2>2 DEF label
<1>3. job' = [job EXCEPT ![h] = new] /\ job[h].pc = "idle"
  BY DEF Arrive
<1> HIDE DEF new
<1>4. /\ job' \in [Handlers -> Jobs] /\ job'[h] = new
      /\ \A k \in Handlers : k # h => job'[k] = job[k]
  BY <1>2, <1>3 DEF IInv, TypeOK
<1>5. Route(h)' /\ ~ByProof(h) /\ ~ByProof(h)'
  BY <1>2, <1>3, <1>4 DEF Route, LookedUp, Verified, ByProof
<1>6. /\ UNCHANGED <<clock, mon, quoted, pending, cleaners, mempool>>
      /\ mempool \subseteq Txs /\ MempoolCompatible'
  BY DEF Arrive, IInv, TypeOK, MempoolCompatible
<1> QED BY <1>4, <1>5, <1>6, QuietMove

\* A request that moves on without touching the challenges.
LEMMA QuietGoto ==
  ASSUME IInv, NEW h \in Handlers, NEW label \in Labels, Goto(h, label),
         job[h].pc # "served", label # "served", Route(h)',
         UNCHANGED <<clock, mon, quoted, pending, cleaners, mempool>>
  PROVE  IInv'
<1>1. job \in [Handlers -> Jobs] /\ mempool \subseteq Txs /\ MempoolCompatible'
  BY DEF IInv, TypeOK, MempoolCompatible
<1>2. /\ job' \in [Handlers -> Jobs] /\ job'[h].pc = label
      /\ \A k \in Handlers : k # h => job'[k] = job[k]
  BY <1>1, GotoFacts
<1>3. ~ByProof(h) /\ ~ByProof(h)'
  BY <1>2 DEF ByProof
<1> QED BY <1>1, <1>2, <1>3, QuietMove

\* A request that is refused.
LEMMA QuietRefuse ==
  ASSUME IInv, NEW h \in Handlers, Refuse(h), job[h].pc # "served",
         UNCHANGED <<clock, mon, quoted, pending, cleaners, mempool>>
  PROVE  IInv'
<1>1. Goto(h, "refused") /\ "refused" \in Labels /\ job \in [Handlers -> Jobs]
  BY DEF Refuse, Labels, Done, IInv, TypeOK
<1>2. job'[h].pc = "refused"
  BY <1>1, GotoFacts
<1> QED BY <1>1, <1>2, AnsweredRoute, QuietGoto

\* A request that is served for something else than a proof.
LEMMA QuietServe ==
  ASSUME IInv, NEW h \in Handlers, NEW by \in Ways, Serve(h, by), by # "proof",
         job[h].pc # "served", UNCHANGED <<clock, mon, quoted, pending, cleaners, mempool>>
  PROVE  IInv'
<1>1. job \in [Handlers -> Jobs] /\ mempool \subseteq Txs /\ MempoolCompatible'
  BY DEF IInv, TypeOK, MempoolCompatible
<1>2. /\ job' \in [Handlers -> Jobs] /\ job'[h].pc = "served" /\ job'[h].how = by
      /\ \A k \in Handlers : k # h => job'[k] = job[k]
  BY <1>1, ServeFacts
<1>3. ~ByProof(h)
  BY DEF ByProof
<1> QED BY <1>1, <1>2, <1>3, AnsweredRoute, QuietMove

\* The token gate keeps the invariant.
LEMMA TokenGateKeeps ==
  ASSUME IInv, NEW h \in Handlers, TokenGate(h)
  PROVE  IInv'
<1>1. /\ job[h].pc = "token" /\ UNCHANGED <<clock, mon, quoted, pending, cleaners, mempool>>
      /\ Refuse(h) \/ Goto(h, "pay")
  BY DEF TokenGate
<1>2. CASE Refuse(h)
  BY <1>1, <1>2, QuietRefuse
<1>3. CASE Goto(h, "pay")
  <2>1. /\ job \in [Handlers -> Jobs] /\ "pay" \in Labels
        /\ job[h].req \in Requests /\ job[h].status = "none"
    BY <1>1 DEF IInv, TypeOK, Labels, Routes, Route
  <2>2. job'[h].pc = "pay" /\ job'[h].req = job[h].req /\ job'[h].status = job[h].status
    BY <1>3, <2>1, GotoFacts
  <2>3. Route(h)'
    BY <2>1, <2>2 DEF Route, LookedUp, Verified, ByProof
  <2> QED BY <1>1, <1>3, <2>1, <2>3, QuietGoto
<1> QED BY <1>1, <1>2, <1>3

\* Choosing between free passage, challenge and verification keeps it.
LEMMA MiddlewareKeeps ==
  ASSUME IInv, NEW h \in Handlers, Middleware(h)
  PROVE  IInv'
<1> USE GateAssumption
<1> DEFINE label == CASE job[h].header.kind = "none"   -> "mint"
                      [] job[h].header.kind = "direct" -> "direct"
                      [] job[h].header.kind = "proof"  -> "lookup"
           payees == resolvePayees(job[h].req)
           new == [job[h] EXCEPT !.pc = label, !.payees = payees]
<1>1. /\ job[h].pc = "pay" /\ UNCHANGED <<clock, mon, quoted, pending, cleaners, mempool>>
      /\ Serve(h, "token") \/ Serve(h, "free") \/ job' = [job EXCEPT ![h] = new]
  BY DEF Middleware
<1>2. CASE Serve(h, "token") \/ Serve(h, "free")
  BY <1>1, <1>2, QuietServe DEF Ways
<1>3. CASE job' = [job EXCEPT ![h] = new]
  <2>1. /\ job \in [Handlers -> Jobs] /\ job[h] \in Jobs /\ job[h].req \in Requests
        /\ job[h].header \in PaymentHeaders /\ payees \subseteq Payees /\ job[h].status = "none"
    BY <1>1, PayeesTyped DEF IInv, TypeOK, Routes, Route, Jobs
  <2>2. /\ label \in Labels /\ label \in {"mint", "direct", "lookup"}
        /\ label = "direct" => job[h].header.kind = "direct"
        /\ label = "lookup" => job[h].header.kind = "proof"
    BY <2>1 DEF Labels
  <2> HIDE DEF label, payees
  <2>3. /\ new \in Jobs /\ new.pc = label /\ new.header = job[h].header
        /\ new.req = job[h].req /\ new.status = job[h].status
    BY <2>1, <2>2 DEF Jobs
  <2> HIDE DEF new
  <2>4. /\ job' \in [Handlers -> Jobs] /\ job'[h] = new
        /\ \A k \in Handlers : k # h => job'[k] = job[k]
    BY <1>3, <2>1, <2>3
  <2>5. Route(h)' /\ ~ByProof(h) /\ ~ByProof(h)'
    BY <1>1, <2>1, <2>2, <2>3, <2>4 DEF Route, LookedUp, Verified, ByProof
  <2>6. mempool \subseteq Txs /\ MempoolCompatible'
    BY <1>1 DEF IInv, TypeOK, MempoolCompatible
  <2> QED BY <1>1, <2>4, <2>5, <2>6, QuietMove
<1> QED BY <1>1, <1>2, <1>3

\* A proof that finds its challenge is bound to it.
LEMMA LookUpKeeps ==
  ASSUME IInv, NEW h \in Handlers, LookUp(h)
  PROVE  IInv'
<1>1. /\ job[h].pc = "lookup" /\ UNCHANGED <<clock, mon, quoted, pending, cleaners, mempool>>
      /\ Refuse(h) \/ (Goto(h, "check") /\ Nonce(h) \in pending /\ Bound(h))
  BY DEF LookUp
<1>2. CASE Refuse(h)
  BY <1>1, <1>2, QuietRefuse
<1>3. CASE Goto(h, "check") /\ Nonce(h) \in pending /\ Bound(h)
  <2>1. /\ job \in [Handlers -> Jobs] /\ "check" \in Labels
        /\ job[h].header.kind = "proof" /\ Nonce(h) \in 1..Len(quoted)
        /\ job[h].status = "none"
    BY <1>1, <1>3 DEF IInv, TypeOK, Labels, Routes, Route
  <2>2. /\ job'[h].pc = "check" /\ job'[h].header = job[h].header
        /\ job'[h].req = job[h].req /\ job'[h].status = job[h].status
    BY <1>3, <2>1, GotoFacts
  <2>3. Route(h)'
    BY <1>1, <1>3, <2>1, <2>2 DEF Route, LookedUp, Verified, ByProof, Nonce, Bound
  <2> QED BY <1>1, <1>3, <2>1, <2>3, QuietGoto
<1> QED BY <1>1, <1>2, <1>3

\* A proof that passes the checks is acceptable for its challenge.
LEMMA VerifyProofKeeps ==
  ASSUME IInv, NEW h \in Handlers, VerifyProof(h)
  PROVE  IInv'
<1> DEFINE label == IF RequireMempool /\ HasARC THEN "submit" ELSE "consume"
<1>1. /\ job[h].pc = "check" /\ UNCHANGED <<clock, mon, quoted, pending, cleaners, mempool>>
      /\ Refuse(h) \/ (Goto(h, label) /\ Acceptable(h))
  BY DEF VerifyProof
<1>2. CASE Refuse(h)
  BY <1>1, <1>2, QuietRefuse
<1>3. CASE Goto(h, label) /\ Acceptable(h)
  <2>1. label \in {"submit", "consume"} /\ label \in Labels
    BY DEF Labels
  <2> HIDE DEF label
  <2>2. /\ job \in [Handlers -> Jobs] /\ job[h].header.kind = "proof"
        /\ Nonce(h) \in 1..Len(quoted) /\ Bound(h) /\ job[h].status = "none"
    BY <1>1 DEF IInv, TypeOK, Routes, Route, LookedUp
  <2>3. /\ job'[h].pc = label /\ job'[h].header = job[h].header /\ job'[h].req = job[h].req
        /\ job'[h].status = job[h].status
    BY <1>3, <2>1, <2>2, GotoFacts
  <2>4. Nonce(h)' = Nonce(h) /\ Bound(h)' /\ Acceptable(h)'
    <3>1. Nonce(h)' = Nonce(h) /\ Bound(h)'
      BY <1>1, <2>2, <2>3 DEF Nonce, Bound
    <3> QED BY <1>1, <1>3, <2>3, <3>1 DEF Acceptable, NonceSpent, Nonce, PaysAll
  <2>5. ~Seen(h)' /\ ~ByProof(h)'
    BY <2>1, <2>2, <2>3 DEF Seen, ByProof
  <2>6. Route(h)'
    BY <1>1, <2>1, <2>2, <2>3, <2>4, <2>5 DEF Route, LookedUp, Verified
  <2> QED BY <1>1, <1>3, <2>1, <2>6, QuietGoto
<1> QED BY <1>1, <1>2, <1>3

\* A direct payment does not touch the challenges.
LEMMA VerifyDirectKeeps ==
  ASSUME IInv, NEW h \in Handlers, VerifyDirect(h)
  PROVE  IInv'
<1>1. /\ job[h].pc = "direct" /\ UNCHANGED <<clock, mon, quoted, pending, cleaners, mempool>>
      /\ Refuse(h) \/ Goto(h, "submit") \/ Serve(h, "direct")
  BY DEF VerifyDirect
<1>2. CASE Refuse(h)
  BY <1>1, <1>2, QuietRefuse
<1>3. CASE Serve(h, "direct")
  BY <1>1, <1>3, QuietServe DEF Ways
<1>4. CASE Goto(h, "submit")
  <2>1. /\ job \in [Handlers -> Jobs] /\ "submit" \in Labels /\ job[h].header.kind = "direct"
    BY <1>1 DEF IInv, TypeOK, Labels, Routes, Route
  <2>2. job'[h].pc = "submit" /\ job'[h].header = job[h].header
    BY <1>4, <2>1, GotoFacts
  <2>3. Route(h)'
    BY <2>1, <2>2 DEF Route, LookedUp, Verified, ByProof
  <2> QED BY <1>1, <1>4, <2>1, <2>3, QuietGoto
<1> QED BY <1>1, <1>2, <1>3, <1>4

\* Whatever ARC answers, the miners' set stays free of conflicts, and a
\* transaction reported as seen is in it.
LEMMA ARCFacts ==
  ASSUME IInv, NEW tx \in Txs, NEW a \in ARCAnswers(tx)
  PROVE  /\ a.status \in Statuses /\ mempool \subseteq a.pool /\ a.pool \subseteq Txs
         /\ \A t, u \in a.pool : t # u => Spends[t] \cap Spends[u] = {}
         /\ a.status \in {"SEEN_ON_NETWORK", "MINED"} => tx \in a.pool
<1>1. mempool \subseteq Txs /\ MempoolCompatible
  BY DEF IInv, TypeOK
<1>2. \/ Minable(tx) /\ a \in {[status |-> "SEEN_ON_NETWORK", pool |-> mempool \cup {tx}],
                               [status |-> "error", pool |-> mempool \cup {tx}]}
      \/ tx \in mempool /\ a = [status |-> "MINED", pool |-> mempool]
      \/ a = [status |-> "SEEN_IN_ORPHAN_MEMPOOL", pool |-> mempool]
      \/ \E s \in {"REJECTED", "error"} : a = [status |-> s, pool |-> mempool]
  BY DEF ARCAnswers
<1>3. CASE Minable(tx) /\ a.pool = mempool \cup {tx} /\ a.status \in {"SEEN_ON_NETWORK", "error"}
  BY <1>1, <1>3 DEF Minable, MempoolCompatible, Statuses, AcceptedStatuses
<1>4. CASE /\ a.pool = mempool
           /\ a.status \in {"MINED", "SEEN_IN_ORPHAN_MEMPOOL", "REJECTED", "error"}
           /\ a.status = "MINED" => tx \in mempool
  BY <1>1, <1>4 DEF MempoolCompatible, Statuses, AcceptedStatuses
<1> QED BY <1>2, <1>3, <1>4

\* The submission to ARC, with whatever answer, keeps the invariant.
LEMMA SubmitKeeps ==
  ASSUME IInv, NEW h \in Handlers, Submit(h)
  PROVE  IInv'
<1> USE GateAssumption
<1>1. PICK a \in ARCAnswers(job[h].header.tx) :
        /\ mempool' = a.pool
        /\ job' = [job EXCEPT
             ![h].status = a.status,
             ![h].how = IF a.status \in AcceptedStatuses /\ job[h].header.kind = "direct"
                        THEN "direct" ELSE @,
             ![h].pc = IF a.status \notin AcceptedStatuses THEN "refused"
                       ELSE IF job[h].header.kind = "direct" THEN "served" ELSE "consume"]
  BY DEF Submit
<1>2. job[h].pc = "submit" /\ UNCHANGED <<clock, mon, quoted, pending, cleaners>>
  BY DEF Submit
<1>3. /\ job \in [Handlers -> Jobs] /\ job[h] \in Jobs
      /\ job[h].header \in PaymentHeaders /\ job[h].header.kind \in {"direct", "proof"}
      /\ job[h].header.tx \in Txs
  BY <1>2 DEF IInv, TypeOK, Routes, Route, Jobs
<1>4. /\ a.status \in Statuses /\ mempool \subseteq mempool' /\ mempool' \subseteq Txs
      /\ MempoolCompatible'
      /\ a.status \in {"SEEN_ON_NETWORK", "MINED"} => job[h].header.tx \in mempool'
  BY <1>1, <1>3, ARCFacts DEF MempoolCompatible
<1> DEFINE way == IF a.status \in AcceptedStatuses /\ job[h].header.kind = "direct"
                  THEN "direct" ELSE job[h].how
           label == IF a.status \notin AcceptedStatuses THEN "refused"
                    ELSE IF job[h].header.kind = "direct" THEN "served" ELSE "consume"
           new == [job[h] EXCEPT !.status = a.status, !.how = way, !.pc = label]
<1>5. job' = [job EXCEPT ![h] = new]
  BY <1>1, <1>3 DEF Jobs
<1>6. /\ way \in Ways /\ label \in Labels /\ label \in {"refused", "served", "consume"}
      /\ label = "served" => way = "direct"
      /\ label = "consume" => job[h].header.kind = "proof"
  BY <1>3 DEF Ways, Labels, Done, Jobs
<1> HIDE DEF way, label
<1>7. /\ new \in Jobs /\ new.pc = label /\ new.how = way /\ new.status = a.status
      /\ new.header = job[h].header /\ new.req = job[h].req
  BY <1>3, <1>4, <1>6 DEF Jobs
<1> HIDE DEF new
<1>8. /\ job' \in [Handlers -> Jobs] /\ job'[h] = new
      /\ \A k \in Handlers : k # h => job'[k] = job[k]
  BY <1>3, <1>5, <1>7
<1>9. ~ByProof(h) /\ ~ByProof(h)'
  BY <1>2, <1>6, <1>7, <1>8 DEF ByProof
<1>10. Route(h)'
  <2>1. CASE label # "consume"
    BY <1>6, <1>7, <1>8, <2>1, AnsweredRoute
  <2>2. CASE label = "consume"
    <3>1. Verified(h) /\ LookedUp(h)
      BY <1>2, <1>6, <2>2 DEF Verified, LookedUp
    <3>2. Nonce(h) \in 1..Len(quoted) /\ Bound(h) /\ Acceptable(h)
      BY <3>1 DEF IInv, Routes, Route
    <3>3. Nonce(h)' = Nonce(h) /\ Bound(h)' /\ Acceptable(h)'
      BY <1>2, <1>7, <1>8, <3>2 DEF Nonce, Bound, Acceptable, NonceSpent, PaysAll
    <3>4. Seen(h)' => job'[h].header.tx \in mempool'
      BY <1>4, <1>7, <1>8 DEF Seen
    <3> QED BY <1>2, <1>6, <1>7, <1>8, <1>9, <2>2, <3>2, <3>3, <3>4 DEF Route, LookedUp, Verified
  <2> QED BY <2>1, <2>2
<1> QED BY <1>2, <1>4, <1>8, <1>9, <1>10, QuietMove

\* The expiry of a challenge is a time.
LEMMA ExpiryTyped ==
  ASSUME IInv, NEW n \in 1..Len(quoted)
  PROVE  quoted[n].expires \in Nat
<1>1. quoted[n] \in Challenges
  BY DEF IInv, TypeOK
<1> QED BY <1>1 DEF Challenges

\* A new challenge leaves those issued before as they were.
LEMMA IssueKeeps ==
  ASSUME IInv, NEW h \in Handlers, IssueChallenge(h)
  PROVE  IInv'
<1> USE GateAssumption
<1> DEFINE c == [req |-> job[h].req, payees |-> job[h].payees, expires |-> clock + ChallengeTTL]
<1>1. /\ job[h].pc = "mint" /\ quoted' = Append(quoted, c)
      /\ pending' = pending \cup {Len(quoted) + 1} /\ cleaners' = cleaners + 1
      /\ Goto(h, "challenged") /\ UNCHANGED <<clock, mon, mempool>>
  BY DEF IssueChallenge
<1>2. /\ job \in [Handlers -> Jobs] /\ job[h] \in Jobs /\ "challenged" \in Labels
      /\ quoted \in Seq(Challenges) /\ clock \in Nat /\ pending \subseteq 1..Len(quoted)
  BY DEF IInv, TypeOK, Labels, Done
<1>3. c \in Challenges
  <2>1. job[h].req \in Requests
    BY <1>1 DEF IInv, Routes, Route
  <2>2. job[h].payees \in SUBSET Payees
    BY <1>2 DEF Jobs
  <2>3. clock + ChallengeTTL \in Nat
    BY <1>2
  <2> QED BY <2>1, <2>2, <2>3 DEF Challenges
<1> HIDE DEF c
<1>4. /\ quoted' \in Seq(Challenges) /\ Len(quoted') = Len(quoted) + 1 /\ Len(quoted) \in Nat
      /\ \A i \in 1..Len(quoted) : quoted'[i] = quoted[i]
  BY <1>1, <1>2, <1>3
<1>5. /\ job' \in [Handlers -> Jobs] /\ job'[h].pc = "challenged"
      /\ \A k \in Handlers : k # h => job'[k] = job[k]
  BY <1>1, <1>2, GotoFacts
<1>6. TypeOK' /\ MempoolCompatible'
  <2>1. \A n \in pending' : n \in 1..Len(quoted) \/ n = Len(quoted) + 1
    BY <1>1, <1>2
  <2>2. pending' \subseteq 1..Len(quoted')
    BY <1>4, <2>1
  <2> QED BY <1>1, <1>4, <1>5, <2>2 DEF IInv, TypeOK, MempoolCompatible
<1>7. Routes'
  <2>1. Route(h)'
    BY <1>5, AnsweredRoute
  <2>2. \A k \in Handlers : k # h => Route(k)'
    BY <1>1, <1>4, <1>5, RouteKept DEF IInv, Routes
  <2> QED BY <2>1, <2>2 DEF Routes
<1>8. \A k \in Handlers : (ByProof(k)' <=> ByProof(k)) /\ (ByProof(k) => Nonce(k)' = Nonce(k))
  BY <1>1, <1>5 DEF ByProof, Nonce
<1>9. UsedChallengeGone'
  <2>1. \A k \in Handlers : ByProof(k) => Nonce(k) \in 1..Len(quoted)
    BY DEF IInv, Routes, Route, LookedUp, Verified
  <2> QED BY <1>1, <1>4, <1>8, <2>1 DEF IInv, UsedChallengeGone
<1>10. UnusedChallengeKept'
  <2> SUFFICES ASSUME NEW n \in 1..Len(quoted')
               PROVE  \/ n \in pending' \/ clock' > quoted'[n].expires
                      \/ \E k \in Handlers : ByProof(k)' /\ Nonce(k)' = n
    BY DEF UnusedChallengeKept
  <2>1. CASE n = Len(quoted) + 1
    BY <1>1, <2>1
  <2>2. CASE n # Len(quoted) + 1
    <3>1. n \in 1..Len(quoted) /\ quoted'[n] = quoted[n]
      BY <1>4, <2>2
    <3> QED BY <1>1, <1>8, <3>1 DEF IInv, UnusedChallengeKept
  <2> QED BY <2>1, <2>2
<1> QED BY <1>6, <1>7, <1>9, <1>10 DEF IInv

\* Steps that only take challenges out of the map: an expired one, or the one
\* that is being served.
LEMMA RemovalKeeps ==
  ASSUME IInv, job' \in [Handlers -> Jobs], Routes', cleaners' \in Nat,
         pending' \subseteq pending, UNCHANGED <<clock, mon, quoted, mempool>>,
         \A k \in Handlers : Nonce(k)' = Nonce(k) /\ (ByProof(k) => ByProof(k)'),
         \A k \in Handlers : ByProof(k)' => ByProof(k) \/ Nonce(k) \notin pending',
         \A n \in pending : \/ n \in pending' \/ clock > quoted[n].expires
                            \/ \E k \in Handlers : ByProof(k)' /\ Nonce(k) = n
  PROVE  IInv'
<1>1. TypeOK' /\ MempoolCompatible'
  BY DEF IInv, TypeOK, MempoolCompatible
<1>2. UsedChallengeGone'
  BY DEF IInv, UsedChallengeGone
<1>3. UnusedChallengeKept'
  BY DEF IInv, UnusedChallengeKept
<1> QED BY <1>1, <1>2, <1>3 DEF IInv

\* A proof of an expired challenge deletes it.
LEMMA ExpiredKeeps ==
  ASSUME IInv, NEW h \in Handlers, Expired(h)
  PROVE  IInv'
<1>1. /\ job[h].pc = "check" /\ clock > quoted[Nonce(h)].expires
      /\ pending' = pending \ {Nonce(h)} /\ Goto(h, "refused")
      /\ UNCHANGED <<clock, mon, quoted, cleaners, mempool>>
  BY DEF Expired, Refuse
<1>2. job \in [Handlers -> Jobs] /\ "refused" \in Labels /\ Len(quoted) \in Nat /\ cleaners \in Nat
  BY DEF IInv, TypeOK, Labels, Done
<1>3. /\ job' \in [Handlers -> Jobs] /\ job'[h].pc = "refused" /\ job'[h].header = job[h].header
      /\ \A k \in Handlers : k # h => job'[k] = job[k]
  BY <1>1, <1>2, GotoFacts
<1>4. Routes'
  BY <1>1, <1>2, <1>3, AnsweredRoute, RouteKept DEF IInv, Routes
<1>5. \A k \in Handlers : Nonce(k)' = Nonce(k) /\ (ByProof(k)' <=> ByProof(k))
  BY <1>1, <1>3 DEF ByProof, Nonce
<1> QED BY <1>1, <1>2, <1>3, <1>4, <1>5, RemovalKeeps

\* Serving a proof deletes its challenge.
LEMMA ConsumeKeeps ==
  ASSUME IInv, NEW h \in Handlers, Consume(h)
  PROVE  IInv'
<1>1. /\ job[h].pc = "consume" /\ pending' = pending \ {Nonce(h)} /\ Serve(h, "proof")
      /\ UNCHANGED <<clock, mon, quoted, cleaners, mempool>>
  BY DEF Consume
<1>2. job \in [Handlers -> Jobs] /\ Len(quoted) \in Nat /\ cleaners \in Nat
  BY DEF IInv, TypeOK
<1>3. /\ job' \in [Handlers -> Jobs] /\ job'[h].pc = "served" /\ job'[h].how = "proof"
      /\ job'[h].header = job[h].header /\ job'[h].req = job[h].req
      /\ job'[h].status = job[h].status
      /\ \A k \in Handlers : k # h => job'[k] = job[k]
  BY <1>1, <1>2, ServeFacts DEF Ways
<1>4. Route(h)'
  <2>1. /\ Verified(h) /\ LookedUp(h) /\ job[h].header.kind = "proof"
        /\ Nonce(h) \in 1..Len(quoted) /\ Bound(h) /\ Acceptable(h)
        /\ Seen(h) => job[h].header.tx \in mempool
    BY <1>1 DEF IInv, Routes, Route, Verified, LookedUp
  <2>2. Nonce(h)' = Nonce(h) /\ Bound(h)' /\ (Seen(h)' <=> Seen(h))
    BY <1>1, <1>3, <2>1 DEF Nonce, Bound, Seen
  <2>3. Acceptable(h)'
    <3>1. NonceSpent(h)'
      BY <1>3, <2>1, <2>2 DEF Acceptable, NonceSpent
    <3>2. quoted'[job'[h].header.nonce] = quoted[job[h].header.nonce]
      BY <1>1, <1>3
    <3> QED BY <1>3, <2>1, <3>1, <3>2 DEF Acceptable, PaysAll
  <2> QED BY <1>1, <1>3, <2>1, <2>2, <2>3 DEF Route
<1>5. Routes'
  BY <1>1, <1>2, <1>3, <1>4, RouteKept DEF IInv, Routes
<1>6. /\ ByProof(h)' /\ ~ByProof(h)
      /\ \A k \in Handlers : Nonce(k)' = Nonce(k)
      /\ \A k \in Handlers : k # h => (ByProof(k)' <=> ByProof(k))
  BY <1>1, <1>3 DEF ByProof, Nonce
<1> QED BY <1>1, <1>2, <1>3, <1>5, <1>6, RemovalKeeps

\* cleanExpired deletes expired challenges only.
LEMMA CleanExpiredKeeps ==
  ASSUME IInv, CleanExpired
  PROVE  IInv'
<1>1. PICK now \in 0..clock : pending' = {n \in pending : ~(now > quoted[n].expires)}
  BY DEF CleanExpired
<1>2. /\ cleaners > 0 /\ cleaners' = cleaners - 1 /\ UNCHANGED <<clock, mon, quoted, mempool, job>>
  BY DEF CleanExpired
<1>3. /\ job \in [Handlers -> Jobs] /\ cleaners \in Nat /\ clock \in Nat /\ Len(quoted) \in Nat
      /\ \A n \in pending : quoted[n].expires \in Nat
  <2>1. /\ job \in [Handlers -> Jobs] /\ cleaners \in Nat /\ clock \in Nat
        /\ Len(quoted) \in Nat /\ pending \subseteq 1..Len(quoted)
    BY DEF IInv, TypeOK
  <2> QED BY <2>1, ExpiryTyped
<1>4. Routes'
  BY <1>2, <1>3, RouteKept DEF IInv, Routes
<1>5. \A k \in Handlers : Nonce(k)' = Nonce(k) /\ (ByProof(k)' <=> ByProof(k))
  BY <1>2 DEF ByProof, Nonce
<1>6. \A n \in pending : n \in pending' \/ clock > quoted[n].expires
  BY <1>1, <1>3
<1>7. cleaners' \in Nat /\ pending' \subseteq pending /\ job' \in [Handlers -> Jobs]
  BY <1>1, <1>2, <1>3
<1> QED BY <1>2, <1>4, <1>5, <1>6, <1>7, RemovalKeeps

\* New monetization, the mempool and the clock keep the invariant.
LEMMA EnvironmentKeeps ==
  ASSUME IInv, Monetize \/ Broadcast \/ Tick \/ UNCHANGED vars
  PROVE  IInv'
<1>1. UNCHANGED <<quoted, pending, cleaners, job>>
  BY DEF Monetize, Broadcast, Tick, vars
<1>2. mon' \in [Topics -> Monetizations \cup {NoMon}]
  BY DEF Monetize, Broadcast, Tick, vars, IInv, TypeOK
<1>3. clock \in Nat /\ clock' \in Nat /\ clock <= clock'
  BY DEF Monetize, Broadcast, Tick, vars, IInv, TypeOK
<1>4. mempool \subseteq mempool' /\ mempool' \subseteq Txs /\ MempoolCompatible'
  <2>1. CASE mempool' = mempool
    BY <2>1 DEF IInv, TypeOK, MempoolCompatible
  <2>2. CASE \E tx \in Txs : Minable(tx) /\ mempool' = mempool \cup {tx}
    BY <2>2 DEF IInv, TypeOK, MempoolCompatible, Minable
  <2> QED BY <2>1, <2>2 DEF Monetize, Broadcast, Tick, vars
<1>5. TypeOK' /\ Len(quoted) \in Nat
  BY <1>1, <1>2, <1>3, <1>4 DEF IInv, TypeOK
<1>6. Routes'
  BY <1>1, <1>4, <1>5, RouteKept DEF IInv, Routes
<1>7. \A k \in Handlers : Nonce(k)' = Nonce(k) /\ (ByProof(k)' <=> ByProof(k))
  BY <1>1 DEF ByProof, Nonce
<1>8. UsedChallengeGone'
  BY <1>1, <1>7 DEF IInv, UsedChallengeGone
<1>9. UnusedChallengeKept'
  <2>1. \A n \in 1..Len(quoted) : quoted[n].expires \in Nat
    BY ExpiryTyped
  <2> QED BY <1>1, <1>3, <1>7, <2>1 DEF IInv, UnusedChallengeKept
<1> QED BY <1>4, <1>5, <1>6, <1>8, <1>9 DEF IInv

\* Every step of a request or of its surroundings keeps the invariant.
LEMMA StepIInv == IInv /\ [Next]_vars => IInv'
<1> SUFFICES ASSUME IInv, [Next]_vars PROVE IInv'
  OBVIOUS
<1>1. ASSUME NEW h \in Handlers, Handle(h) PROVE IInv'
  <2>1. CASE MintFails(h)
    BY <2>1, QuietRefuse DEF MintFails
  <2> QED BY <1>1, <2>1, TokenGateKeeps, MiddlewareKeeps, IssueKeeps, LookUpKeeps, ExpiredKeeps,
             VerifyProofKeeps, VerifyDirectKeeps, SubmitKeeps, ConsumeKeeps DEF Handle
<1> QED BY <1>1, ArriveKeeps, CleanExpiredKeeps, EnvironmentKeeps DEF Next

\* The invariant holds however the requests interleave.
LEMMA Invariance == Spec => []IInv
BY InitIInv, StepIInv, PTL DEF Spec

\* Every value a request, a challenge or the resolver handles has its type.
THEOREM GateTypeCorrect == Spec => []TypeOK
<1>1. IInv => TypeOK
  BY DEF IInv
<1> QED BY Invariance, <1>1, PTL

\* verifyProof and the miners together: two responses served for one challenge,
\* by whatever race, were paid by one transaction.
THEOREM ChallengePaidByOneTx == Spec => []OneTxPerChallenge
<1>1. IInv => OneTxPerChallenge
  <2> SUFFICES ASSUME IInv, ~DevNonces, NEW h \in Handlers, NEW k \in Handlers,
                      ByProof(h), Seen(h), ByProof(k), Seen(k), Nonce(h) = Nonce(k)
               PROVE  job[h].header.tx = job[k].header.tx
    BY DEF OneTxPerChallenge
  <2>1. ASSUME NEW g \in Handlers, ByProof(g), Seen(g)
        PROVE  job[g].header.tx \in mempool /\ Nonce(g) \in Spends[job[g].header.tx]
    BY <2>1 DEF IInv, Routes, Route, Verified, Acceptable, NonceSpent
  <2> QED BY <2>1 DEF IInv, MempoolCompatible
<1> QED BY Invariance, <1>1, PTL

\* A challenge is out of pendingChallenges once a response was served for it.
THEOREM UsedChallengesStayGone == Spec => []UsedChallengeGone
<1>1. IInv => UsedChallengeGone
  BY DEF IInv
<1> QED BY Invariance, <1>1, PTL

\* A challenge is never lost to a failed proof: it is pending, served or expired.
THEOREM UnusedChallengesStay == Spec => []UnusedChallengeKept
<1>1. IInv => UnusedChallengeKept
  BY DEF IInv
<1> QED BY Invariance, <1>1, PTL

\* What is served for a proof is what was quoted, paid as quoted.
THEOREM QuotesHonoured == Spec => []QuoteHonoured
<1>1. IInv => QuoteHonoured
  BY DEF IInv, Routes, Route, LookedUp, Verified, QuoteHonoured, Bound, Acceptable, Nonce
<1> QED BY Invariance, <1>1, PTL
==============================================================================
