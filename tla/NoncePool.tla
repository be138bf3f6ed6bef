------------------------------ MODULE NoncePool ------------------------------
(***************************************************************************)
(* UTXONoncePool (internal/api/nonce_pool.go): a pool of pre-minted nonce    *)
(* UTXOs that request handlers take from and background goroutines refill.   *)
(* Minting is slow and runs without the lock; the minting flag admits one    *)
(* refiller.  A nonce is the number of the UTXO the wallet created for it.   *)
(***************************************************************************)
EXTENDS Integers, Sequences

CONSTANTS
  PoolSize,     \* poolSize, the number of ready nonces aimed for
  MaxMinted,    \* bound on the UTXOs the wallet creates
  MaxRunning    \* bound on goroutines started and on handlers minting

ASSUME PoolAssumption == /\ PoolSize \in Nat \ {0}
                         /\ MaxMinted \in Nat /\ MaxRunning \in Nat

VARIABLES
  pool,      \* UTXONoncePool.pool
  minting,   \* UTXONoncePool.minting
  fill,      \* the refiller: where it is, needed, minted, nonce in hand
  spawned,   \* "go p.replenish()" goroutines that have not started yet
  demand,    \* handlers that saw an empty pool and mint on demand
  next,      \* the next UTXO of the wallet
  issued     \* the nonces given to 402 challenges

poolVars == <<pool, minting, fill, spawned, demand, next, issued>>

NoFill == [pc |-> "idle", needed |-> 0, minted |-> 0, held |-> 0]

PoolInit == /\ pool = <<>> /\ minting = FALSE /\ fill = NoFill
            /\ spawned = 1      \* NewUTXONoncePool starts one refiller
            /\ demand = 0 /\ next = 1 /\ issued = {}

\* Mutant: the first nonce is handed out and the last one dropped.
MintFromPoolFirst ==
  /\ pool # <<>>
  /\ spawned < MaxRunning
  /\ pool' = SubSeq(pool, 1, Len(pool) - 1)
  /\ issued' = issued \cup {pool[1]}
  /\ spawned' = IF Len(pool) - 1 < PoolSize \div 4 THEN spawned + 1 ELSE spawned
  /\ UNCHANGED <<minting, fill, demand, next>>

\* MintNonce with a nonce at hand: the last one is taken, and a refiller is
\* started when fewer than a quarter remain.
MintFromPool ==
  /\ pool # <<>>
  /\ spawned < MaxRunning
  /\ pool' = SubSeq(pool, 1, Len(pool) - 1)
  /\ issued' = issued \cup {pool[Len(pool)]}
  /\ spawned' = IF Len(pool) - 1 < PoolSize \div 4 THEN spawned + 1 ELSE spawned
  /\ UNCHANGED <<minting, fill, demand, next>>

\* MintNonce with an empty pool unlocks before it asks the wallet.
MintOnDemand == /\ pool = <<>>
                /\ demand < MaxRunning
                /\ demand' = demand + 1
                /\ UNCHANGED <<pool, minting, fill, spawned, next, issued>>

DemandMinted == /\ demand > 0 /\ next <= MaxMinted /\ spawned < MaxRunning
                /\ demand' = demand - 1
                /\ issued' = issued \cup {next} /\ next' = next + 1
                /\ spawned' = spawned + 1
                /\ UNCHANGED <<pool, minting, fill>>

DemandFails == /\ demand > 0
               /\ demand' = demand - 1
               /\ UNCHANGED <<pool, minting, fill, spawned, next, issued>>

\* Mutant: a whole pool is minted whatever is left.
ReplenishStartWhole ==
  /\ spawned > 0 /\ ~minting
  /\ spawned' = spawned - 1
  /\ minting' = TRUE
  /\ fill' = [pc |-> "fill", needed |-> PoolSize, minted |-> 0, held |-> 0]
  /\ UNCHANGED <<pool, demand, next, issued>>

\* replenish: the flag and the number needed are set in one critical section.
ReplenishStart ==
  /\ spawned > 0 /\ ~minting
  /\ spawned' = spawned - 1
  /\ minting' = TRUE
  /\ fill' = [pc |-> "fill", needed |-> PoolSize - Len(pool), minted |-> 0, held |-> 0]
  /\ UNCHANGED <<pool, demand, next, issued>>

ReplenishSkips == /\ spawned > 0 /\ minting
                  /\ spawned' = spawned - 1
                  /\ UNCHANGED <<pool, minting, fill, demand, next, issued>>

FillMints == /\ fill.pc = "fill" /\ fill.minted < fill.needed /\ next <= MaxMinted
             /\ fill' = [fill EXCEPT !.pc = "append", !.held = next]
             /\ next' = next + 1
             /\ UNCHANGED <<pool, minting, spawned, demand, issued>>

FillAppends == /\ fill.pc = "append"
               /\ pool' = Append(pool, fill.held)
               /\ fill' = [fill EXCEPT !.pc = "fill", !.minted = @ + 1, !.held = 0]
               /\ UNCHANGED <<minting, spawned, demand, next, issued>>

\* Mutant: a wallet error returns without resetting the flag.
FillEndsOnError == /\ fill.pc = "fill"
                   /\ fill' = NoFill /\ minting' = (fill.minted < fill.needed)
                   /\ UNCHANGED <<pool, spawned, demand, next, issued>>

\* The loop ends: the pool was full, everything needed is minted, or the
\* wallet returned an error.
FillEnds == /\ fill.pc = "fill"
            /\ fill' = NoFill /\ minting' = FALSE
            /\ UNCHANGED <<pool, spawned, demand, next, issued>>

ReplenishEnters == ReplenishStart \/ ReplenishSkips
FillStep == FillMints \/ FillAppends \/ FillEnds

PoolNext == \/ MintFromPool \/ MintOnDemand \/ DemandMinted \/ DemandFails
            \/ ReplenishEnters \/ FillStep

PoolSpec == PoolInit /\ [][PoolNext]_poolVars

(***************************************************************************)
(* A goroutine that can run does run; the wallet calls return.               *)
(***************************************************************************)
PoolFairSpec == PoolSpec /\ WF_poolVars(ReplenishEnters) /\ WF_poolVars(FillStep)

------------------------------------------------------------------------------
Fills == [pc : {"idle", "fill", "append"}, needed : Nat, minted : Nat, held : Nat]

PoolTypes == /\ pool \in Seq(Nat) /\ minting \in BOOLEAN
             /\ fill \in Fills
             /\ spawned \in Nat /\ demand \in Nat /\ next \in Nat
             /\ issued \subseteq Nat

\* Handlers taking nonces while a refiller works from a count taken earlier
\* never make the pool grow past poolSize.
PoolBounded == Len(pool) <= PoolSize

\* A nonce is in one place only: two 402 challenges never carry the same UTXO,
\* from the pool or minted on demand.
NoncesDistinct ==
  /\ \A i, j \in 1..Len(pool) : i # j => pool[i] # pool[j]
  /\ \A i \in 1..Len(pool) : pool[i] \notin issued /\ pool[i] # fill.held
  /\ fill.held \notin issued

\* The minting flag is never left set: a refill that hits a wallet error
\* releases it, so the pool can be refilled later.
MintingReleased == minting ~> ~minting
==============================================================================
