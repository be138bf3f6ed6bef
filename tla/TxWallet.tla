------------------------------ MODULE TxWallet -------------------------------
(***************************************************************************)
(* Transactions in one node: POST /broadcast and GET /tx/{txid}/beef         *)
(* (internal/api/handlers.go) with the validator, the proof store and the    *)
(* proof fetcher (internal/spv) and the local mempool (internal/txrelay),    *)
(* and the wallet (internal/wallet): invoices, payments, incoming BEEF and   *)
(* the scan for outputs that reached the node's addresses on chain.          *)
(*                                                                          *)
(* Every HTTP request runs on a goroutine of its own and none of these       *)
(* handlers holds a lock across a database operation or a call to ARC,       *)
(* WhatsOnChain or the wallet toolbox: between two of them others run, and   *)
(* the process may end.  Proofs, invoices and the toolbox's actions are on   *)
(* disk; the mempool and the invoice counter are in memory.                  *)
(***************************************************************************)
EXTENDS Integers, FiniteSets

CONSTANTS
  Handlers,    \* requests served at one time
  Beefs,       \* posted or fetched: tx, parses, bumps, txs, root, height
  Posted,      \* the BEEFs clients post
  Fetched,     \* the BEEFs FetchBEEF may build from what ARC and WhatsOnChain say
  NoBeef,
  UTXOs,       \* outpoints WhatsOnChain may list for a scanned address
  Confirmed,   \* those with a height, which a proof can be had for
  MaxTip,      \* bound on the height of the local headers
  MaxInvoices  \* bound on the invoice counter

Txs == {b.tx : b \in Beefs}

ASSUME WalletAssumption ==
  /\ \A b \in Beefs : /\ b.parses \in BOOLEAN /\ b.root \in BOOLEAN
                      /\ b.bumps \in Nat /\ b.txs \in Nat /\ b.height \in Nat
  /\ Posted \subseteq Beefs /\ Fetched \subseteq Beefs /\ NoBeef \notin Beefs
  /\ \A b \in Fetched : b.parses /\ b.bumps = 1 /\ b.txs = 1
  /\ Confirmed \subseteq UTXOs
  /\ MaxTip \in Nat /\ MaxInvoices \in Nat

VARIABLES
  tip,       \* height of the local headers
  proofs,    \* the proof store: a BEEF per transaction
  mempool,   \* transactions and, by the outpoint they spend, wallet actions
  job,       \* the request each handler serves
  nextID,    \* nw.nextID
  invoices,  \* the keys of the invoice database
  issued,    \* how many requests were answered with each invoice ID
  outputs,   \* the wallet's spendable outputs
  action     \* the last action that spends an outpoint: "none", "created", "signed"

relay == <<tip, proofs, mempool>>
billing == <<nextID, invoices, issued>>
funds == <<outputs, action>>
vars == <<relay, billing, funds, job>>

Idle == [pc |-> "idle", beef |-> NoBeef, id |-> 0, utxo |-> "none", todo |-> {}, known |-> {}]
IDs == 1..MaxInvoices

Init == /\ tip \in 0..MaxTip
        /\ proofs = [t \in Txs |-> NoBeef] /\ mempool = {}
        /\ nextID = 0 /\ invoices = {} /\ issued = [i \in IDs |-> 0]
        /\ outputs = {} /\ action = [u \in UTXOs |-> "none"]
        /\ job = [h \in Handlers |-> Idle]

At(h, pc) == job[h].pc = pc
Done(h) == job' = [job EXCEPT ![h] = Idle]

------------------------------------------------------------------------------
(* Broadcasting and proofs                                                  *)

\* Beef.Verify against the header store: every proof's root is the one the
\* header at its height commits to.
Verify(b) == b.root /\ b.height <= tip

ValidateBEEF(b) ==
  CASE ~b.parses -> "invalid"
    [] b.parses /\ b.bumps = 0 -> "unconfirmed"
    [] b.parses /\ b.bumps > 0 /\ ~Verify(b) -> "invalid"
    [] b.parses /\ b.bumps > 0 /\ Verify(b) ->
         IF b.bumps >= b.txs - 1 THEN "spv_verified" ELSE "partially_verified"

StoreBEEF(b) == proofs' = [proofs EXCEPT ![b.tx] = b]

\* Mutant: whatever is not invalid is stored.
WorthStoringUnconfirmed(b) == ValidateBEEF(b) # "invalid"

WorthStoring(b) == ValidateBEEF(b) \in {"spv_verified", "partially_verified"}

\* Invalid BEEF is answered with 422.  StoreBEEF may fail: the answer says so.
handleBroadcast(h, b) ==
  /\ At(h, "idle") /\ ValidateBEEF(b) # "invalid"
  /\ \/ WorthStoring(b) /\ StoreBEEF(b)
     \/ UNCHANGED proofs
  /\ job' = [job EXCEPT ![h] = [Idle EXCEPT !.pc = "mempool", !.beef = b]]
  /\ UNCHANGED <<tip, mempool, billing, funds>>

\* Mempool.Add; what is there already stays.
AddToMempool(tx) == mempool' = mempool \cup {tx}

\* What ARC answers afterwards changes nothing here.
BroadcastBEEF(h) ==
  /\ At(h, "mempool")
  /\ AddToMempool(job[h].beef.tx)
  /\ Done(h)
  /\ UNCHANGED <<tip, proofs, billing, funds>>

handleGetBEEF(h, t) ==
  /\ At(h, "idle")
  /\ job' = [job EXCEPT ![h] =
       IF proofs[t] # NoBeef THEN [Idle EXCEPT !.pc = "serve", !.beef = proofs[t]]
       ELSE [Idle EXCEPT !.pc = "fetch"]]
  /\ UNCHANGED <<relay, billing, funds>>

\* The transaction is unknown or unconfirmed, a source fails, or what was
\* fetched does not fit the local headers: 404, and nothing is kept.
FetchFails(h) == At(h, "fetch") /\ Done(h) /\ UNCHANGED <<relay, billing, funds>>

\* The fetched BEEF is stored under its own transaction unless the Put fails, and
\* served either way; nothing compares that transaction with the one asked for.
FetchBEEF(h, b) ==
  /\ At(h, "fetch")
  /\ ValidateBEEF(b) # "invalid"
  /\ StoreBEEF(b) \/ UNCHANGED proofs
  /\ job' = [job EXCEPT ![h] = [Idle EXCEPT !.pc = "serve", !.beef = b]]
  /\ UNCHANGED <<tip, mempool, billing, funds>>

\* AnvilServices tells the toolbox that a transaction with a stored BEEF is mined.
GetStatusForTxIDs(t) == IF proofs[t] # NoBeef THEN "completed" ELSE "unknown"

Served(h) == At(h, "serve") /\ Done(h) /\ UNCHANGED <<relay, billing, funds>>

------------------------------------------------------------------------------
(* Invoices                                                                 *)

\* The ID is taken under the lock, the address derived from it.
handleInvoice(h) ==
  /\ At(h, "idle") /\ nextID < MaxInvoices
  /\ nextID' = nextID + 1
  /\ job' = [job EXCEPT ![h] = [Idle EXCEPT !.pc = "invoice", !.id = nextID + 1]]
  /\ UNCHANGED <<relay, invoices, issued, funds>>

\* No key can be derived, or the Put fails; the ID is not used again.
InvoiceFails(h) == At(h, "invoice") /\ Done(h) /\ UNCHANGED <<relay, billing, funds>>

saveInvoice(h) ==
  /\ At(h, "invoice")
  /\ invoices' = invoices \cup {job[h].id}
  /\ issued' = [issued EXCEPT ![job[h].id] = @ + 1]
  /\ Done(h)
  /\ UNCHANGED <<relay, nextID, funds>>

\* Mutant: the counter goes on from the number of invoices.
RecoverCount == Cardinality(invoices)

\* The largest key there is.
RecoverNextID == IF invoices = {} THEN 0
                 ELSE CHOOSE i \in invoices : \A j \in invoices : j <= i

------------------------------------------------------------------------------
(* Payments and incoming transactions; the toolbox keeps actions in SQLite   *)

\* An action that spends the outpoint.  Nothing is assumed about whether the toolbox
\* refuses an outpoint that another action has.
CreateAction(u) ==
  /\ action' = [action EXCEPT ![u] = "created"]
  /\ outputs' = outputs \ {u}

\* SignAction completes an action once and hands it to PostFromBEEF.
SignAction(u) ==
  /\ action[u] = "created"
  /\ action' = [action EXCEPT ![u] = "signed"]
  /\ AddToMempool(u)

\* The toolbox pays with an output it chooses.
handleSend(h) ==
  /\ At(h, "idle")
  /\ \E u \in outputs :
       /\ CreateAction(u)
       /\ job' = [job EXCEPT ![h] = [Idle EXCEPT !.pc = "pay", !.utxo = u]]
  /\ UNCHANGED <<relay, billing>>

PaySigned(h) == /\ At(h, "pay")
                /\ SignAction(job[h].utxo) /\ Done(h)
                /\ UNCHANGED <<tip, proofs, billing, outputs>>

\* The action stays as it is, with its input.
SignFails(h) == At(h, "pay") /\ Done(h) /\ UNCHANGED <<relay, billing, funds>>

\* POST /wallet/create-action leaves the action to a later request.
handleCreateAction(h) ==
  /\ At(h, "idle")
  /\ \E u \in outputs : CreateAction(u)
  /\ UNCHANGED <<relay, billing, job>>

\* POST /wallet/sign-action names any action by its reference.
handleSignAction(h, u) ==
  /\ At(h, "idle")
  /\ SignAction(u)
  /\ UNCHANGED <<tip, proofs, billing, outputs, job>>

\* The BEEF is validated first; the toolbox enters the outpoint.
handleInternalize(h, u) ==
  /\ At(h, "idle")
  /\ outputs' = outputs \cup {u}
  /\ UNCHANGED <<relay, billing, action, job>>

------------------------------------------------------------------------------
(* ScanAddress                                                              *)

\* What ListOutputs says; when it fails nothing is known.
buildKnownSet == {outputs, {}}

\* WhatsOnChain's answer for the address at this time.
fetchUTXOs == SUBSET UTXOs

\* The known set is not refreshed during the scan.
ScanAddress(h) ==
  /\ At(h, "idle")
  /\ \E found \in fetchUTXOs \ {{}}, known \in buildKnownSet :
       job' = [job EXCEPT ![h] = [Idle EXCEPT !.pc = "scan", !.todo = found, !.known = known]]
  /\ UNCHANGED <<relay, billing, funds>>

Go(h, pc, u) == [job[h] EXCEPT !.pc = pc, !.utxo = u, !.todo = @ \ {u}]

Importable(h, u) == u \notin job[h].known /\ u \in Confirmed

\* Already known, or unconfirmed and so without a proof.
ScanSkips(h, u) ==
  /\ At(h, "scan") /\ u \in job[h].todo /\ ~Importable(h, u)
  /\ job' = [job EXCEPT ![h] = Go(h, "scan", u)]
  /\ UNCHANGED <<relay, billing, funds>>

\* The transaction or its proof cannot be had or put together, or CreateAction
\* refuses.
ScanFails(h, u) ==
  /\ At(h, "scan") /\ u \in job[h].todo /\ Importable(h, u)
  /\ job' = [job EXCEPT ![h] = Go(h, "scan", u)]
  /\ UNCHANGED <<relay, billing, funds>>

ScanCreates(h, u) ==
  /\ At(h, "scan") /\ u \in job[h].todo /\ Importable(h, u)
  /\ CreateAction(u)
  /\ job' = [job EXCEPT ![h] = Go(h, "sign", u)]
  /\ UNCHANGED <<relay, billing>>

\* signAndComplete, or the toolbox has signed already.
ScanSigns(h) ==
  /\ At(h, "sign")
  /\ SignAction(job[h].utxo)
  /\ job' = [job EXCEPT ![h].pc = "scan"]
  /\ UNCHANGED <<tip, proofs, billing, outputs>>

\* The outpoint is reported as an error and stays with the unsigned action.
ScanSignFails(h) ==
  /\ At(h, "sign")
  /\ job' = [job EXCEPT ![h].pc = "scan"]
  /\ UNCHANGED <<relay, billing, funds>>

ScanEnds(h) == /\ At(h, "scan") /\ job[h].todo = {}
               /\ Done(h) /\ UNCHANGED <<relay, billing, funds>>

------------------------------------------------------------------------------
\* The process ends and starts again, with the headers it syncs at the start.
New ==
  /\ job' = [h \in Handlers |-> Idle]
  /\ mempool' = {}
  /\ nextID' = RecoverNextID
  /\ \E n \in tip..MaxTip : tip' = n
  /\ UNCHANGED <<proofs, invoices, issued, funds>>

Relay(h) == \/ \E b \in Posted : handleBroadcast(h, b)
            \/ \E t \in Txs : handleGetBEEF(h, t)
            \/ \E b \in Fetched : FetchBEEF(h, b)
            \/ BroadcastBEEF(h) \/ FetchFails(h) \/ Served(h)

Bill(h) == handleInvoice(h) \/ InvoiceFails(h) \/ saveInvoice(h)

Fund(h) == \/ handleSend(h) \/ handleCreateAction(h) \/ PaySigned(h) \/ SignFails(h)
           \/ ScanAddress(h) \/ ScanSigns(h) \/ ScanSignFails(h) \/ ScanEnds(h)
           \/ \E u \in UTXOs : \/ handleSignAction(h, u) \/ handleInternalize(h, u)
                               \/ ScanSkips(h, u) \/ ScanFails(h, u)
                               \/ ScanCreates(h, u)

Next == New \/ \E h \in Handlers : Relay(h) \/ Bill(h) \/ Fund(h)

Spec == Init /\ [][Next]_vars

------------------------------------------------------------------------------
(* Properties                                                               *)

\* Types of the variables.
TypeOK ==
  /\ tip \in 0..MaxTip /\ proofs \in [Txs -> Beefs \cup {NoBeef}]
  /\ mempool \subseteq Txs \cup UTXOs
  /\ nextID \in 0..MaxInvoices /\ invoices \subseteq IDs /\ issued \in [IDs -> Nat]
  /\ outputs \subseteq UTXOs /\ action \in [UTXOs -> {"none", "created", "signed"}]

Verified(b) == b.parses /\ b.bumps > 0 /\ Verify(b)

\* Whatever was broadcast, fetched or lost in a crash before, a BEEF that
\* handleGetBEEF serves, from the cache or fresh, has a proof and all its proofs
\* match the local headers; so has every transaction that GetStatusForTxIDs says
\* is completed.
ServedVerified ==
  /\ \A h \in Handlers : At(h, "serve") => Verified(job[h].beef)
  /\ \A t \in Txs : GetStatusForTxIDs(t) = "completed" =>
                     proofs[t].tx = t /\ Verified(proofs[t])

\* No two invoices are answered with one ID, and so with one address, and every
\* answered invoice can be looked up: also when requests overlap, fail after
\* they took an ID, or the process ends between taking and saving it.
InvoiceOnce ==
  \A i \in IDs : issued[i] <= 1 /\ (issued[i] = 1 => i \in invoices)

==============================================================================
