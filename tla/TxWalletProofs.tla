---------------------------- MODULE TxWalletProofs ----------------------------
(***************************************************************************)
(* Proofs about transactions and invoices, for any number of handlers,        *)
(* any BEEFs and outpoints and any bounds.                                   *)
(***************************************************************************)
EXTENDS TxWallet, TLAPS

Jobs == [pc : {"idle", "mempool", "serve", "fetch", "invoice", "pay", "scan", "sign"},
         beef : Beefs \cup {NoBeef}, id : 0..MaxInvoices,
         utxo : UTXOs \cup {"none"}, todo : SUBSET UTXOs, known : SUBSET UTXOs]

\* What a handler has in hand at each point.
InHand(h) == /\ At(h, "mempool") \/ At(h, "serve") => job[h].beef \in Beefs
             /\ At(h, "invoice") => job[h].id \in IDs
             /\ At(h, "pay") \/ At(h, "sign") => job[h].utxo \in UTXOs

TypeInv == TypeOK /\ job \in [Handlers -> Jobs] /\ \A h \in Handlers : InHand(h)

\* An ID in hand is at most the counter, not on disk and in no other hand; the
\* keys on disk have a largest one.
InvoiceInv ==
  /\ \A i \in IDs : issued[i] = IF i \in invoices THEN 1 ELSE 0
  /\ \A i \in invoices : i <= nextID
  /\ invoices # {} => \E i \in invoices : \A j \in invoices : j <= i
  /\ \A h \in Handlers : At(h, "invoice") =>
       /\ job[h].id <= nextID /\ job[h].id \notin invoices
       /\ \A k \in Handlers \ {h} : At(k, "invoice") => job[k].id # job[h].id

------------------------------------------------------------------------------
(* Types                                                                    *)

\* The idle job is one.
LEMMA IdleIsJob == Idle \in Jobs /\ Idle.pc = "idle"
BY WalletAssumption DEF Idle, Jobs

\* A step that gives one handler a job keeps the jobs' types.
LEMMA OneJob ==
  ASSUME TypeInv, NEW h \in Handlers, NEW j \in Jobs, job' = [job EXCEPT ![h] = j],
         j.pc \in {"mempool", "serve"} => j.beef \in Beefs,
         j.pc = "invoice" => j.id \in IDs, j.pc \in {"pay", "sign"} => j.utxo \in UTXOs
  PROVE  job' \in [Handlers -> Jobs] /\ \A k \in Handlers : InHand(k)'
<1>1. job' \in [Handlers -> Jobs] /\ job'[h] = j /\ \A k \in Handlers \ {h} : job'[k] = job[k]
  BY DEF TypeInv
<1>2. InHand(h)'
  BY <1>1 DEF InHand, At
<1>3. ASSUME NEW k \in Handlers, k # h PROVE InHand(k)'
  <2>1. InHand(k)
    BY DEF TypeInv
  <2> QED BY <1>1, <1>3, <2>1 DEF InHand, At
<1> QED BY <1>1, <1>2, <1>3

\* Ending a request keeps the jobs' types.
LEMMA DoneKeepsJobs ==
  ASSUME TypeInv, NEW h \in Handlers, Done(h)
  PROVE  job' \in [Handlers -> Jobs] /\ \A k \in Handlers : InHand(k)'
<1>1. job' = [job EXCEPT ![h] = Idle]
  BY DEF Done
<1> QED BY <1>1, IdleIsJob, OneJob

\* A BEEF's transaction is a transaction.
LEMMA BeefTx == \A b \in Beefs : b.tx \in Txs
BY DEF Txs

\* Storing a BEEF keeps the type of the proof store.
LEMMA StoreKeepsType ==
  ASSUME TypeOK, NEW b \in Beefs, StoreBEEF(b) \/ UNCHANGED proofs
  PROVE  proofs' \in [Txs -> Beefs \cup {NoBeef}]
BY BeefTx DEF StoreBEEF, TypeOK

\* The relay handlers keep the types.
LEMMA RelayTypes == ASSUME TypeInv, NEW h \in Handlers, Relay(h) PROVE TypeInv'
<1> USE DEF relay, billing, funds
<1>0. TypeOK /\ job \in [Handlers -> Jobs] /\ InHand(h)
  BY DEF TypeInv
<1>1. ASSUME NEW b \in Posted, handleBroadcast(h, b) PROVE TypeInv'
  <2>1. b \in Beefs
    BY WalletAssumption
  <2>2. proofs' \in [Txs -> Beefs \cup {NoBeef}]
    BY <1>0, <1>1, <2>1, StoreKeepsType DEF handleBroadcast
  <2> DEFINE j == [Idle EXCEPT !.pc = "mempool", !.beef = b]
  <2>3. j \in Jobs /\ j.pc = "mempool" /\ j.beef = b
    BY <2>1, IdleIsJob DEF Jobs, Idle
  <2>4. job' = [job EXCEPT ![h] = j]
    BY <1>1 DEF handleBroadcast
  <2> HIDE DEF j
  <2>5. job' \in [Handlers -> Jobs] /\ \A k \in Handlers : InHand(k)'
    BY <2>1, <2>3, <2>4, OneJob
  <2>6. TypeOK'
    BY <1>0, <1>1, <2>2 DEF TypeOK, handleBroadcast
  <2> QED BY <2>5, <2>6 DEF TypeInv
<1>2. ASSUME NEW t \in Txs, handleGetBEEF(h, t) PROVE TypeInv'
  <2> DEFINE j == IF proofs[t] # NoBeef THEN [Idle EXCEPT !.pc = "serve", !.beef = proofs[t]]
                  ELSE [Idle EXCEPT !.pc = "fetch"]
  <2>1. /\ j \in Jobs /\ j.pc \in {"serve", "fetch"}
        /\ j.pc = "serve" => j.beef \in Beefs
    BY <1>0, IdleIsJob DEF Jobs, Idle, TypeOK
  <2>2. job' = [job EXCEPT ![h] = j]
    BY <1>2 DEF handleGetBEEF
  <2> HIDE DEF j
  <2>3. job' \in [Handlers -> Jobs] /\ \A k \in Handlers : InHand(k)'
    BY <2>1, <2>2, OneJob
  <2> QED BY <1>0, <1>2, <2>3 DEF TypeInv, TypeOK, handleGetBEEF
<1>3. ASSUME NEW b \in Fetched, FetchBEEF(h, b) PROVE TypeInv'
  <2>1. b \in Beefs
    BY WalletAssumption
  <2>2. proofs' \in [Txs -> Beefs \cup {NoBeef}]
    BY <1>0, <1>3, <2>1, StoreKeepsType DEF FetchBEEF
  <2> DEFINE j == [Idle EXCEPT !.pc = "serve", !.beef = b]
  <2>3. j \in Jobs /\ j.pc = "serve" /\ j.beef = b
    BY <2>1, IdleIsJob DEF Jobs, Idle
  <2>4. job' = [job EXCEPT ![h] = j]
    BY <1>3 DEF FetchBEEF
  <2> HIDE DEF j
  <2>5. job' \in [Handlers -> Jobs] /\ \A k \in Handlers : InHand(k)'
    BY <2>1, <2>3, <2>4, OneJob
  <2>6. TypeOK'
    BY <1>0, <1>3, <2>2 DEF TypeOK, FetchBEEF
  <2> QED BY <2>5, <2>6 DEF TypeInv
<1>4. ASSUME BroadcastBEEF(h) PROVE TypeInv'
  <2>1. job[h].beef.tx \in Txs
    BY <1>0, <1>4, BeefTx DEF BroadcastBEEF, InHand
  <2>2. job' \in [Handlers -> Jobs] /\ \A k \in Handlers : InHand(k)'
    BY <1>4, DoneKeepsJobs DEF BroadcastBEEF
  <2>3. TypeOK'
    BY <1>0, <1>4, <2>1 DEF TypeOK, BroadcastBEEF, AddToMempool
  <2> QED BY <2>2, <2>3 DEF TypeInv
<1>5. ASSUME FetchFails(h) \/ Served(h) PROVE TypeInv'
  <2>1. job' \in [Handlers -> Jobs] /\ \A k \in Handlers : InHand(k)'
    BY <1>5, DoneKeepsJobs DEF FetchFails, Served
  <2> QED BY <1>0, <1>5, <2>1 DEF TypeInv, TypeOK, FetchFails, Served
<1> QED BY <1>1, <1>2, <1>3, <1>4, <1>5 DEF Relay

\* So do the invoice handlers.
LEMMA BillTypes == ASSUME TypeInv, NEW h \in Handlers, Bill(h) PROVE TypeInv'
<1> USE DEF relay, billing, funds
<1>0. TypeOK /\ job \in [Handlers -> Jobs] /\ InHand(h)
  BY DEF TypeInv
<1>1. ASSUME handleInvoice(h) PROVE TypeInv'
  <2> DEFINE j == [Idle EXCEPT !.pc = "invoice", !.id = nextID + 1]
  <2>1. nextID + 1 \in IDs
    BY <1>0, <1>1, WalletAssumption DEF TypeOK, handleInvoice, IDs
  <2>a. nextID + 1 \in 0..MaxInvoices
    BY <1>0, <2>1, WalletAssumption DEF IDs, TypeOK
  <2>2. j \in Jobs /\ j.pc = "invoice" /\ j.id = nextID + 1
    BY <2>a, IdleIsJob DEF Jobs, Idle
  <2>3. job' = [job EXCEPT ![h] = j]
    BY <1>1 DEF handleInvoice
  <2> HIDE DEF j
  <2>4. job' \in [Handlers -> Jobs] /\ \A k \in Handlers : InHand(k)'
    BY <2>1, <2>2, <2>3, OneJob
  <2>5. TypeOK'
    BY <1>0, <1>1, <2>1 DEF TypeOK, handleInvoice, IDs
  <2> QED BY <2>4, <2>5 DEF TypeInv
<1>2. ASSUME InvoiceFails(h) PROVE TypeInv'
  <2>1. job' \in [Handlers -> Jobs] /\ \A k \in Handlers : InHand(k)'
    BY <1>2, DoneKeepsJobs DEF InvoiceFails
  <2> QED BY <1>0, <1>2, <2>1 DEF TypeInv, TypeOK, InvoiceFails
<1>3. ASSUME saveInvoice(h) PROVE TypeInv'
  <2>1. job' \in [Handlers -> Jobs] /\ \A k \in Handlers : InHand(k)'
    BY <1>3, DoneKeepsJobs DEF saveInvoice
  <2>2. job[h].id \in IDs
    BY <1>0, <1>3 DEF saveInvoice, InHand
  <2>3. issued' \in [IDs -> Nat] /\ invoices' \subseteq IDs
    BY <1>0, <1>3, <2>2 DEF TypeOK, saveInvoice
  <2>4. TypeOK'
    BY <1>0, <1>3, <2>3 DEF TypeOK, saveInvoice
  <2> QED BY <2>1, <2>4 DEF TypeInv
<1> QED BY <1>1, <1>2, <1>3 DEF Bill

\* The wallet's actions keep the outputs, the actions and the mempool typed.
LEMMA ActionTypes ==
  ASSUME TypeOK, NEW u \in UTXOs
  PROVE  /\ CreateAction(u) => /\ outputs' \subseteq UTXOs
                               /\ action' \in [UTXOs -> {"none", "created", "signed"}]
         /\ SignAction(u) => /\ mempool' \subseteq Txs \cup UTXOs
                             /\ action' \in [UTXOs -> {"none", "created", "signed"}]
BY DEF TypeOK, CreateAction, SignAction, AddToMempool

\* Going on with a scan gives a well-typed job.
LEMMA GoTypes ==
  ASSUME TypeInv, NEW h \in Handlers, NEW u \in UTXOs, NEW pc \in {"scan", "sign"}
  PROVE  Go(h, pc, u) \in Jobs /\ Go(h, pc, u).pc = pc /\ Go(h, pc, u).utxo = u
BY DEF Go, TypeInv, Jobs

\* So do payments, internalizations and scans.
LEMMA FundTypes == ASSUME TypeInv, NEW h \in Handlers, Fund(h) PROVE TypeInv'
<1> USE DEF relay, billing, funds
<1>0. TypeOK /\ job \in [Handlers -> Jobs] /\ InHand(h) /\ outputs \subseteq UTXOs
  BY DEF TypeInv, TypeOK
<1>1. ASSUME handleSend(h) PROVE TypeInv'
  <2>1. PICK u \in outputs : CreateAction(u) /\
          job' = [job EXCEPT ![h] = [Idle EXCEPT !.pc = "pay", !.utxo = u]]
    BY <1>1 DEF handleSend
  <2> DEFINE j == [Idle EXCEPT !.pc = "pay", !.utxo = u]
  <2>2. u \in UTXOs
    BY <1>0
  <2>3. j \in Jobs /\ j.pc = "pay" /\ j.utxo = u
    BY <2>2, IdleIsJob DEF Jobs, Idle
  <2>4. job' = [job EXCEPT ![h] = j]
    BY <2>1
  <2> HIDE DEF j
  <2>5. job' \in [Handlers -> Jobs] /\ \A k \in Handlers : InHand(k)'
    BY <2>2, <2>3, <2>4, OneJob
  <2>6. TypeOK'
    BY <1>0, <1>1, <2>1, <2>2, ActionTypes DEF TypeOK, handleSend
  <2> QED BY <2>5, <2>6 DEF TypeInv
<1>2. ASSUME handleCreateAction(h) PROVE TypeInv'
  <2>1. PICK u \in outputs : CreateAction(u)
    BY <1>2 DEF handleCreateAction
  <2>2. TypeOK'
    BY <1>0, <1>2, <2>1, ActionTypes DEF TypeOK, handleCreateAction
  <2> QED BY <1>2, <2>2 DEF TypeInv, handleCreateAction, InHand, At
<1>3. ASSUME PaySigned(h) PROVE TypeInv'
  <2>1. job[h].utxo \in UTXOs
    BY <1>0, <1>3 DEF PaySigned, InHand
  <2>2. TypeOK'
    BY <1>0, <1>3, <2>1, ActionTypes DEF TypeOK, PaySigned
  <2> QED BY <1>3, <2>2, DoneKeepsJobs DEF TypeInv, PaySigned
<1>4. ASSUME SignFails(h) \/ ScanEnds(h) PROVE TypeInv'
  <2>1. job' \in [Handlers -> Jobs] /\ \A k \in Handlers : InHand(k)'
    BY <1>4, DoneKeepsJobs DEF SignFails, ScanEnds
  <2> QED BY <1>0, <1>4, <2>1 DEF TypeInv, TypeOK, SignFails, ScanEnds
<1>5. ASSUME ScanAddress(h) PROVE TypeInv'
  <2>1. PICK found \in SUBSET UTXOs, known \in {outputs, {}} :
          job' = [job EXCEPT ![h] = [Idle EXCEPT !.pc = "scan", !.todo = found, !.known = known]]
    BY <1>5 DEF ScanAddress, fetchUTXOs, buildKnownSet
  <2> DEFINE j == [Idle EXCEPT !.pc = "scan", !.todo = found, !.known = known]
  <2>2. j \in Jobs /\ j.pc = "scan"
    BY <1>0, IdleIsJob DEF Jobs, Idle
  <2>3. job' = [job EXCEPT ![h] = j]
    BY <2>1
  <2> HIDE DEF j
  <2>4. job' \in [Handlers -> Jobs] /\ \A k \in Handlers : InHand(k)'
    BY <2>2, <2>3, OneJob
  <2> QED BY <1>0, <1>5, <2>4 DEF TypeInv, TypeOK, ScanAddress
<1>6. ASSUME job' = [job EXCEPT ![h].pc = "scan"]
      PROVE  job' \in [Handlers -> Jobs] /\ \A k \in Handlers : InHand(k)'
  <2> DEFINE j == [job[h] EXCEPT !.pc = "scan"]
  <2>1. j \in Jobs /\ j.pc = "scan"
    BY <1>0 DEF Jobs
  <2>2. job' = [job EXCEPT ![h] = j]
    BY <1>6
  <2> HIDE DEF j
  <2> QED BY <2>1, <2>2, OneJob
<1>7. ASSUME ScanSigns(h) PROVE TypeInv'
  <2>1. job[h].utxo \in UTXOs
    BY <1>0, <1>7 DEF ScanSigns, InHand
  <2>2. TypeOK'
    BY <1>0, <1>7, <2>1, ActionTypes DEF TypeOK, ScanSigns
  <2> QED BY <1>6, <1>7, <2>2 DEF TypeInv, ScanSigns
<1>8. ASSUME ScanSignFails(h) PROVE TypeInv'
  BY <1>0, <1>6, <1>8 DEF TypeInv, TypeOK, ScanSignFails
<1>9. ASSUME NEW u \in UTXOs, handleSignAction(h, u) \/ handleInternalize(h, u) PROVE TypeInv'
  <2>1. TypeOK'
    BY <1>0, <1>9, ActionTypes DEF TypeOK, handleSignAction, handleInternalize
  <2> QED BY <1>9, <2>1 DEF TypeInv, handleSignAction, handleInternalize, InHand, At
<1>10. ASSUME NEW u \in UTXOs, ScanSkips(h, u) \/ ScanFails(h, u) PROVE TypeInv'
  <2>1. job' \in [Handlers -> Jobs] /\ \A k \in Handlers : InHand(k)'
    BY <1>10, GoTypes, OneJob DEF ScanSkips, ScanFails
  <2> QED BY <1>0, <1>10, <2>1 DEF TypeInv, TypeOK, ScanSkips, ScanFails
<1>11. ASSUME NEW u \in UTXOs, ScanCreates(h, u) PROVE TypeInv'
  <2>1. job' \in [Handlers -> Jobs] /\ \A k \in Handlers : InHand(k)'
    BY <1>11, GoTypes, OneJob DEF ScanCreates
  <2>2. TypeOK'
    BY <1>0, <1>11, ActionTypes DEF TypeOK, ScanCreates
  <2> QED BY <2>1, <2>2 DEF TypeInv
<1> QED BY <1>1, <1>2, <1>3, <1>4, <1>5, <1>7, <1>8, <1>9, <1>10, <1>11 DEF Fund

\* Recovery finds the largest key, when there is one.
LEMMA RecoverFindsLargest ==
  ASSUME invoices # {} => \E i \in invoices : \A j \in invoices : j <= i
  PROVE  /\ invoices = {} => RecoverNextID = 0
         /\ invoices # {} => RecoverNextID \in invoices
         /\ \A j \in invoices : j <= RecoverNextID
BY DEF RecoverNextID

\* A restart keeps the types.
LEMMA NewTypes == ASSUME TypeInv, InvoiceInv, New PROVE TypeInv'
<1>1. job' \in [Handlers -> Jobs] /\ \A k \in Handlers : InHand(k)'
  BY IdleIsJob DEF New, InHand, At
<1>2. nextID' \in 0..MaxInvoices
  <2>1. nextID' = RecoverNextID
    BY DEF New
  <2>2. RecoverNextID = 0 \/ RecoverNextID \in invoices
    BY RecoverFindsLargest DEF InvoiceInv
  <2>3. invoices \subseteq 1..MaxInvoices
    BY DEF TypeInv, TypeOK, IDs
  <2>4. CASE RecoverNextID = 0
    BY <2>1, <2>4, WalletAssumption
  <2>5. CASE RecoverNextID \in invoices
    BY <2>1, <2>3, <2>5, WalletAssumption
  <2> QED BY <2>2, <2>4, <2>5
<1>3. tip' \in 0..MaxTip
  BY WalletAssumption DEF TypeInv, TypeOK, New
<1>4. TypeOK'
  BY <1>2, <1>3 DEF TypeInv, TypeOK, New, funds
<1> QED BY <1>1, <1>4 DEF TypeInv

\* Every step keeps the types.
LEMMA TypesStep == ASSUME TypeInv, InvoiceInv, [Next]_vars PROVE TypeInv'
<1>1. ASSUME UNCHANGED vars PROVE TypeInv'
  BY <1>1 DEF TypeInv, TypeOK, InHand, At, vars, relay, billing, funds
<1> QED BY <1>1, NewTypes, RelayTypes, BillTypes, FundTypes DEF Next

------------------------------------------------------------------------------
(* Invoices                                                                 *)

\* A step that leaves the counter and the invoices alone and gives out no ID.
LEMMA InvoicesUntouched ==
  ASSUME TypeInv, InvoiceInv, UNCHANGED billing,
         \A h \in Handlers : At(h, "invoice")' => At(h, "invoice") /\ job'[h].id = job[h].id
  PROVE  InvoiceInv'
BY DEF InvoiceInv, billing

\* A handler that ends, or goes elsewhere, gives out no ID.
LEMMA OtherJob ==
  ASSUME TypeInv, NEW h \in Handlers, NEW j, job' = [job EXCEPT ![h] = j], j.pc # "invoice"
  PROVE  \A k \in Handlers : At(k, "invoice")' => At(k, "invoice") /\ job'[k].id = job[k].id
BY DEF TypeInv, At

\* Taking an ID, losing it and saving it keep the invoice invariant.
LEMMA BillKeepsInvoices == ASSUME TypeInv, InvoiceInv, NEW h \in Handlers, Bill(h) PROVE InvoiceInv'
<1>0. nextID \in Nat /\ invoices \subseteq IDs /\ issued \in [IDs -> Nat] /\ IDs \subseteq Nat
  BY WalletAssumption DEF TypeInv, TypeOK, IDs
<1>1. ASSUME handleInvoice(h) PROVE InvoiceInv'
  <2>1. /\ nextID' = nextID + 1 /\ UNCHANGED <<invoices, issued>>
        /\ job' = [job EXCEPT ![h] = [Idle EXCEPT !.pc = "invoice", !.id = nextID + 1]]
    BY <1>1 DEF handleInvoice
  <2>2. /\ job'[h].id = nextID + 1 /\ job'[h].pc = "invoice"
        /\ \A k \in Handlers \ {h} : job'[k] = job[k]
    BY <2>1 DEF TypeInv, Idle
  <2>3. \A k \in Handlers : At(k, "invoice") => job[k].id \in Nat /\ job[k].id <= nextID
    BY <1>0 DEF InvoiceInv, TypeInv, InHand
  <2>4. \A i \in invoices : i \in Nat /\ i <= nextID
    BY <1>0 DEF InvoiceInv
  <2>5. ASSUME NEW k \in Handlers, At(k, "invoice")'
        PROVE  /\ job'[k].id <= nextID' /\ job'[k].id \notin invoices'
               /\ \A g \in Handlers \ {k} : At(g, "invoice")' => job'[g].id # job'[k].id
    <3>1. CASE k = h
      BY <1>0, <2>1, <2>2, <2>3, <2>4, <3>1 DEF At
    <3>2. CASE k # h
      BY <1>0, <2>1, <2>2, <2>3, <2>5, <3>2 DEF At, InvoiceInv
    <3> QED BY <3>1, <3>2
  <2> QED BY <1>0, <2>1, <2>4, <2>5 DEF InvoiceInv
<1>2. ASSUME InvoiceFails(h) PROVE InvoiceInv'
  BY <1>2, IdleIsJob, OtherJob, InvoicesUntouched DEF InvoiceFails, Done
<1>3. ASSUME saveInvoice(h) PROVE InvoiceInv'
  <2> DEFINE i == job[h].id
  <2>1. /\ UNCHANGED nextID /\ invoices' = invoices \cup {i}
        /\ issued' = [issued EXCEPT ![i] = @ + 1] /\ job' = [job EXCEPT ![h] = Idle]
    BY <1>3 DEF saveInvoice, Done
  <2>2. At(h, "invoice") /\ i \in IDs
    BY <1>3 DEF saveInvoice, TypeInv, InHand
  <2>3. i \in Nat /\ i <= nextID /\ i \notin invoices
    BY <1>0, <2>2 DEF InvoiceInv
  <2>4. job'[h].pc = "idle" /\ \A k \in Handlers \ {h} : job'[k] = job[k]
    BY <2>1, IdleIsJob DEF TypeInv
  <2>5. \A n \in IDs : issued'[n] = IF n \in invoices' THEN 1 ELSE 0
    BY <1>0, <2>1, <2>2, <2>3 DEF InvoiceInv
  <2>6. \E n \in invoices' : \A m \in invoices' : m <= n
    <3>1. CASE invoices = {}
      BY <2>1, <2>3, <3>1
    <3>2. CASE invoices # {}
      <4>1. PICK n \in invoices : \A m \in invoices : m <= n
        BY <3>2 DEF InvoiceInv
      <4>2. n \in Nat /\ \A m \in invoices : m \in Nat
        BY <1>0
      <4>3. CASE i <= n
        BY <2>1, <4>1, <4>3
      <4>4. CASE n <= i
        <5>1. \A m \in invoices' : m <= i
          BY <2>1, <2>3, <4>1, <4>2, <4>4
        <5> QED BY <2>1, <5>1
      <4> QED BY <2>3, <4>2, <4>3, <4>4
    <3> QED BY <3>1, <3>2
  <2>7. ASSUME NEW k \in Handlers, At(k, "invoice")'
        PROVE  /\ job'[k].id <= nextID' /\ job'[k].id \notin invoices'
               /\ \A g \in Handlers \ {k} : At(g, "invoice")' => job'[g].id # job'[k].id
    BY <2>1, <2>2, <2>4, <2>7 DEF At, InvoiceInv
  <2>8. \A n \in invoices' : n <= nextID'
    BY <2>1, <2>3 DEF InvoiceInv
  <2> QED BY <2>5, <2>6, <2>7, <2>8 DEF InvoiceInv
<1> QED BY <1>1, <1>2, <1>3 DEF Bill

\* No other handler touches the counter or takes an ID.
LEMMA OthersKeepInvoices ==
  ASSUME TypeInv, InvoiceInv, NEW h \in Handlers, Relay(h) \/ Fund(h)
  PROVE  InvoiceInv'
<1> DEFINE Elsewhere == \E j : j.pc # "invoice" /\ job' = [job EXCEPT ![h] = j]
<1>0. job[h] \in Jobs
  BY DEF TypeInv
<1>1. ASSUME Relay(h) PROVE UNCHANGED billing /\ Elsewhere
  BY <1>1, IdleIsJob DEF Relay, handleBroadcast, handleGetBEEF, FetchBEEF, BroadcastBEEF,
     FetchFails, Served, Done, Idle, billing
<1>2. ASSUME Fund(h) PROVE UNCHANGED billing /\ (UNCHANGED job \/ Elsewhere)
  <2>1. ASSUME handleSend(h) \/ PaySigned(h) \/ SignFails(h) \/ ScanAddress(h) \/ ScanEnds(h)
        PROVE  UNCHANGED billing /\ Elsewhere
    BY <2>1, IdleIsJob DEF handleSend, PaySigned, SignFails, ScanAddress, ScanEnds, Done, Idle, billing
  <2>2. ASSUME ScanSigns(h) \/ ScanSignFails(h) PROVE UNCHANGED billing /\ Elsewhere
    <3>1. job' = [job EXCEPT ![h] = [job[h] EXCEPT !.pc = "scan"]]
      BY <2>2 DEF ScanSigns, ScanSignFails
    <3>2. [job[h] EXCEPT !.pc = "scan"].pc # "invoice"
      BY <1>0 DEF Jobs
    <3> QED BY <2>2, <3>1, <3>2 DEF ScanSigns, ScanSignFails, billing
  <2>3. ASSUME NEW u \in UTXOs, ScanSkips(h, u) \/ ScanFails(h, u) \/ ScanCreates(h, u)
        PROVE  UNCHANGED billing /\ Elsewhere
    BY <2>3, GoTypes DEF ScanSkips, ScanFails, ScanCreates, billing
  <2>4. ASSUME handleCreateAction(h) PROVE UNCHANGED billing /\ UNCHANGED job
    BY <2>4 DEF handleCreateAction, billing
  <2>5. ASSUME NEW u \in UTXOs, handleSignAction(h, u) \/ handleInternalize(h, u)
        PROVE  UNCHANGED billing /\ UNCHANGED job
    BY <2>5 DEF handleSignAction, handleInternalize, billing
  <2> HIDE DEF Elsewhere
  <2> QED BY <1>2, <2>1, <2>2, <2>3, <2>4, <2>5 DEF Fund
<1>3. CASE UNCHANGED billing /\ UNCHANGED job
  BY <1>3, InvoicesUntouched DEF At
<1>4. CASE UNCHANGED billing /\ Elsewhere
  BY <1>4, OtherJob, InvoicesUntouched
<1> HIDE DEF Elsewhere
<1> QED BY <1>1, <1>2, <1>3, <1>4

\* A restart recovers the counter from the largest key.
LEMMA NewKeepsInvoices == ASSUME TypeInv, InvoiceInv, New PROVE InvoiceInv'
<1>1. /\ nextID' = RecoverNextID /\ UNCHANGED <<invoices, issued>>
      /\ \A h \in Handlers : ~At(h, "invoice")'
  BY IdleIsJob DEF New, At
<1>2. \A j \in invoices : j <= RecoverNextID
  BY RecoverFindsLargest DEF InvoiceInv
<1> QED BY <1>1, <1>2 DEF InvoiceInv

\* Every step keeps the invoice invariant.
LEMMA InvoicesStep == ASSUME TypeInv, InvoiceInv, [Next]_vars PROVE InvoiceInv'
<1>1. ASSUME UNCHANGED vars PROVE InvoiceInv'
  BY <1>1, InvoicesUntouched DEF vars, At
<1> QED BY <1>1, NewKeepsInvoices, BillKeepsInvoices, OthersKeepInvoices DEF Next

------------------------------------------------------------------------------
(* Proofs and scans                                                         *)

\* A BEEF that verifies goes on to, because the headers never get fewer.
LEMMA StaysVerified ==
  ASSUME TypeInv, TypeInv', tip' >= tip, NEW b \in Beefs, Verified(b)
  PROVE  Verified(b)'
BY WalletAssumption DEF Verified, Verify, TypeInv, TypeOK

\* What is worth storing, and what is fetched and not invalid, verifies.
LEMMA ValidMeansVerified ==
  ASSUME NEW b \in Beefs, WorthStoring(b) \/ (b \in Fetched /\ ValidateBEEF(b) # "invalid")
  PROVE  Verified(b)
BY WalletAssumption DEF WorthStoring, ValidateBEEF, Verified

\* The proof store after a BEEF that verifies was stored, or was not.
LEMMA StoreKeepsVerified ==
  ASSUME TypeInv, ServedVerified, UNCHANGED tip, NEW b \in Beefs,
         (StoreBEEF(b) /\ Verified(b)) \/ UNCHANGED proofs
  PROVE  \A t \in Txs : GetStatusForTxIDs(t)' = "completed" =>
                         proofs'[t].tx = t /\ Verified(proofs'[t])
BY BeefTx, WalletAssumption
   DEF StoreBEEF, ServedVerified, GetStatusForTxIDs, TypeInv, TypeOK, Verified, Verify

\* A step that stores nothing and begins to serve nothing.
LEMMA ServedKept ==
  ASSUME TypeInv, TypeInv', ServedVerified, tip' >= tip, UNCHANGED proofs,
         \A k \in Handlers : At(k, "serve")' => At(k, "serve") /\ job'[k].beef = job[k].beef
  PROVE  ServedVerified'
<1>1. ASSUME NEW k \in Handlers, At(k, "serve")' PROVE Verified(job[k].beef)'
  <2>1. job[k].beef \in Beefs /\ Verified(job[k].beef) /\ job'[k].beef = job[k].beef
    BY <1>1 DEF TypeInv, InHand, ServedVerified
  <2> QED BY <2>1, StaysVerified DEF Verified, Verify
<1>2. ASSUME NEW t \in Txs, GetStatusForTxIDs(t)' = "completed"
      PROVE  proofs'[t].tx = t /\ Verified(proofs[t])'
  <2>1. proofs[t] \in Beefs /\ proofs[t].tx = t /\ Verified(proofs[t])
    BY <1>2 DEF GetStatusForTxIDs, TypeInv, TypeOK, ServedVerified
  <2> QED BY <2>1, StaysVerified DEF Verified, Verify
<1> QED BY <1>1, <1>2 DEF ServedVerified

\* A handler that begins something else than serving.
LEMMA NotServing ==
  ASSUME TypeInv, NEW h \in Handlers, NEW j, job' = [job EXCEPT ![h] = j], j.pc # "serve"
  PROVE  \A k \in Handlers : At(k, "serve")' => At(k, "serve") /\ job'[k].beef = job[k].beef
BY DEF TypeInv, At

\* The relay handlers serve and store only what verifies.
LEMMA RelayKeepsVerified ==
  ASSUME TypeInv, TypeInv', ServedVerified, NEW h \in Handlers, Relay(h)
  PROVE  ServedVerified'
<1>0. tip \in Nat /\ job \in [Handlers -> Jobs]
  BY WalletAssumption DEF TypeInv, TypeOK
<1>1. ASSUME NEW b \in Posted, handleBroadcast(h, b) PROVE ServedVerified'
  <2>1. b \in Beefs /\ UNCHANGED tip
    BY <1>1, WalletAssumption DEF handleBroadcast
  <2>2. (StoreBEEF(b) /\ Verified(b)) \/ UNCHANGED proofs
    BY <1>1, <2>1, ValidMeansVerified DEF handleBroadcast
  <2>3. \A k \in Handlers : At(k, "serve")' => At(k, "serve") /\ job'[k].beef = job[k].beef
    <3> DEFINE j == [Idle EXCEPT !.pc = "mempool", !.beef = b]
    <3>1. job' = [job EXCEPT ![h] = j]
      BY <1>1 DEF handleBroadcast
    <3>2. j.pc # "serve"
      BY DEF Idle
    <3> HIDE DEF j
    <3> QED BY <3>1, <3>2, NotServing
  <2>4. \A t \in Txs : GetStatusForTxIDs(t)' = "completed" =>
                        proofs'[t].tx = t /\ Verified(proofs'[t])
    BY <2>1, <2>2, StoreKeepsVerified
  <2> QED BY <2>1, <2>3, <2>4 DEF ServedVerified, Verified, Verify
<1>2. ASSUME NEW t \in Txs, handleGetBEEF(h, t) PROVE ServedVerified'
  <2>1. UNCHANGED <<tip, proofs>> /\ \A k \in Handlers \ {h} : job'[k] = job[k]
    BY <1>0, <1>2 DEF handleGetBEEF, relay
  <2>2. At(h, "serve")' => proofs[t] # NoBeef /\ job'[h].beef = proofs[t]
    BY <1>0, <1>2 DEF handleGetBEEF, At, Idle
  <2>3. At(h, "serve")' => Verified(job'[h].beef)
    BY <2>2 DEF ServedVerified, GetStatusForTxIDs
  <2> QED BY <2>1, <2>3 DEF ServedVerified, GetStatusForTxIDs, Verified, Verify, At
<1>3. ASSUME NEW b \in Fetched, FetchBEEF(h, b) PROVE ServedVerified'
  <2>1. b \in Beefs /\ UNCHANGED tip
    BY <1>3, WalletAssumption DEF FetchBEEF
  <2>2. Verified(b)
    BY <1>3, <2>1, ValidMeansVerified DEF FetchBEEF
  <2>3. \A t \in Txs : GetStatusForTxIDs(t)' = "completed" =>
                        proofs'[t].tx = t /\ Verified(proofs'[t])
    BY <1>3, <2>1, <2>2, StoreKeepsVerified DEF FetchBEEF
  <2>4. job'[h].beef = b /\ \A k \in Handlers \ {h} : job'[k] = job[k]
    BY <1>0, <1>3 DEF FetchBEEF, Idle
  <2> QED BY <2>1, <2>2, <2>3, <2>4 DEF ServedVerified, Verified, Verify, At
<1>4. ASSUME BroadcastBEEF(h) \/ FetchFails(h) \/ Served(h) PROVE ServedVerified'
  <2>1. UNCHANGED <<tip, proofs>> /\ job' = [job EXCEPT ![h] = Idle]
    BY <1>4 DEF BroadcastBEEF, FetchFails, Served, Done, relay
  <2>2. \A k \in Handlers : At(k, "serve")' => At(k, "serve") /\ job'[k].beef = job[k].beef
    BY <2>1, IdleIsJob, NotServing
  <2>3. tip' >= tip /\ UNCHANGED proofs
    BY <1>0, <2>1
  <2> QED BY <2>2, <2>3, ServedKept
<1> QED BY <1>1, <1>2, <1>3, <1>4 DEF Relay

\* The wallet's handlers neither store nor serve a BEEF.
LEMMA WalletKeepsVerified ==
  ASSUME TypeInv, TypeInv', ServedVerified, NEW h \in Handlers, Bill(h) \/ Fund(h)
  PROVE  ServedVerified'
<1> DEFINE Elsewhere == \E j : j.pc # "serve" /\ job' = [job EXCEPT ![h] = j]
<1>0. tip \in Nat /\ job[h] \in Jobs
  BY WalletAssumption DEF TypeInv, TypeOK
<1>1. ASSUME Bill(h) PROVE UNCHANGED <<tip, proofs>> /\ Elsewhere
  BY <1>1, IdleIsJob DEF Bill, handleInvoice, InvoiceFails, saveInvoice, Done, Idle, relay
<1>2. ASSUME Fund(h) PROVE UNCHANGED <<tip, proofs>> /\ (UNCHANGED job \/ Elsewhere)
  <2>1. ASSUME handleSend(h) \/ PaySigned(h) \/ SignFails(h) \/ ScanAddress(h) \/ ScanEnds(h)
        PROVE  UNCHANGED <<tip, proofs>> /\ Elsewhere
    BY <2>1, IdleIsJob DEF handleSend, PaySigned, SignFails, ScanAddress, ScanEnds, Done, Idle, relay
  <2>2. ASSUME ScanSigns(h) \/ ScanSignFails(h) PROVE UNCHANGED <<tip, proofs>> /\ Elsewhere
    <3>1. job' = [job EXCEPT ![h] = [job[h] EXCEPT !.pc = "scan"]]
      BY <2>2 DEF ScanSigns, ScanSignFails
    <3>2. [job[h] EXCEPT !.pc = "scan"].pc # "serve"
      BY <1>0 DEF Jobs
    <3> QED BY <2>2, <3>1, <3>2 DEF ScanSigns, ScanSignFails, relay
  <2>3. ASSUME NEW u \in UTXOs, ScanSkips(h, u) \/ ScanFails(h, u) \/ ScanCreates(h, u)
        PROVE  UNCHANGED <<tip, proofs>> /\ Elsewhere
    BY <2>3, GoTypes DEF ScanSkips, ScanFails, ScanCreates, relay
  <2>4. ASSUME handleCreateAction(h) PROVE UNCHANGED <<tip, proofs>> /\ UNCHANGED job
    BY <2>4 DEF handleCreateAction, relay
  <2>5. ASSUME NEW u \in UTXOs, handleSignAction(h, u) \/ handleInternalize(h, u)
        PROVE  UNCHANGED <<tip, proofs>> /\ UNCHANGED job
    BY <2>5 DEF handleSignAction, handleInternalize, relay
  <2> HIDE DEF Elsewhere
  <2> QED BY <1>2, <2>1, <2>2, <2>3, <2>4, <2>5 DEF Fund
<1>3. CASE UNCHANGED <<tip, proofs>> /\ UNCHANGED job
  BY <1>0, <1>3, ServedKept DEF At
<1>4. CASE UNCHANGED <<tip, proofs>> /\ Elsewhere
  <2>1. PICK j : j.pc # "serve" /\ job' = [job EXCEPT ![h] = j]
    BY <1>4
  <2>2. \A k \in Handlers : At(k, "serve")' => At(k, "serve") /\ job'[k].beef = job[k].beef
    BY <2>1, NotServing
  <2>3. tip' >= tip /\ UNCHANGED proofs
    BY <1>0, <1>4
  <2> QED BY <2>2, <2>3, ServedKept
<1> HIDE DEF Elsewhere
<1> QED BY <1>1, <1>2, <1>3, <1>4

\* Every step keeps what is served and stored verified.
LEMMA VerifiedStep ==
  ASSUME TypeInv, TypeInv', ServedVerified, [Next]_vars
  PROVE  ServedVerified'
<1>0. tip \in Nat
  BY WalletAssumption DEF TypeInv, TypeOK
<1>1. ASSUME UNCHANGED vars PROVE ServedVerified'
  BY <1>0, <1>1, ServedKept DEF vars, relay, At
<1>2. ASSUME New PROVE ServedVerified'
  <2>1. tip' >= tip /\ UNCHANGED proofs
    BY <1>0, <1>2, WalletAssumption DEF New
  <2>2. \A k \in Handlers : ~At(k, "serve")'
    BY <1>2, IdleIsJob DEF New, At
  <2> QED BY <2>1, <2>2, ServedKept
<1> QED BY <1>1, <1>2, RelayKeepsVerified, WalletKeepsVerified DEF Next

------------------------------------------------------------------------------
(* Theorems                                                                 *)

WalletInv == TypeInv /\ InvoiceInv /\ ServedVerified

\* The initial states have the invariant.
LEMMA InitInv == Init => WalletInv
<1> SUFFICES ASSUME Init PROVE WalletInv
  OBVIOUS
<1>1. TypeInv
  BY WalletAssumption, IdleIsJob DEF Init, TypeInv, TypeOK, InHand, At
<1>2. InvoiceInv
  BY IdleIsJob DEF Init, InvoiceInv, At
<1>3. ServedVerified
  BY IdleIsJob DEF Init, ServedVerified, At, GetStatusForTxIDs
<1> QED BY <1>1, <1>2, <1>3 DEF WalletInv

\* The invariant holds in every behaviour.
LEMMA InvHolds == Spec => []WalletInv
<1>1. WalletInv /\ [Next]_vars => WalletInv'
  BY TypesStep, InvoicesStep, VerifiedStep DEF WalletInv
<1> QED BY <1>1, InitInv, PTL DEF Spec

\* Whatever was broadcast, fetched or lost in a crash, every BEEF served has a
\* proof that fits the local headers, and so has every transaction reported as
\* completed.
THEOREM ServedStaysVerified == Spec => []ServedVerified
<1>1. WalletInv => ServedVerified
  BY DEF WalletInv
<1> QED BY <1>1, InvHolds, PTL

\* No invoice ID is answered twice, and every answered one is on disk, whatever
\* requests overlap or fail and whenever the process restarts.
THEOREM InvoicesAnsweredOnce == Spec => []InvoiceOnce
<1>1. WalletInv => InvoiceOnce
  BY DEF WalletInv, InvoiceInv, InvoiceOnce
<1> QED BY <1>1, InvHolds, PTL

===============================================================================
