------------------------- MODULE OyoRegistryProofs -------------------------
(***************************************************************************)
(* Proofs about OyoRegistry, for any number of wallets, requests and       *)
(* tailers and whatever the bounds.                                        *)
(***************************************************************************)
EXTENDS OyoRegistry, FiniteSetTheorems, TLAPS

(* A request that gets at a wallet's handle or count has a wallet. *)
HasWallet ==
  \A r \in Request :
    req[r].live \/ req[r].pc \in {"got", "have", "derived", "sync", "syncing"}
      => req[r].wallet \in Wallet

Typed == TypeOK /\ HasWallet

RequestPc == {"idle", "got", "have", "derived", "sync", "syncing"} \union ResyncSteps
TailerPc  == {"none", "wait", "check", "sync", "syncing", "mark", "mempool", "listing"}

-----------------------------------------------------------------------------
(* How a request moves.                                                    *)

LEMMA GotoTyped ==
  ASSUME NEW r \in Request, NEW pc \in RequestPc, req \in [Request -> RequestState], Goto(r, pc)
  PROVE  /\ req' \in [Request -> RequestState]
         /\ \A q \in Request : /\ req'[q].wallet = req[q].wallet /\ req'[q].live = req[q].live
                               /\ req'[q].pc = IF q = r THEN pc ELSE req[q].pc
<1>1. req' = [req EXCEPT ![r] = [req[r] EXCEPT !.pc = pc]]
  BY DEF Goto
<1>2. [req[r] EXCEPT !.pc = pc] \in RequestState
  BY DEF RequestState, RequestPc
<1>. QED BY <1>1, <1>2 DEF RequestState

LEMMA LiveTyped ==
  ASSUME NEW r \in Request, NEW b \in BOOLEAN, req \in [Request -> RequestState],
         req' = [req EXCEPT ![r].pc = "have", ![r].live = b]
  PROVE  /\ req' \in [Request -> RequestState]
         /\ req'[r].pc = "have" /\ req'[r].wallet = req[r].wallet /\ req'[r].live = b
         /\ \A q \in Request \ {r} : req'[q] = req[q]
<1>1. [req[r] EXCEPT !.pc = "have", !.live = b] \in RequestState
  BY DEF RequestState
<1>2. req' = [req EXCEPT ![r] = [req[r] EXCEPT !.pc = "have", !.live = b]]
  OBVIOUS
<1>. QED BY <1>1, <1>2 DEF RequestState

LEMMA EndTyped ==
  ASSUME NEW r \in Request, req \in [Request -> RequestState], End(r)
  PROVE  /\ req' \in [Request -> RequestState]
         /\ req'[r].pc = "idle" /\ ~req'[r].live
         /\ \A q \in Request \ {r} : req'[q] = req[q]
<1>1. Idle \in RequestState
  BY DEF Idle, RequestState
<1>. QED BY <1>1 DEF End, Idle

LEMMA KilledTyped ==
  ASSUME NEW W \in SUBSET Wallet, req \in [Request -> RequestState]
  PROVE  /\ Killed(W) \in [Request -> RequestState]
         /\ \A q \in Request : /\ Killed(W)[q].wallet = req[q].wallet
                               /\ Killed(W)[q].pc = req[q].pc
                               /\ Killed(W)[q].live = (req[q].live /\ req[q].wallet \notin W)
<1>1. ASSUME NEW q \in Request PROVE [req[q] EXCEPT !.live = FALSE] \in RequestState
  BY DEF RequestState
<1>. QED BY <1>1 DEF Killed, RequestState

(* How a tailer moves.                                                     *)

LEMMA TailGotoTyped ==
  ASSUME NEW t \in Tailer, NEW pc \in TailerPc, tail \in [Tailer -> TailerState], TailGoto(t, pc)
  PROVE  /\ tail' \in [Tailer -> TailerState]
         /\ \A u \in Tailer : /\ tail'[u].quit = tail[u].quit
                              /\ tail'[u].pc = IF u = t THEN pc ELSE tail[u].pc
<1>1. tail' = [tail EXCEPT ![t] = [tail[t] EXCEPT !.pc = pc]]
  BY DEF TailGoto
<1>2. [tail[t] EXCEPT !.pc = pc] \in TailerState
  BY DEF TailerState, TailerPc
<1>. QED BY <1>1, <1>2 DEF TailerState

LEMMA EndedTyped ==
  ASSUME NEW t \in Tailer, tail \in [Tailer -> TailerState], tail' = [tail EXCEPT ![t] = Ended]
  PROVE  /\ tail' \in [Tailer -> TailerState]
         /\ tail'[t].pc = "none" /\ ~tail'[t].quit
         /\ \A u \in Tailer \ {t} : tail'[u] = tail[u]
<1>1. Ended \in TailerState
  BY DEF Ended, TailerState
<1>. QED BY <1>1 DEF Ended

LEMMA StopTyped ==
  ASSUME tail \in [Tailer -> TailerState], StopTailer
  PROVE  /\ tail' \in [Tailer -> TailerState]
         /\ \A u \in Tailer : /\ tail'[u].pc = tail[u].pc
                              /\ tail'[u].quit = (tail[u].quit \/ u = tailQuit)
<1>1. ASSUME NEW u \in Tailer PROVE [tail[u] EXCEPT !.quit = TRUE] \in TailerState
  BY DEF TailerState
<1>. QED BY <1>1 DEF StopTailer, TailerState

-----------------------------------------------------------------------------
(* The invariant.                                                          *)

(* Who holds r.mu, and what it finds there. *)
Locked ==
  \A r \in Request :
    /\ req[r].pc \in {"close", "reopen", "bootstrap"} <=> mu = r
    /\ req[r].pc = "reopen" => chain = "closed"
    /\ req[r].pc \in {"close", "reopen"} => \A w \in Wallet : status[w] # "loaded"

(* The tailer whose channel the registry keeps runs, and only one that     *)
(* runs can be told to quit.                                               *)
TailerKept ==
  \A t \in Tailer :
    /\ tailQuit = t => tail[t].pc # "none" /\ ~tail[t].quit
    /\ tail[t].quit => tail[t].pc # "none"

RegistryInv ==
  /\ TypeOK /\ HasWallet /\ Locked /\ HandlesBacked
  /\ TailerKept /\ TailerReachable /\ TailerReturns

LEMMA InitRegistry == Init => RegistryInv
<1>. SUFFICES ASSUME Init PROVE RegistryInv
  OBVIOUS
<1>. USE RegistryAssumption DEF Init, Idle, Ended
<1>1. TypeOK
  <2>1. Idle \in RequestState /\ Ended \in TailerState
    BY DEF RequestState, TailerState
  <2>. QED BY <2>1 DEF TypeOK, Side
<1>2. HasWallet /\ Locked /\ HandlesBacked
  BY DEF HasWallet, Locked, HandlesBacked
<1>3. TailerKept /\ TailerReachable /\ TailerReturns
  BY DEF TailerKept, TailerReachable, TailerReturns
<1>. QED BY <1>1, <1>2, <1>3 DEF RegistryInv

(* The lifecycle of wallets. *)
LEMMA LifecycleStep ==
  ASSUME RegistryInv, NEW w \in Wallet, Unload(w) \/ Load(w) \/ Delete(w)
  PROVE  RegistryInv'
<1>. USE RegistryAssumption
     DEF RegistryInv, TypeOK, HasWallet, Locked, HandlesBacked, tailVars, Free, Registered
<1>1. TailerKept' /\ TailerReachable'
  BY DEF Unload, Load, Delete, TailerKept, TailerReachable
<1>2. CASE Unload(w) \/ Delete(w)
  <2>1. req' = Killed({w}) /\ {w} \in SUBSET Wallet
    BY <1>2 DEF Unload, Delete
  <2>. HIDE DEF HasWallet, Locked, HandlesBacked
  <2>2. /\ req' \in [Request -> RequestState]
        /\ \A q \in Request : /\ req'[q].wallet = req[q].wallet
                              /\ req'[q].pc = req[q].pc
                              /\ req'[q].live = (req[q].live /\ req[q].wallet \notin {w})
    BY <2>1, KilledTyped
  <2>3. TypeOK' /\ HasWallet'
    BY <1>2, <2>2 DEF Unload, Delete, HasWallet
  <2>4. Locked'
    BY <1>2, <2>2 DEF Unload, Delete, Locked
  <2>6. /\ \A v \in Wallet : status'[v] = "loaded" => v # w /\ status[v] = "loaded"
        /\ \A v \in Wallet : status[v] = "loaded" /\ v # w => status'[v] = "loaded"
        /\ UNCHANGED <<chain, syncOp, syncMu>>
    BY <1>2 DEF Unload, Delete
  <2>7. HandlesBacked'
    BY <2>2, <2>6 DEF HandlesBacked, HasWallet
  <2>5. TailerReturns'
    BY <1>2, <2>2 DEF Unload, Delete, TailerReturns
  <2>. QED BY <1>1, <2>3, <2>4, <2>5, <2>7
<1>3. CASE Load(w)
  <2>1. TypeOK'
    BY <1>3 DEF Load, Restored, Side
  <2>2. HasWallet' /\ Locked' /\ HandlesBacked'
    BY <1>3 DEF Load
  <2>3. TailerReturns'
    BY <1>3 DEF Load, TailerReturns
  <2>. QED BY <1>1, <2>1, <2>2, <2>3
<1>. QED BY <1>2, <1>3

(* Requests on a wallet. *)
LEMMA WalletRequestStep ==
  ASSUME RegistryInv, NEW r \in Request,
         \/ \E w \in Wallet : CreateUniversal(r, w) \/ \E k \in Side \union {"send"} : Get(r, w, k)
         \/ LiveHandle(r) \/ NewAddress(r) \/ CountAddress(r) \/ Build(r)
  PROVE  RegistryInv'
<1>. USE RegistryAssumption
     DEF RegistryInv, TypeOK, HasWallet, Locked, HandlesBacked, tailVars, walletVars, Free, Registered
<1>1. TailerKept' /\ TailerReachable'
  BY DEF CreateUniversal, Get, LiveHandle, NewAddress, CountAddress, Build, TailerKept, TailerReachable
<1>2. ASSUME NEW w \in Wallet, CreateUniversal(r, w)
      PROVE  RegistryInv'
  <2>1. [pc |-> "got", wallet |-> w, kind |-> "mweb", live |-> FALSE] \in RequestState
    BY DEF RequestState, Side
  <2>2. TypeOK'
    BY <1>2, <2>1 DEF CreateUniversal, Restored, Side
  <2>3. HasWallet' /\ Locked' /\ HandlesBacked'
    BY <1>2 DEF CreateUniversal
  <2>4. TailerReturns'
    BY <1>2 DEF CreateUniversal, TailerReturns, ResyncSteps
  <2>. QED BY <1>1, <2>2, <2>3, <2>4
<1>3. ASSUME NEW w \in Wallet, NEW k \in Side \union {"send"}, Get(r, w, k)
      PROVE  RegistryInv'
  <2>1. \A pc \in {"sync", "got"} :
          [pc |-> pc, wallet |-> w, kind |-> k, live |-> FALSE] \in RequestState
    BY DEF RequestState, Side
  <2>2. TypeOK'
    BY <1>3, <2>1 DEF Get
  <2>3. HasWallet' /\ Locked' /\ HandlesBacked'
    BY <1>3 DEF Get
  <2>4. TailerReturns'
    BY <1>3 DEF Get, TailerReturns, ResyncSteps
  <2>. QED BY <1>1, <2>2, <2>3, <2>4
<1>4. CASE LiveHandle(r)
  <2>1. CASE status[req[r].wallet] = "unloaded"
    <3>1. End(r) /\ req[r].pc = "got"
      BY <1>4, <2>1 DEF LiveHandle
    <3>2. /\ req' \in [Request -> RequestState] /\ req'[r].pc = "idle" /\ ~req'[r].live
          /\ \A q \in Request \ {r} : req'[q] = req[q]
      BY <3>1, EndTyped
    <3>3. TypeOK' /\ HasWallet' /\ Locked' /\ HandlesBacked'
      BY <1>4, <3>1, <3>2 DEF LiveHandle
    <3>4. TailerReturns'
      BY <1>4, <3>1, <3>2 DEF LiveHandle, TailerReturns, ResyncSteps
    <3>. QED BY <1>1, <3>3, <3>4
  <2>2. CASE status[req[r].wallet] # "unloaded"
    <3>1. PICK b \in BOOLEAN : b = (status[req[r].wallet] = "loaded")
      OBVIOUS
    <3>2. req' = [req EXCEPT ![r].pc = "have", ![r].live = b]
      BY <1>4, <2>2, <3>1 DEF LiveHandle
    <3>4. /\ req' \in [Request -> RequestState]
          /\ req'[r].pc = "have" /\ req'[r].wallet = req[r].wallet /\ req'[r].live = b
          /\ \A q \in Request \ {r} : req'[q] = req[q]
      BY <3>2, LiveTyped
    <3>5. UNCHANGED <<chain, syncOp, desync, status, derived, count, mu, syncMu, tail, tailQuit, starting>>
      BY <1>4 DEF LiveHandle
    <3>7. TypeOK' /\ HasWallet' /\ Locked'
      BY <1>4, <3>4, <3>5 DEF LiveHandle
    <3>8. HandlesBacked'
      BY <3>1, <3>4, <3>5
    <3>6. TailerReturns'
      BY <1>4, <3>4 DEF LiveHandle, TailerReturns, ResyncSteps
    <3>. QED BY <1>1, <3>6, <3>7, <3>8
  <2>. QED BY <2>1, <2>2
<1>5. CASE (NewAddress(r) /\ End(r)) \/ CountAddress(r) \/ Build(r)
  <2>1. End(r) /\ req[r].pc \in {"have", "derived"} /\ req[r].wallet \in Wallet
    BY <1>5 DEF NewAddress, CountAddress, Build
  <2>2. /\ req' \in [Request -> RequestState] /\ req'[r].pc = "idle" /\ ~req'[r].live
        /\ \A q \in Request \ {r} : req'[q] = req[q]
    BY <2>1, EndTyped
  <2>3. derived' \in [Wallet -> [Side -> Nat]] /\ count' \in [Wallet -> Nat]
    BY <1>5, <2>1 DEF NewAddress, CountAddress, Build, Side
  <2>4. UNCHANGED <<chain, syncOp, desync, status, mu, syncMu, tail, tailQuit, starting>>
    BY <1>5 DEF NewAddress, CountAddress, Build
  <2>5. TypeOK' /\ HasWallet' /\ Locked'
    BY <2>1, <2>2, <2>3, <2>4
  <2>7. HandlesBacked'
    BY <2>1, <2>2, <2>4
  <2>6. TailerReturns'
    BY <2>1, <2>2, <2>4 DEF TailerReturns, ResyncSteps
  <2>. QED BY <1>1, <2>5, <2>6, <2>7
<1>6. CASE NewAddress(r) /\ Goto(r, "derived")
  <2>1. req[r].pc = "have" /\ req[r].wallet \in Wallet
    BY <1>6 DEF NewAddress
  <2>2. /\ req' \in [Request -> RequestState]
        /\ \A q \in Request : /\ req'[q].wallet = req[q].wallet /\ req'[q].live = req[q].live
                              /\ req'[q].pc = IF q = r THEN "derived" ELSE req[q].pc
    BY <1>6, GotoTyped DEF RequestPc
  <2>3. derived' \in [Wallet -> [Side -> Nat]]
    BY <1>6, <2>1 DEF NewAddress, Side
  <2>4. UNCHANGED <<chain, syncOp, desync, status, count, mu, syncMu, tail, tailQuit, starting>>
    BY <1>6 DEF NewAddress
  <2>5. TypeOK' /\ HasWallet' /\ Locked'
    BY <2>1, <2>2, <2>3, <2>4
  <2>7. HandlesBacked'
    BY <2>2, <2>4
  <2>6. TailerReturns'
    BY <2>1, <2>2, <2>4 DEF TailerReturns, ResyncSteps
  <2>. QED BY <1>1, <2>5, <2>6, <2>7
<1>7. NewAddress(r) => End(r) \/ Goto(r, "derived")
  BY DEF NewAddress
<1>. QED BY <1>2, <1>3, <1>4, <1>5, <1>6, <1>7


(* The syncs that requests wait for. *)
LEMMA RequestSyncStep ==
  ASSUME RegistryInv, NEW r \in Request, RequestSync(r) \/ RequestSynced(r)
  PROVE  RegistryInv'
<1>. USE RegistryAssumption
     DEF RegistryInv, TypeOK, HasWallet, Locked, HandlesBacked, tailVars, walletVars,
         RequestSync, RequestSynced
<1>1. TailerKept' /\ TailerReachable'
  BY DEF TailerKept, TailerReachable
<1>2. /\ req' \in [Request -> RequestState]
      /\ \A q \in Request \ {r} : req'[q] = req[q]
      /\ req'[r].pc \in {"idle", "syncing", "got"}
      /\ req'[r].pc = "idle" \/ req'[r].wallet = req[r].wallet
      /\ req'[r].live => req[r].live /\ req'[r].wallet = req[r].wallet
  <2>1. CASE End(r)
    BY <2>1, EndTyped
  <2>2. ASSUME NEW pc \in {"syncing", "got"}, Goto(r, pc)
        PROVE  <1>2!1 /\ <1>2!2 /\ <1>2!3 /\ <1>2!4 /\ <1>2!5
    <3>1. /\ req' \in [Request -> RequestState]
          /\ req'[r].wallet = req[r].wallet /\ req'[r].live = req[r].live /\ req'[r].pc = pc
      BY <2>2, GotoTyped DEF RequestPc
    <3>2. \A q \in Request \ {r} : req'[q] = req[q]
      BY <2>2 DEF Goto
    <3>. QED BY <3>1, <3>2
  <2>. QED BY <2>1, <2>2
<1>3. req[r].pc \in {"sync", "syncing"}
  OBVIOUS
<1>4. TypeOK'
  BY <1>2 DEF TakeSyncMu, DropSyncMu
<1>5. HasWallet'
  BY <1>2, <1>3
<1>6. Locked'
  BY <1>2, <1>3
<1>7. HandlesBacked'
  BY <1>2, <1>3 DEF TakeSyncMu, DropSyncMu
<1>8. TailerReturns'
  BY <1>2, <1>3 DEF TailerReturns, ResyncSteps
<1>. QED BY <1>1, <1>4, <1>5, <1>6, <1>7, <1>8

(* Resync. *)
LEMMA ResyncStep ==
  ASSUME RegistryInv, NEW r \in Request,
         \/ ResyncStop(r) \/ ResyncCloseWallets(r) \/ ResyncCloseChain(r)
         \/ ResyncReopen(r) \/ ResyncFails(r) \/ ResyncEnd(r)
  PROVE  RegistryInv'
<1>. USE RegistryAssumption
     DEF RegistryInv, TypeOK, HasWallet, Locked, HandlesBacked, tailVars, walletVars, Free, Registered
<1>1. CASE ResyncStop(r)
  <2>1. /\ req' \in [Request -> RequestState]
        /\ \A q \in Request : /\ req'[q].wallet = req[q].wallet /\ req'[q].live = req[q].live
                              /\ req'[q].pc = IF q = r THEN "resync" ELSE req[q].pc
    BY <1>1, GotoTyped DEF ResyncStop, RequestPc, ResyncSteps
  <2>2. /\ tail' \in [Tailer -> TailerState]
        /\ \A u \in Tailer : /\ tail'[u].pc = tail[u].pc
                             /\ tail'[u].quit = (tail[u].quit \/ u = tailQuit)
    BY <1>1, StopTyped DEF ResyncStop
  <2>3. TypeOK' /\ HasWallet' /\ Locked'
    BY <1>1, <2>1, <2>2 DEF ResyncStop, StopTailer
  <2>4. HandlesBacked'
    BY <1>1, <2>1 DEF ResyncStop
  <2>5. TailerKept' /\ TailerReachable'
    BY <1>1, <2>2 DEF ResyncStop, StopTailer, TailerKept, TailerReachable
  <2>6. TailerReturns'
    BY <1>1, <2>1 DEF ResyncStop, TailerReturns, ResyncSteps
  <2>. QED BY <2>3, <2>4, <2>5, <2>6
<1>2. CASE ResyncCloseWallets(r)
  <2>1. /\ Killed(Wallet) \in [Request -> RequestState]
        /\ \A q \in Request : /\ Killed(Wallet)[q].wallet = req[q].wallet
                              /\ Killed(Wallet)[q].pc = req[q].pc
                              /\ Killed(Wallet)[q].live = (req[q].live /\ req[q].wallet \notin Wallet)
    BY KilledTyped
  <2>2. [Killed(Wallet)[r] EXCEPT !.pc = "close"] \in RequestState
    <3>1. PICK k \in RequestState : k = Killed(Wallet)[r]
      BY <2>1
    <3>2. [k EXCEPT !.pc = "close"] \in RequestState
      BY DEF RequestState, ResyncSteps
    <3>. QED BY <3>1, <3>2
  <2>3. req' = [Killed(Wallet) EXCEPT ![r] = [Killed(Wallet)[r] EXCEPT !.pc = "close"]]
    BY <1>2 DEF ResyncCloseWallets
  <2>4. /\ req' \in [Request -> RequestState]
        /\ \A q \in Request : /\ req'[q].wallet = req[q].wallet /\ ~req'[q].live
                              /\ req'[q].pc = IF q = r THEN "close" ELSE req[q].pc
    BY <2>1, <2>2, <2>3 DEF RequestState
  <2>5. \A w \in Wallet : status'[w] # "loaded"
    BY <1>2 DEF ResyncCloseWallets
  <2>11. status' \in [Wallet -> {"new", "loaded", "unloaded", "deleted"}]
    BY <1>2 DEF ResyncCloseWallets
  <2>6. TypeOK'
    BY <1>2, <2>4, <2>11 DEF ResyncCloseWallets
  <2>12. HasWallet'
    BY <2>4
  <2>7. Locked'
    BY <1>2, <2>4, <2>5 DEF ResyncCloseWallets
  <2>8. HandlesBacked'
    BY <1>2, <2>4, <2>5 DEF ResyncCloseWallets
  <2>9. TailerKept' /\ TailerReachable'
    BY <1>2 DEF ResyncCloseWallets, TailerKept, TailerReachable
  <2>10. TailerReturns'
    BY <1>2, <2>4 DEF ResyncCloseWallets, TailerReturns, ResyncSteps
  <2>. QED BY <2>6, <2>7, <2>8, <2>9, <2>10, <2>12
<1>3. ASSUME NEW pc \in {"reopen", "bootstrap"}, Goto(r, pc),
             \/ ResyncCloseChain(r) /\ pc = "reopen"
             \/ ResyncReopen(r) /\ pc = "bootstrap"
      PROVE  RegistryInv'
  <2>1. /\ req' \in [Request -> RequestState]
        /\ \A q \in Request : /\ req'[q].wallet = req[q].wallet /\ req'[q].live = req[q].live
                              /\ req'[q].pc = IF q = r THEN pc ELSE req[q].pc
    BY <1>3, GotoTyped DEF RequestPc, ResyncSteps
  <2>2. mu = r /\ UNCHANGED <<mu, tailVars, syncMu, count, desync>>
    BY <1>3 DEF ResyncCloseChain, ResyncReopen
  <2>8. /\ chain' \in {"open", "closed"} /\ syncOp' \in BOOLEAN
        /\ status' \in [Wallet -> {"new", "loaded", "unloaded", "deleted"}]
    BY <1>3 DEF ResyncCloseChain, ResyncReopen
  <2>9. derived' \in [Wallet -> [Side -> Nat]]
    BY <1>3 DEF ResyncCloseChain, ResyncReopen, Restored, Side
  <2>3. TypeOK'
    BY <2>1, <2>2, <2>8, <2>9
  <2>4. HasWallet' /\ Locked'
    BY <1>3, <2>1, <2>2 DEF ResyncCloseChain
  <2>5. HandlesBacked'
    <3>1. \A w \in Wallet : status[w] # "loaded"
      BY <1>3 DEF ResyncCloseChain, ResyncReopen
    <3>2. \A q \in Request : ~req'[q].live
      BY <2>1, <3>1
    <3>. QED BY <1>3, <3>1, <3>2 DEF ResyncCloseChain, ResyncReopen
  <2>6. TailerKept' /\ TailerReachable'
    BY <2>2 DEF TailerKept, TailerReachable
  <2>7. TailerReturns'
    BY <1>3, <2>1, <2>2 DEF TailerReturns, ResyncSteps
  <2>. QED BY <2>3, <2>4, <2>5, <2>6, <2>7
<1>4. CASE ResyncFails(r) \/ ResyncEnd(r)
  <2>1. /\ req' \in [Request -> RequestState] /\ req'[r].pc = "idle" /\ ~req'[r].live
        /\ \A q \in Request \ {r} : req'[q] = req[q]
    BY <1>4, EndTyped DEF ResyncFails, ResyncEnd
  <2>2. mu = r
    BY <1>4 DEF ResyncFails, ResyncEnd
  <2>3. TypeOK' /\ HasWallet' /\ Locked'
    BY <1>4, <2>1, <2>2 DEF ResyncFails, ResyncEnd
  <2>4. HandlesBacked'
    BY <1>4, <2>1 DEF ResyncFails, ResyncEnd
  <2>5. TailerKept' /\ TailerReachable'
    BY <1>4 DEF ResyncFails, ResyncEnd, TailerKept, TailerReachable
  <2>6. TailerReturns'
    <3>1. CASE ResyncFails(r)
      BY <3>1 DEF ResyncFails, TailerReturns
    <3>2. CASE ResyncEnd(r)
      <4>1. starting' > 0
        BY <3>2 DEF ResyncEnd
      <4>. QED BY <4>1 DEF TailerReturns
    <3>. QED BY <1>4, <3>1, <3>2
  <2>. QED BY <2>3, <2>4, <2>5, <2>6
<1>5. CASE ResyncCloseChain(r)
  <2>1. Goto(r, "reopen")
    BY <1>5 DEF ResyncCloseChain
  <2>. QED BY <1>3, <1>5, <2>1
<1>6. CASE ResyncReopen(r)
  <2>1. Goto(r, "bootstrap")
    BY <1>6 DEF ResyncReopen
  <2>. QED BY <1>3, <1>6, <2>1
<1>. QED BY <1>1, <1>2, <1>4, <1>5, <1>6

(* The tailers. *)
LEMMA TailerStep ==
  ASSUME RegistryInv,
         StartTailer \/ \E t \in Tailer : TailerGoesOn(t) \/ Quit(t)
  PROVE  RegistryInv'
<1>. USE RegistryAssumption
     DEF RegistryInv, TypeOK, HasWallet, Locked, HandlesBacked, walletVars
<1>1. CASE StartTailer
  <2>1. CASE tailQuit # NoOne
    <3>1. \E t \in Tailer : tail[t].pc # "none" /\ ~tail[t].quit
      BY <2>1 DEF TailerKept
    <3>. QED
      BY <1>1, <2>1, <3>1 DEF StartTailer, TailerKept, TailerReachable, TailerReturns
  <2>2. CASE tailQuit = NoOne
    <3>1. PICK t \in Tailer :
            tail[t].pc = "none" /\ TailGoto(t, "wait") /\ tailQuit' = t
      BY <1>1, <2>2 DEF StartTailer, TailGoto
    <3>2. ~tail[t].quit
      BY <3>1 DEF TailerKept
    <3>3. /\ tail' \in [Tailer -> TailerState]
          /\ \A u \in Tailer : /\ tail'[u].quit = tail[u].quit
                               /\ tail'[u].pc = IF u = t THEN "wait" ELSE tail[u].pc
      BY <3>1, TailGotoTyped DEF TailerPc
    <3>4. /\ starting' \in Nat
          /\ UNCHANGED <<chain, syncOp, desync, status, derived, count, req, mu, syncMu>>
      BY <1>1 DEF StartTailer
    <3>5. TypeOK' /\ HasWallet' /\ Locked' /\ HandlesBacked'
      BY <3>1, <3>3, <3>4
    <3>6. TailerKept' /\ TailerReachable'
      BY <2>2, <3>1, <3>2, <3>3 DEF TailerKept, TailerReachable
    <3>7. TailerReturns'
      BY <3>1, <3>2, <3>3 DEF TailerReturns
    <3>. QED BY <3>5, <3>6, <3>7
  <2>. QED BY <2>1, <2>2
<1>2. ASSUME NEW t \in Tailer, TailerGoesOn(t) \/ Quit(t),
             NEW pc \in TailerPc \ {"none"}, TailGoto(t, pc), tail[t].pc # "none"
      PROVE  RegistryInv'
  <2>1. /\ tail' \in [Tailer -> TailerState]
        /\ \A u \in Tailer : /\ tail'[u].quit = tail[u].quit
                             /\ tail'[u].pc = IF u = t THEN pc ELSE tail[u].pc
    BY <1>2, TailGotoTyped
  <2>2. /\ UNCHANGED <<chain, status, derived, count, req, mu, tailQuit, starting>>
        /\ desync' \in BOOLEAN
    BY <1>2 DEF TailerGoesOn, Quit, Tick, CheckIntegrity, TailSync, TailSynced, MarkDesync,
                TailMempool, TailListed
  <2>5. /\ syncMu' \in {syncMu, t, NoOne} /\ syncOp' \in BOOLEAN
        /\ syncOp' => chain = "open" /\ syncMu' # NoOne
    <3>1. CASE UNCHANGED <<syncMu, syncOp>>
      BY <3>1
    <3>2. CASE TakeSyncMu(t) \/ DropSyncMu(t)
      BY <3>2 DEF TakeSyncMu, DropSyncMu
    <3>. QED
      BY <1>2, <3>1, <3>2 DEF TailerGoesOn, Quit, Tick, CheckIntegrity, TailSync, TailSynced,
                              MarkDesync, TailMempool, TailListed
  <2>3. TypeOK' /\ HasWallet' /\ Locked' /\ HandlesBacked'
    BY <2>1, <2>2, <2>5
  <2>4. TailerKept' /\ TailerReachable' /\ TailerReturns'
    BY <1>2, <2>1, <2>2 DEF TailerKept, TailerReachable, TailerReturns, TailerPc
  <2>. QED BY <2>3, <2>4
<1>3. ASSUME NEW t \in Tailer, TailSynced(t) \/ Quit(t), tail[t].quit,
             tail' = [tail EXCEPT ![t] = Ended]
      PROVE  RegistryInv'
  <2>1. /\ tail' \in [Tailer -> TailerState]
        /\ tail'[t].pc = "none" /\ ~tail'[t].quit
        /\ \A u \in Tailer \ {t} : tail'[u] = tail[u]
    BY <1>3, EndedTyped
  <2>2. UNCHANGED <<chain, desync, status, derived, count, req, mu, tailQuit, starting>>
    BY <1>3 DEF Quit, TailSynced
  <2>5. /\ syncMu' \in {syncMu, NoOne} /\ syncOp' \in BOOLEAN
        /\ syncOp' => chain = "open" /\ syncMu' # NoOne
    <3>1. CASE UNCHANGED <<syncMu, syncOp>>
      BY <3>1
    <3>2. CASE DropSyncMu(t)
      BY <3>2 DEF DropSyncMu
    <3>. QED BY <1>3, <3>1, <3>2 DEF Quit, TailSynced
  <2>3. TypeOK' /\ HasWallet' /\ Locked' /\ HandlesBacked'
    BY <2>1, <2>2, <2>5
  <2>4. TailerKept' /\ TailerReachable' /\ TailerReturns'
    BY <1>3, <2>1, <2>2 DEF TailerKept, TailerReachable, TailerReturns
  <2>. QED BY <2>3, <2>4
<1>4. ASSUME NEW t \in Tailer, TailerGoesOn(t) \/ Quit(t)
      PROVE  \/ tail[t].pc # "none" /\ \E pc \in TailerPc \ {"none"} : TailGoto(t, pc)
             \/ /\ TailSynced(t) \/ Quit(t)
                /\ tail[t].quit /\ tail' = [tail EXCEPT ![t] = Ended]
  <2>1. CASE TailSynced(t) /\ Partial(t)
    <3>1. CASE tail[t].quit
      BY <2>1, <3>1 DEF TailSynced, Partial
    <3>2. CASE ~tail[t].quit
      BY <2>1, <3>2 DEF TailSynced, Partial, TailGoto, TailerPc
    <3>. QED BY <3>1, <3>2
  <2>2. CASE ~(TailSynced(t) /\ Partial(t))
    BY <1>4, <2>2 DEF TailerGoesOn, Quit, Tick, CheckIntegrity, TailSync, TailSynced, MarkDesync,
                      TailMempool, TailListed, TailerPc
  <2>. QED BY <2>1, <2>2
<1>5. ASSUME NEW t \in Tailer, TailerGoesOn(t) \/ Quit(t)
      PROVE  RegistryInv'
  BY <1>2, <1>3, <1>4, <1>5
<1>. QED BY <1>1, <1>5

(* Whatever wallets, requests and tailers do, the invariant is kept. *)
LEMMA RegistryInvariant == Spec => []RegistryInv
<1>1. RegistryInv /\ [Next]_vars => RegistryInv'
  <2>1. CASE UNCHANGED vars
    BY <2>1 DEF vars, walletVars, tailVars, RegistryInv, TypeOK, HasWallet, Locked, HandlesBacked,
                TailerKept, TailerReachable, TailerReturns, Registered
  <2>. QED
    BY <2>1, LifecycleStep, WalletRequestStep, RequestSyncStep, ResyncStep, TailerStep
       DEF Next, RequestGoesOn
<1>. QED BY InitRegistry, <1>1, PTL DEF Spec

(* TypeOK: every variable keeps its type. *)
THEOREM RegistryTyped == Spec => []TypeOK
BY RegistryInvariant, PTL DEF RegistryInv

(* HandlesBacked: no handle or op outlives the chain or wallet it is of,   *)
(* whatever Unload, Delete and Resync do meanwhile.                        *)
THEOREM HandlesStayBacked == Spec => []HandlesBacked
BY RegistryInvariant, PTL DEF RegistryInv

(* TailerReachable: at most one tailer goes on, and StopTailer reaches it. *)
THEOREM OneTailer == Spec => []TailerReachable
BY RegistryInvariant, PTL DEF RegistryInv

(* TailerReturns: Resyncs, however they overlap, leave a tailer.           *)
THEOREM TailerComesBack == Spec => []TailerReturns
BY RegistryInvariant, PTL DEF RegistryInv

-----------------------------------------------------------------------------
(* The count of a wallet's MWEB addresses.                                 *)

Counting(w) == {r \in Request : req[r].pc = "derived" /\ req[r].wallet = w}

LEMMA CountingFinite ==
  ASSUME NEW w
  PROVE  IsFiniteSet(Counting(w)) /\ Cardinality(Counting(w)) \in Nat
<1>1. Counting(w) \subseteq Request
  BY DEF Counting
<1>. QED BY <1>1, RequestsFinite, FS_Subset, FS_CardinalityType

(* A step that leaves the counts and who is about to count, and gives a    *)
(* wallet no MWEB address but those it is reopened with.                   *)
LEMMA NothingDerived ==
  ASSUME TypeOK, AddressesCounted, UNCHANGED count,
         \A q \in Request : \/ req'[q].pc = req[q].pc /\ req'[q].wallet = req[q].wallet
                            \/ req'[q].pc # "derived" /\ req[q].pc # "derived",
         \A w \in Wallet : status'[w] = "loaded" =>
           \/ status[w] = "loaded" /\ derived'[w]["mweb"] = derived[w]["mweb"]
           \/ derived'[w]["mweb"] = count[w]
  PROVE  AddressesCounted'
<1>. SUFFICES ASSUME NEW w \in Wallet, status'[w] = "loaded"
              PROVE  derived'[w]["mweb"] <= count'[w] + Cardinality(Counting(w)')
  BY DEF AddressesCounted, Counting
<1>1. Counting(w)' = Counting(w)
  BY DEF Counting
<1>2. Cardinality(Counting(w)) \in Nat /\ count[w] \in Nat
  BY CountingFinite DEF TypeOK
<1>3. status[w] = "loaded" => derived[w]["mweb"] <= count[w] + Cardinality(Counting(w))
  BY DEF AddressesCounted, Counting
<1>. QED BY <1>1, <1>2, <1>3

(* A request derives an MWEB address and is about to count it. *)
LEMMA DerivedOne ==
  ASSUME RegistryInv, AddressesCounted, NEW r \in Request, NewAddress(r), Goto(r, "derived")
  PROVE  AddressesCounted'
<1>. USE DEF RegistryInv, TypeOK
<1>1. /\ req[r].pc = "have" /\ req[r].kind = "mweb" /\ req[r].live
      /\ req[r].wallet \in Wallet
      /\ UNCHANGED <<status, count>>
  BY DEF NewAddress, End, Goto, Idle, Side, HasWallet
<1>2. \A q \in Request : /\ req'[q].wallet = req[q].wallet
                         /\ req'[q].pc = IF q = r THEN "derived" ELSE req[q].pc
  BY GotoTyped DEF RequestPc
<1>. SUFFICES ASSUME NEW w \in Wallet, status'[w] = "loaded"
              PROVE  derived'[w]["mweb"] <= count'[w] + Cardinality(Counting(w)')
  BY DEF AddressesCounted, Counting
<1>3. derived[w]["mweb"] <= count[w] + Cardinality(Counting(w))
  BY <1>1 DEF AddressesCounted, Counting
<1>4. /\ IsFiniteSet(Counting(w)) /\ Cardinality(Counting(w)) \in Nat
      /\ count[w] \in Nat /\ derived[w]["mweb"] \in Nat
  BY CountingFinite DEF Side
<1>5. CASE w = req[r].wallet
  <2>1. Counting(w)' = Counting(w) \union {r} /\ r \notin Counting(w)
    BY <1>1, <1>2, <1>5 DEF Counting
  <2>2. Cardinality(Counting(w)') = Cardinality(Counting(w)) + 1
    BY <1>4, <2>1, FS_AddElement
  <2>3. derived'[w]["mweb"] = derived[w]["mweb"] + 1
    BY <1>1, <1>5 DEF NewAddress, Side
  <2>. QED BY <1>1, <1>3, <1>4, <2>2, <2>3
<1>6. CASE w # req[r].wallet
  <2>1. Counting(w)' = Counting(w)
    BY <1>1, <1>2, <1>6 DEF Counting
  <2>2. derived'[w] = derived[w]
    BY <1>1, <1>6 DEF NewAddress
  <2>. QED BY <1>1, <1>3, <2>1, <2>2
<1>. QED BY <1>5, <1>6

(* And counts it. *)
LEMMA CountedOne ==
  ASSUME RegistryInv, AddressesCounted, NEW r \in Request, CountAddress(r)
  PROVE  AddressesCounted'
<1>. USE DEF RegistryInv, TypeOK
<1>1. /\ req[r].pc = "derived" /\ req[r].wallet \in Wallet
      /\ UNCHANGED <<status, derived>>
  BY DEF CountAddress, HasWallet
<1>2. req'[r].pc = "idle" /\ \A q \in Request \ {r} : req'[q] = req[q]
  BY EndTyped DEF CountAddress
<1>. SUFFICES ASSUME NEW w \in Wallet, status'[w] = "loaded"
              PROVE  derived'[w]["mweb"] <= count'[w] + Cardinality(Counting(w)')
  BY DEF AddressesCounted, Counting
<1>3. derived[w]["mweb"] <= count[w] + Cardinality(Counting(w))
  BY <1>1 DEF AddressesCounted, Counting
<1>4. /\ IsFiniteSet(Counting(w)) /\ Cardinality(Counting(w)) \in Nat
      /\ count[w] \in Nat /\ derived[w]["mweb"] \in Nat
  BY CountingFinite DEF Side
<1>5. CASE w = req[r].wallet
  <2>1. Counting(w)' = Counting(w) \ {r} /\ r \in Counting(w)
    BY <1>1, <1>2, <1>5 DEF Counting
  <2>2. Cardinality(Counting(w)') = Cardinality(Counting(w)) - 1
    BY <1>4, <2>1, FS_RemoveElement
  <2>3. count'[w] = count[w] + 1
    BY <1>1, <1>5 DEF CountAddress
  <2>. QED BY <1>1, <1>3, <1>4, <2>2, <2>3
<1>6. CASE w # req[r].wallet
  <2>1. Counting(w)' = Counting(w)
    BY <1>1, <1>2, <1>6 DEF Counting
  <2>2. count'[w] = count[w]
    BY <1>1, <1>6 DEF CountAddress
  <2>. QED BY <1>1, <1>3, <2>1, <2>2
<1>. QED BY <1>5, <1>6

(* All other steps. *)
LEMMA CountedStep ==
  ASSUME RegistryInv, AddressesCounted, [Next]_vars
  PROVE  AddressesCounted'
<1>. USE DEF RegistryInv, walletVars, tailVars
<1>1. CASE UNCHANGED vars
  BY <1>1, NothingDerived DEF vars
<1>2. ASSUME NEW w \in Wallet, Unload(w) \/ Load(w) \/ Delete(w)
      PROVE  AddressesCounted'
  <2>1. UNCHANGED count
    BY <1>2 DEF Unload, Load, Delete
  <2>2. \A q \in Request : req'[q].pc = req[q].pc /\ req'[q].wallet = req[q].wallet
    <3>1. CASE req' = Killed({w})
      BY <3>1, KilledTyped DEF TypeOK
    <3>. QED BY <1>2, <3>1 DEF Unload, Load, Delete
  <2>3. \A v \in Wallet : status'[v] = "loaded" =>
          \/ status[v] = "loaded" /\ derived'[v]["mweb"] = derived[v]["mweb"]
          \/ derived'[v]["mweb"] = count[v]
    BY <1>2 DEF Unload, Load, Delete, Restored, TypeOK
  <2>. QED BY <2>1, <2>2, <2>3, NothingDerived
<1>3. ASSUME NEW r \in Request, NEW w \in Wallet,
             CreateUniversal(r, w) \/ \E k \in Side \union {"send"} : Get(r, w, k)
      PROVE  AddressesCounted'
  <2>1. UNCHANGED count
    BY <1>3 DEF CreateUniversal, Get
  <2>2. \A q \in Request : \/ req'[q].pc = req[q].pc /\ req'[q].wallet = req[q].wallet
                           \/ req'[q].pc # "derived" /\ req[q].pc # "derived"
    BY <1>3 DEF CreateUniversal, Get, TypeOK
  <2>3. \A v \in Wallet : status'[v] = "loaded" =>
          \/ status[v] = "loaded" /\ derived'[v]["mweb"] = derived[v]["mweb"]
          \/ derived'[v]["mweb"] = count[v]
    BY <1>3 DEF CreateUniversal, Get, Restored, TypeOK
  <2>. QED BY <2>1, <2>2, <2>3, NothingDerived
<1>4. ASSUME NEW r \in Request,
             \/ LiveHandle(r) \/ (NewAddress(r) /\ End(r)) \/ Build(r)
             \/ RequestSync(r) \/ RequestSynced(r)
             \/ ResyncStop(r) \/ ResyncCloseWallets(r) \/ ResyncCloseChain(r)
             \/ ResyncReopen(r) \/ ResyncFails(r) \/ ResyncEnd(r)
      PROVE  AddressesCounted'
  <2>1. UNCHANGED count
    BY <1>4 DEF LiveHandle, NewAddress, Build, RequestSync, RequestSynced, ResyncStop,
                ResyncCloseWallets, ResyncCloseChain, ResyncReopen, ResyncFails, ResyncEnd
  <2>2. /\ req[r].pc # "derived"
        /\ \/ End(r)
           \/ \E pc \in RequestPc \ {"derived"} : Goto(r, pc)
           \/ LiveHandle(r) /\ req' = [req EXCEPT ![r].pc = "have",
                                                  ![r].live = status[req[r].wallet] = "loaded"]
           \/ ResyncCloseWallets(r)
    BY <1>4 DEF LiveHandle, NewAddress, Build, RequestSync, RequestSynced, ResyncStop,
                ResyncCloseWallets, ResyncCloseChain, ResyncReopen, ResyncFails, ResyncEnd,
                RequestPc, ResyncSteps
  <2>3. \A q \in Request : \/ req'[q].pc = req[q].pc /\ req'[q].wallet = req[q].wallet
                           \/ req'[q].pc # "derived" /\ req[q].pc # "derived"
    <3>1. CASE End(r)
      BY <2>2, <3>1, EndTyped DEF TypeOK
    <3>2. ASSUME NEW pc \in RequestPc \ {"derived"}, Goto(r, pc)
          PROVE  <2>3
      BY <2>2, <3>2, GotoTyped DEF TypeOK
    <3>3. CASE LiveHandle(r) /\ req' = [req EXCEPT ![r].pc = "have",
                                                   ![r].live = status[req[r].wallet] = "loaded"]
      <4>1. PICK b \in BOOLEAN : b = (status[req[r].wallet] = "loaded")
        OBVIOUS
      <4>. QED BY <2>2, <3>3, <4>1, LiveTyped DEF TypeOK
    <3>4. CASE ResyncCloseWallets(r)
      <4>1. \A q \in Request : Killed(Wallet)[q].wallet = req[q].wallet /\ Killed(Wallet)[q].pc = req[q].pc
        BY KilledTyped DEF TypeOK
      <4>2. Killed(Wallet) \in [Request -> RequestState]
        BY KilledTyped DEF TypeOK
      <4>3. req'[r].pc = "close" /\ \A q \in Request \ {r} : req'[q] = Killed(Wallet)[q]
        BY <3>4, <4>2 DEF ResyncCloseWallets, RequestState
      <4>. QED BY <2>2, <4>1, <4>3
    <3>. QED BY <2>2, <3>1, <3>2, <3>3, <3>4
  <2>4. \A v \in Wallet : status'[v] = "loaded" =>
          \/ status[v] = "loaded" /\ derived'[v]["mweb"] = derived[v]["mweb"]
          \/ derived'[v]["mweb"] = count[v]
    <3>1. CASE NewAddress(r) /\ End(r)
      <4>1. req[r].live => req[r].kind # "mweb"
        BY <3>1 DEF NewAddress, End, Goto, Idle, TypeOK
      <4>. QED BY <3>1, <4>1 DEF NewAddress, Side, TypeOK
    <3>2. CASE Build(r)
      BY <3>2 DEF Build, Side, TypeOK
    <3>3. CASE ResyncCloseWallets(r) \/ ResyncReopen(r)
      BY <3>3 DEF ResyncCloseWallets, ResyncReopen, Registered, Restored, TypeOK
    <3>. QED
      BY <1>4, <3>1, <3>2, <3>3
         DEF LiveHandle, RequestSync, RequestSynced, ResyncStop, ResyncCloseChain, ResyncFails, ResyncEnd
  <2>. QED BY <2>1, <2>3, <2>4, NothingDerived
<1>5. ASSUME StartTailer \/ \E t \in Tailer : TailerGoesOn(t) \/ Quit(t)
      PROVE  AddressesCounted'
  <2>1. UNCHANGED <<status, derived, count, req>>
    BY <1>5 DEF StartTailer, TailerGoesOn, Quit, Tick, CheckIntegrity, TailSync, TailSynced,
                MarkDesync, TailMempool, TailListed
  <2>. QED BY <2>1, NothingDerived
<1>6. ASSUME NEW r \in Request, NewAddress(r)
      PROVE  End(r) \/ Goto(r, "derived")
  BY <1>6 DEF NewAddress
<1>7. ASSUME NEW r \in Request, RequestGoesOn(r) \/ ResyncStop(r)
      PROVE  AddressesCounted'
  BY <1>4, <1>6, <1>7, DerivedOne, CountedOne DEF RequestGoesOn
<1>. QED BY <1>1, <1>2, <1>3, <1>5, <1>7 DEF Next

(* AddressesCounted: reopening a wallet derives all its MWEB addresses but *)
(* those that requests are just about to count.                            *)
THEOREM MwebAddressesCounted == Spec => []AddressesCounted
<1>1. Init => AddressesCounted
  BY DEF Init, AddressesCounted
<1>2. RegistryInv /\ AddressesCounted /\ [Next]_vars => AddressesCounted'
  BY CountedStep
<1>. QED BY RegistryInvariant, <1>1, <1>2, PTL DEF Spec

=============================================================================
