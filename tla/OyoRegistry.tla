---------------------------- MODULE OyoRegistry ----------------------------
(***************************************************************************)
(* The wallet registry of the server: the handles of its wallets and the   *)
(* addresses they get back, the tailer goroutines, and Resync, which       *)
(* replaces the chain below all of them.                                   *)
(*                                                                         *)
(* A step is a stretch that holds r.mu or the engine's mutex, or one call  *)
(* to the node.  Wallets are universal: regular and MWEB ones are one side *)
(* of them.                                                                *)
(***************************************************************************)
EXTENDS Naturals, FiniteSets

CONSTANTS
  Wallet,       \* wallets, each with a name of its own
  Request,      \* goroutines of requests
  Tailer,       \* goroutines of StartTailer
  Preallocated, \* addressCount
  MaxAddress,   \* bound on the addresses derived on a handle
  MaxStarting,  \* bound on the calls of StartTailer that wait
  NoOne

Side == {"mweb", "canonical"}

ASSUME RegistryAssumption ==
  /\ Request \cap Tailer = {}
  /\ NoOne \notin Wallet \union Request \union Tailer
  /\ Preallocated \in Nat \ {0} /\ MaxAddress \in Nat /\ MaxStarting \in Nat

ASSUME RequestsFinite == IsFiniteSet(Request)

VARIABLES
  chain,    \* r.chain: "open" or "closed"
  syncOp,   \* the op of the holder of syncMu is alive
  desync,
  status,   \* of each wallet: "new", "loaded", "unloaded" or "deleted"
  derived,  \* addresses on its handle, or on its last one, per side
  count,    \* mwebAddressCount
  req,      \* what each request is about
  mu,       \* the Resync that holds r.mu, or NoOne
  syncMu,   \* who holds it, or NoOne
  tail,     \* where each tailer stands
  tailQuit, \* the tailer whose quit channel r.tailQuit is, or NoOne
  starting  \* StartTailer calls Resync has left to the scheduler

walletVars == <<status, derived, count>>
tailVars   == <<tail, tailQuit, starting>>
vars == <<chain, syncOp, desync, walletVars, req, mu, syncMu, tailVars>>

Idle  == [pc |-> "idle", wallet |-> NoOne, kind |-> "none", live |-> FALSE]
Ended == [pc |-> "none", quit |-> FALSE]

Free == mu = NoOne

Registered(w) == status[w] \in {"loaded", "unloaded"}
(* What reopenWalletLocked derives again. *)
Restored(w) == [mweb |-> count[w], canonical |-> Preallocated]

(* The handles and ops that requests have of the wallets W are dead. *)
Killed(W) ==
  [r \in Request |-> IF req[r].wallet \in W THEN [req[r] EXCEPT !.live = FALSE] ELSE req[r]]

Goto(r, pc) == req' = [req EXCEPT ![r].pc = pc]
End(r)      == req' = [req EXCEPT ![r] = Idle]

-----------------------------------------------------------------------------
(* Lifecycle.                                                              *)

(* The handler goes on to derive the first MWEB address. *)
CreateUniversal(r, w) ==
  /\ req[r].pc = "idle"
  /\ Free /\ chain = "open"
  /\ status[w] = "new"
  /\ status' = [status EXCEPT ![w] = "loaded"]
  /\ derived' = [derived EXCEPT ![w] = Restored(w)]
  /\ req' = [req EXCEPT ![r] = [pc |-> "got", wallet |-> w, kind |-> "mweb", live |-> FALSE]]
  /\ UNCHANGED <<chain, syncOp, desync, count, mu, syncMu, tailVars>>

Unload(w) ==
  /\ Free
  /\ status[w] = "loaded"
  /\ status' = [status EXCEPT ![w] = "unloaded"]
  /\ req' = Killed({w})
  /\ UNCHANGED <<chain, syncOp, desync, derived, count, mu, syncMu, tailVars>>

(* A slip: Load is kept from a Resync by the wallet's mutex alone. *)
LoadUnlocked(w) ==
  /\ chain = "open"
  /\ status[w] = "unloaded"
  /\ status' = [status EXCEPT ![w] = "loaded"]
  /\ derived' = [derived EXCEPT ![w] = Restored(w)]
  /\ UNCHANGED <<chain, syncOp, desync, count, req, mu, syncMu, tailVars>>

Load(w) ==
  /\ Free /\ chain = "open"
  /\ status[w] = "unloaded"
  /\ status' = [status EXCEPT ![w] = "loaded"]
  /\ derived' = [derived EXCEPT ![w] = Restored(w)]
  /\ UNCHANGED <<chain, syncOp, desync, count, req, mu, syncMu, tailVars>>

Delete(w) ==
  /\ Free
  /\ Registered(w)
  /\ status' = [status EXCEPT ![w] = "deleted"]
  /\ req' = Killed({w})
  /\ UNCHANGED <<chain, syncOp, desync, derived, count, mu, syncMu, tailVars>>

-----------------------------------------------------------------------------
(* Requests on a wallet.  The handle is fetched under the wallet's mutex   *)
(* and used without.                                                       *)

Get(r, w, k) ==
  /\ req[r].pc = "idle"
  /\ Free
  /\ Registered(w)
  /\ req' = [req EXCEPT ![r] = [pc |-> IF k = "send" THEN "sync" ELSE "got",
                                wallet |-> w, kind |-> k, live |-> FALSE]]
  /\ UNCHANGED <<chain, syncOp, desync, walletVars, mu, syncMu, tailVars>>

(* A deleted wallet still says it is loaded. *)
LiveHandle(r) ==
  /\ req[r].pc = "got"
  /\ IF status[req[r].wallet] = "unloaded"
     THEN End(r)
     ELSE req' = [req EXCEPT ![r].pc = "have", ![r].live = status[req[r].wallet] = "loaded"]
  /\ UNCHANGED <<chain, syncOp, desync, walletVars, mu, syncMu, tailVars>>

(* A slip: an address of the only side is not counted as one of it. *)
NewAddressUncounted(r) ==
  LET w == req[r].wallet
      s == req[r].kind
  IN
  /\ req[r].pc = "have" /\ s \in Side
  /\ IF req[r].live
     THEN derived[w][s] < MaxAddress /\ derived' = [derived EXCEPT ![w][s] = @ + 1]
     ELSE UNCHANGED derived
  /\ End(r)
  /\ UNCHANGED <<chain, syncOp, desync, status, count, mu, syncMu, tailVars>>

NewAddress(r) ==
  LET w == req[r].wallet
      s == req[r].kind
  IN
  /\ req[r].pc = "have"
  /\ s \in Side
  /\ IF req[r].live
     THEN /\ derived[w][s] < MaxAddress
          /\ derived' = [derived EXCEPT ![w][s] = @ + 1]
          /\ IF s = "mweb" THEN Goto(r, "derived") ELSE End(r)
     ELSE End(r) /\ UNCHANGED derived
  /\ UNCHANGED <<chain, syncOp, desync, status, count, mu, syncMu, tailVars>>

CountAddress(r) ==
  /\ req[r].pc = "derived"
  /\ count' = [count EXCEPT ![req[r].wallet] = @ + 1]
  /\ End(r)
  /\ UNCHANGED <<chain, syncOp, desync, status, derived, mu, syncMu, tailVars>>

(* A slip: a send that fails gives back a change address it may not have  *)
(* derived.                                                                *)
BuildGivesBack(r) ==
  LET w == req[r].wallet IN
  /\ req[r].pc = "have" /\ req[r].kind = "send"
  /\ derived' = [derived EXCEPT ![w]["canonical"] = @ - 1]
  /\ End(r)
  /\ UNCHANGED <<chain, syncOp, desync, status, count, mu, syncMu, tailVars>>

(* The op of a send builds the transaction; one with change derives an     *)
(* address for it.  An op is gone with its handle.                         *)
Build(r) ==
  LET w == req[r].wallet IN
  /\ req[r].pc = "have"
  /\ req[r].kind = "send"
  /\ \/ /\ req[r].live
        /\ derived[w]["canonical"] < MaxAddress
        /\ derived' = [derived EXCEPT ![w]["canonical"] = @ + 1]
     \/ UNCHANGED derived
  /\ End(r)
  /\ UNCHANGED <<chain, syncOp, desync, status, count, mu, syncMu, tailVars>>

-----------------------------------------------------------------------------
(* SyncOnce and MempoolSyncOnce: r.chain is read under syncMu, not under   *)
(* r.mu.                                                                   *)

TakeSyncMu(x) ==
  /\ syncMu = NoOne
  /\ chain = "open"
  /\ syncMu' = x
  /\ syncOp' = TRUE

DropSyncMu(x) ==
  /\ syncMu = x
  /\ syncMu' = NoOne
  /\ syncOp' = FALSE

RequestSync(r) ==
  /\ req[r].pc = "sync"
  /\ \/ TakeSyncMu(r) /\ Goto(r, "syncing")
     \/ chain # "open" /\ syncMu = NoOne /\ End(r) /\ UNCHANGED <<syncMu, syncOp>>
  /\ UNCHANGED <<chain, desync, walletVars, mu, tailVars>>

(* Only the queue goes on after a failure. *)
RequestSynced(r) ==
  /\ req[r].pc = "syncing"
  /\ DropSyncMu(r)
  /\ Goto(r, "got") \/ End(r)
  /\ UNCHANGED <<chain, desync, walletVars, mu, tailVars>>

-----------------------------------------------------------------------------
(* The tailer.                                                             *)

TailGoto(t, pc) == tail' = [tail EXCEPT ![t].pc = pc]

(* A slip: whether a tailer runs is not asked. *)
StartTailerAnyway ==
  /\ starting > 0 /\ Free
  /\ starting' = starting - 1
  /\ \E t \in Tailer :
       /\ tail[t].pc = "none"
       /\ tail' = [tail EXCEPT ![t].pc = "wait"]
       /\ tailQuit' = t
  /\ UNCHANGED <<chain, syncOp, desync, walletVars, req, mu, syncMu>>

StartTailer ==
  /\ starting > 0
  /\ Free
  /\ starting' = starting - 1
  /\ IF tailQuit = NoOne
     THEN \E t \in Tailer :
            /\ tail[t].pc = "none"
            /\ tail' = [tail EXCEPT ![t].pc = "wait"]
            /\ tailQuit' = t
     ELSE UNCHANGED <<tail, tailQuit>>
  /\ UNCHANGED <<chain, syncOp, desync, walletVars, req, mu, syncMu>>

(* Of a tick and a closed channel select takes either.  The node is asked  *)
(* for its genesis; a call that fails lets the sync go on.                 *)
Tick(t) ==
  /\ tail[t].pc = "wait"
  /\ TailGoto(t, "check") \/ TailGoto(t, "sync")
  /\ UNCHANGED <<chain, syncOp, desync, walletVars, req, mu, syncMu, tailQuit, starting>>

Quit(t) ==
  /\ tail[t].pc = "wait"
  /\ tail[t].quit
  /\ tail' = [tail EXCEPT ![t] = Ended]
  /\ UNCHANGED <<chain, syncOp, desync, walletVars, req, mu, syncMu, tailQuit, starting>>

(* The answer is compared under r.mu with the hash kept there. *)
CheckIntegrity(t) ==
  /\ tail[t].pc = "check"
  /\ Free
  /\ desync' \in {desync, TRUE}
  /\ TailGoto(t, IF desync' THEN "wait" ELSE "sync")
  /\ UNCHANGED <<chain, syncOp, walletVars, req, mu, syncMu, tailQuit, starting>>

TailSync(t) ==
  /\ tail[t].pc = "sync"
  /\ \/ TakeSyncMu(t) /\ TailGoto(t, "syncing")
     \/ chain # "open" /\ syncMu = NoOne /\ TailGoto(t, "wait") /\ UNCHANGED <<syncMu, syncOp>>
  /\ UNCHANGED <<chain, desync, walletVars, req, mu, tailQuit, starting>>

(* A partial result: the channel is looked at, then the sync goes on.      *)
Partial(t) == tail' = [tail EXCEPT ![t] = IF @.quit THEN Ended ELSE [@ EXCEPT !.pc = "sync"]]

TailSynced(t) ==
  /\ tail[t].pc = "syncing"
  /\ DropSyncMu(t)
  /\ \/ syncOp /\ (Partial(t) \/ TailGoto(t, "mempool") \/ TailGoto(t, "mark"))
     \/ TailGoto(t, "wait")
  /\ UNCHANGED <<chain, desync, walletVars, req, mu, tailQuit, starting>>

MarkDesync(t) ==
  /\ tail[t].pc = "mark"
  /\ Free
  /\ desync' = TRUE
  /\ TailGoto(t, "wait")
  /\ UNCHANGED <<chain, syncOp, walletVars, req, mu, syncMu, tailQuit, starting>>

TailMempool(t) ==
  /\ tail[t].pc = "mempool"
  /\ \/ TakeSyncMu(t) /\ TailGoto(t, "listing")
     \/ chain # "open" /\ syncMu = NoOne /\ TailGoto(t, "wait") /\ UNCHANGED <<syncMu, syncOp>>
  /\ UNCHANGED <<chain, desync, walletVars, req, mu, tailQuit, starting>>

TailListed(t) ==
  /\ tail[t].pc = "listing"
  /\ DropSyncMu(t)
  /\ TailGoto(t, "wait")
  /\ UNCHANGED <<chain, desync, walletVars, req, mu, tailQuit, starting>>

-----------------------------------------------------------------------------
(* Resync.                                                                 *)

(* A slip: the channel is closed and kept. *)
StopTailerKeeps ==
  /\ UNCHANGED tailQuit
  /\ tail' = [t \in Tailer |-> IF t = tailQuit THEN [tail[t] EXCEPT !.quit = TRUE] ELSE tail[t]]

StopTailer ==
  /\ tailQuit' = NoOne
  /\ tail' = [t \in Tailer |-> IF t = tailQuit THEN [tail[t] EXCEPT !.quit = TRUE] ELSE tail[t]]

ResyncStop(r) ==
  /\ req[r].pc = "idle"
  /\ starting < MaxStarting
  /\ Free
  /\ StopTailer
  /\ Goto(r, "resync")
  /\ UNCHANGED <<chain, syncOp, desync, walletVars, mu, syncMu, starting>>

ResyncCloseWallets(r) ==
  /\ req[r].pc = "resync"
  /\ Free
  /\ mu' = r
  /\ desync' = FALSE
  /\ status' = [w \in Wallet |-> IF Registered(w) THEN "unloaded" ELSE status[w]]
  /\ req' = [Killed(Wallet) EXCEPT ![r].pc = "close"]
  /\ UNCHANGED <<chain, syncOp, derived, count, syncMu, tailVars>>

ResyncCloseChain(r) ==
  /\ req[r].pc = "close"
  /\ chain' = "closed"
  /\ syncOp' = FALSE
  /\ Goto(r, "reopen")
  /\ UNCHANGED <<desync, walletVars, mu, syncMu, tailVars>>

(* Every registered wallet is reopened, also those that were unloaded. *)
ResyncReopen(r) ==
  /\ req[r].pc = "reopen"
  /\ chain' = "open"
  /\ status' = [w \in Wallet |-> IF Registered(w) THEN "loaded" ELSE status[w]]
  /\ derived' = [w \in Wallet |-> IF Registered(w) THEN Restored(w) ELSE derived[w]]
  /\ Goto(r, "bootstrap")
  /\ UNCHANGED <<syncOp, desync, count, mu, syncMu, tailVars>>

ResyncFails(r) ==
  /\ req[r].pc = "reopen"
  /\ mu' = NoOne
  /\ End(r)
  /\ UNCHANGED <<chain, syncOp, desync, walletVars, syncMu, tailVars>>

ResyncEnd(r) ==
  /\ req[r].pc = "bootstrap"
  /\ mu' = NoOne
  /\ starting' = starting + 1
  /\ End(r)
  /\ UNCHANGED <<chain, syncOp, desync, walletVars, syncMu, tail, tailQuit>>

-----------------------------------------------------------------------------

Init ==
  /\ chain = "open" /\ syncOp = FALSE /\ desync = FALSE
  /\ status = [w \in Wallet |-> "new"]
  /\ derived = [w \in Wallet |-> [s \in Side |-> 0]]
  /\ count = [w \in Wallet |-> 0]
  /\ req = [r \in Request |-> Idle]
  /\ mu = NoOne /\ syncMu = NoOne
  /\ tail = [t \in Tailer |-> Ended] /\ tailQuit = NoOne
  /\ starting = 1

RequestGoesOn(r) ==
  \/ LiveHandle(r) \/ NewAddress(r) \/ CountAddress(r) \/ Build(r)
  \/ RequestSync(r) \/ RequestSynced(r)
  \/ ResyncCloseWallets(r) \/ ResyncCloseChain(r) \/ ResyncReopen(r)
  \/ ResyncFails(r) \/ ResyncEnd(r)

TailerGoesOn(t) ==
  \/ Tick(t) \/ CheckIntegrity(t) \/ TailSync(t) \/ TailSynced(t)
  \/ MarkDesync(t) \/ TailMempool(t) \/ TailListed(t)

Next ==
  \/ \E w \in Wallet : Unload(w) \/ Load(w) \/ Delete(w)
  \/ \E r \in Request :
       \/ RequestGoesOn(r) \/ ResyncStop(r)
       \/ \E w \in Wallet :
            CreateUniversal(r, w) \/ \E k \in Side \union {"send"} : Get(r, w, k)
  \/ StartTailer
  \/ \E t \in Tailer : TailerGoesOn(t) \/ Quit(t)

Spec == Init /\ [][Next]_vars

-----------------------------------------------------------------------------
(* Properties.                                                             *)

ResyncSteps == {"resync", "close", "reopen", "bootstrap"}

RequestState ==
  [pc : {"idle", "got", "have", "derived", "sync", "syncing"} \union ResyncSteps,
   wallet : Wallet \union {NoOne}, kind : Side \union {"send", "none"}, live : BOOLEAN]

TailerState ==
  [pc : {"none", "wait", "check", "sync", "syncing", "mark", "mempool", "listing"},
   quit : BOOLEAN]

(* Every variable keeps its type. *)
TypeOK ==
  /\ chain \in {"open", "closed"} /\ syncOp \in BOOLEAN /\ desync \in BOOLEAN
  /\ status \in [Wallet -> {"new", "loaded", "unloaded", "deleted"}]
  /\ derived \in [Wallet -> [Side -> Nat]]
  /\ count \in [Wallet -> Nat]
  /\ req \in [Request -> RequestState]
  /\ mu \in Request \union {NoOne}
  /\ syncMu \in Request \union Tailer \union {NoOne}
  /\ tail \in [Tailer -> TailerState]
  /\ tailQuit \in Tailer \union {NoOne}
  /\ starting \in Nat

(* A tailer that nobody has told to quit is the one StopTailer reaches:    *)
(* whatever Resyncs come together, there is at most one, and it can be     *)
(* stopped.                                                                *)
TailerReachable ==
  \A t \in Tailer : tail[t].pc # "none" => tail[t].quit \/ tailQuit = t

(* A handle, an op on it and the op of a sync are alive only on an open    *)
(* chain, and the first two only while their wallet is loaded.             *)
HandlesBacked ==
  /\ syncOp => chain = "open" /\ syncMu # NoOne
  /\ \A w \in Wallet : status[w] = "loaded" => chain = "open"
  /\ \A r \in Request : req[r].live => status[req[r].wallet] = "loaded"

(* The count a wallet is reopened with covers the MWEB addresses of its    *)
(* handle, but for those just derived that a request is about to count.    *)
AddressesCounted ==
  \A w \in Wallet : status[w] = "loaded" =>
    derived[w]["mweb"] <=
      count[w] + Cardinality({r \in Request : req[r].pc = "derived" /\ req[r].wallet = w})

(* A wallet that is opened again when no request is deriving for it        *)
(* watches every address its last handle had: unloading is said to be      *)
(* reversible, and a Resync to drop no user configuration.                 *)
AddressesRestored ==
  [][\A w \in Wallet, s \in Side :
       /\ status[w] = "unloaded" /\ status'[w] = "loaded"
       /\ \A r \in Request : req[r].wallet # w
       => derived'[w][s] >= derived[w][s]]_vars

(* When no Resync is under way and the last one could open the chain, a    *)
(* tailer is there or about to be: whatever Resyncs overlap, the wallets   *)
(* are not left without a sync.                                            *)
TailerReturns ==
  chain = "open" /\ (\A r \in Request : req[r].pc \notin ResyncSteps)
    => (\E t \in Tailer : tail[t].pc # "none" /\ ~tail[t].quit) \/ starting > 0

=============================================================================
