----------------------------- MODULE OyoLedger -----------------------------
(***************************************************************************)
(* The canonical (non-MWEB) wallet state of the engine: which outpoints    *)
(* each registered address holds, in which state, what its cached totals   *)
(* and the balances of the watching wallets say, as blocks are applied and *)
(* rolled back, the mempool is diffed, wallets come and go, addresses are  *)
(* rescanned from the mirror and the process restarts.                     *)
(*                                                                         *)
(* Heights run from 0 (nothing mined) and a chain is given by the height   *)
(* of each of its transactions.  `fork' is the height of the last block    *)
(* the engine's chain shares with the node's: it is what comparing block   *)
(* hashes finds out.  Every action of the engine is one call under the     *)
(* context mutex; an operation is several calls, with the node and the     *)
(* other callers free to move in between.                                  *)
(***************************************************************************)
EXTENDS OyoUtxo, FiniteSets

CONSTANTS
  Key,      \* outpoints that pay an address some wallet may hold
  Addr,     \* scripts
  Owner,    \* Key -> Addr
  Outs,     \* Tx -> the outpoints the transaction creates
  Ins,      \* Tx -> the outpoints it spends
  Opaque,   \* outpoints whose spending input does not show a P2WPKH key
  Wallet,
  Watching, \* the wallets that are watch-only; the others hold a seed
  Book,     \* Wallet -> the addresses it derives when opened, or may watch
  Later,    \* Wallet -> the addresses it derives on request, after that
  RollbackWindow,
  BatchTarget,  \* blocks per mirror commit: 1 once bootstrap is done
  MaxHeight,    \* bound on the chain length
  Env           \* what the surroundings may do in this instance

EnvFeature == {"reorg", "chained", "crash", "close", "evict", "send"}

ASSUME OwnerAssumption ==
  /\ Owner \in [Key -> Addr]
  /\ \A a \in Addr : \E k \in Key : Owner[k] = a
ASSUME TxAssumption ==
  /\ Outs \in [Tx -> SUBSET Key]
  /\ Ins \in [Tx -> SUBSET Key]
  /\ \A t \in Tx : Outs[t] \cap Ins[t] = {}
  /\ \A s, t \in Tx : s # t => Outs[s] \cap Outs[t] = {}
ASSUME WalletAssumption ==
  /\ Watching \subseteq Wallet
  /\ Book \in [Wallet -> SUBSET Addr]
  /\ Later \in [Wallet -> SUBSET Addr]
ASSUME OpaqueAssumption == Opaque \subseteq Key
ASSUME BoundAssumption ==
  /\ RollbackWindow \in Nat \ {0}
  /\ BatchTarget \in Nat \ {0}
  /\ MaxHeight \in Nat
ASSUME EnvAssumption == Env \subseteq EnvFeature

VARIABLES
  nodeAt,   \* node: height of each transaction, 0 when not in its chain
  nodeTip,
  pool,     \* node: its mempool
  at,       \* engine: height of each transaction in the chain it has applied
  tip,
  fork,     \* height of the last block common to both chains
  ringBase, \* c.blocks holds the blocks of heights ringBase+1 .. tip
  durable,  \* height the committed mirror has reached
  mempool,  \* c.mempool: "none", or tracked and not yet / already promoted
  notOurs,  \* c.mempool_seen_not_ours
  fetching, \* mempool op in flight: listed transactions still to be fetched
  utxo,     \* Key -> Cell: addr.utxos and the totals
  balance,  \* wallet -> balance_sat, a formal sum over the outpoints
  watchers, \* addr.watchers; an address with none is not registered
  desync,   \* addr.desync
  sends     \* send ops in flight: built, then perhaps accepted by the node

nodeVars  == <<nodeAt, nodeTip, pool>>
chainVars == <<at, tip, ringBase, durable>>
poolVars  == <<mempool, notOurs, fetching>>
coinVars  == <<utxo, balance, watchers, desync>>
vars == <<nodeVars, chainVars, fork, poolVars, coinVars, sends>>

Send == [tx : Tx, wallet : Wallet, accepted : BOOLEAN]

Min2(a, b) == IF a < b THEN a ELSE b
Max2(a, b) == IF a > b THEN a ELSE b

-----------------------------------------------------------------------------
(* The node.                                                               *)

(* A set of transactions that can stand in one chain and mempool together. *)
Consistent(S) ==
  \A t \in S : \A k \in Ins[t] :
    /\ \E p \in S : k \in Outs[p]
    /\ \A q \in S \ {t} : k \notin Ins[q]

NodeChain == {t \in Tx : nodeAt[t] > 0}

(* The transactions of S that can stay beside the chain C. *)
Survivors(S, C) == UNION {P \in SUBSET S : Consistent(C \union P)}

NodeAccept(t) ==
  /\ t \notin pool \union NodeChain
  /\ Consistent(NodeChain \union pool \union {t})
  /\ "chained" \in Env \/ Consistent(NodeChain \union {t})
  /\ pool' = pool \union {t}
  /\ UNCHANGED <<nodeAt, nodeTip, fork, chainVars, poolVars, coinVars, sends>>

(* Expiry, or the first half of a replacement. *)
NodeEvict(t) ==
  /\ "evict" \in Env
  /\ t \in pool
  /\ pool' = Survivors(pool \ {t}, NodeChain)
  /\ UNCHANGED <<nodeAt, nodeTip, fork, chainVars, poolVars, coinVars, sends>>

NodeMine(S) ==
  /\ nodeTip < MaxHeight
  /\ S \cap NodeChain = {}
  /\ Consistent(NodeChain \union S)
  /\ nodeTip' = nodeTip + 1
  /\ nodeAt' = [t \in Tx |-> IF t \in S THEN nodeTip + 1 ELSE nodeAt[t]]
  /\ pool' = Survivors(pool \ S, NodeChain \union S)
  /\ UNCHANGED <<fork, chainVars, poolVars, coinVars, sends>>

(* Disconnecting blocks returns their transactions to the mempool. *)
NodeReorg(h) ==
  /\ "reorg" \in Env
  /\ h < nodeTip
  /\ nodeTip' = h
  /\ nodeAt' = [t \in Tx |-> IF nodeAt[t] > h THEN 0 ELSE nodeAt[t]]
  /\ pool' = pool \union {t \in Tx : nodeAt[t] > h}
  /\ fork' = Min2(fork, h)
  /\ UNCHANGED <<chainVars, poolVars, coinVars, sends>>

-----------------------------------------------------------------------------
(* What the handlers share.                                                *)

Registered(a) == watchers[a] # {}
Known(k) == Registered(Owner[k])

(* The outpoints of the events ParseTxEvents makes of a transaction: its   *)
(* outputs, and those of its inputs whose owner it can tell.               *)
Spends(t) == Ins[t] \ Opaque
Events(t) == Outs[t] \union Spends(t)
AnyOurs(t) == \E k \in Events(t) : Known(k)

(* The state after a handler that leaves the cells n, with its             *)
(* notifications and misses delivered.  The events of an unregistered      *)
(* script change nothing.                                                  *)
Write(n) ==
  /\ utxo' = [k \in Key |-> IF Known(k) THEN Settle(n[k]) ELSE utxo[k]]
  /\ balance' = [w \in Wallet |-> [k \in Key |->
                   IF w \in watchers[Owner[k]] THEN balance[w][k] + n[k].notified
                                               ELSE balance[w][k]]]
  /\ desync' = [a \in Addr |->
                  \/ desync[a]
                  \/ Registered(a) /\ \E k \in Key : Owner[k] = a /\ n[k].missed]
  /\ UNCHANGED watchers

(* Coins as the applied chain has them, up to a height. *)
CreatedBy(k, h) == \E t \in Tx : at[t] \in 1..h /\ k \in Outs[t]
SpentBy(k, h)   == \E t \in Tx : at[t] \in 1..h /\ k \in Ins[t]
Unspent(k, h)   == CreatedBy(k, h) /\ ~SpentBy(k, h)

Tracked(t) == mempool[t] # "none"
Pending(t) == mempool[t] = "pending"

-----------------------------------------------------------------------------
(* Chain sync: ApplyBlockLocked and RollbackTipLocked.                     *)

(* Within a block an outpoint is created before it is spent. *)
ApplyEvents(u, k, B) ==
  LET add == CASE \A t \in B : k \notin Outs[t] -> u
               [] (\E t \in B : k \in Outs[t]) /\ u.known  -> PromoteUtxo(u)
               [] (\E t \in B : k \in Outs[t]) /\ ~u.known -> AddUtxo(u, TRUE)
  IN  IF \E t \in B : k \in Spends(t) THEN SpendUtxo(add) ELSE add

(* The block that leaves the ring takes the spent outpoints it mentions.   *)
LeavesRing(k) ==
  /\ tip + 1 - ringBase > RollbackWindow
  /\ \E t \in Tx : at[t] = ringBase + 1 /\ k \in Events(t)

(* A slip in the comparison with the node's tip. *)
ApplyBlockShort ==
  LET B == {t \in Tx : nodeAt[t] = tip + 1} IN
  /\ fetching = {}
  /\ fork = tip
  /\ tip + 1 < nodeTip
  /\ Write([k \in Key |-> ApplyEvents(utxo[k], k, B)])
  /\ mempool' = [t \in Tx |-> IF t \in B /\ Tracked(t) /\ AnyOurs(t)
                              THEN "promoted" ELSE mempool[t]]
  /\ at' = [t \in Tx |-> IF t \in B THEN tip + 1 ELSE at[t]]
  /\ tip' = tip + 1
  /\ fork' = tip + 1
  /\ ringBase' = Max2(ringBase, tip + 1 - RollbackWindow)
  /\ durable' = IF tip + 1 - durable >= BatchTarget THEN tip + 1 ELSE durable
  /\ UNCHANGED <<nodeVars, sends, notOurs, fetching>>

ApplyBlock ==
  LET B == {t \in Tx : nodeAt[t] = tip + 1} IN
  /\ fetching = {}
  /\ fork = tip
  /\ tip < nodeTip
  /\ Write([k \in Key |-> LET u == ApplyEvents(utxo[k], k, B)
                          IN  IF LeavesRing(k) THEN GcUtxo(u) ELSE u])
  /\ mempool' = [t \in Tx |-> IF t \in B /\ Tracked(t) /\ AnyOurs(t)
                              THEN "promoted" ELSE mempool[t]]
  /\ at' = [t \in Tx |-> IF t \in B THEN tip + 1 ELSE at[t]]
  /\ tip' = tip + 1
  /\ fork' = tip + 1
  /\ ringBase' = Max2(ringBase, tip + 1 - RollbackWindow)
  /\ durable' = IF tip + 1 - durable >= BatchTarget THEN tip + 1 ELSE durable
  /\ UNCHANGED <<nodeVars, sends, notOurs, fetching>>

(* The end of a sync pass flushes the mirror's open batch. *)
FinishSync ==
  /\ fetching = {}
  /\ fork = tip
  /\ durable < tip
  /\ durable' = tip
  /\ UNCHANGED <<nodeVars, sends, at, tip, ringBase, fork, poolVars, coinVars>>

TipTxs == {t \in Tx : at[t] = tip}

UndoSpend(u, k) ==
  LET S == {t \in TipTxs : k \in Spends(t)} IN
  IF S = {} THEN u
  ELSE LET t == CHOOSE t \in S : TRUE
       IN  IF Tracked(t) THEN PendingSpendUtxo(UnspendUtxo(u), t)
                         ELSE UnspendUtxo(u)

Demotes(t, u) == Tracked(t) /\ u.known /\ u.confirmed

UndoAdd(u, k) ==
  CASE \A t \in TipTxs : k \notin Outs[t] -> u
    [] \E t \in TipTxs : k \in Outs[t] /\ Demotes(t, u)  -> DemoteUtxo(u)
    [] \E t \in TipTxs : k \in Outs[t] /\ ~Demotes(t, u) -> RemoveUtxo(u)

(* The tip block is in the ring: its events are undone in reverse.         *)
RollbackTip ==
  /\ fetching = {}
  /\ fork < tip
  /\ tip > ringBase
  /\ Write([k \in Key |-> UndoAdd(UndoSpend(utxo[k], k), k)])
  /\ mempool' = [t \in Tx |->
       IF /\ t \in TipTxs /\ Tracked(t)
          /\ \/ \E k \in Spends(t) : Known(k)
             \/ \E k \in Outs[t] : Known(k) /\ Demotes(t, UndoSpend(utxo[k], k))
       THEN "pending" ELSE mempool[t]]
  /\ at' = [t \in Tx |-> IF t \in TipTxs THEN 0 ELSE at[t]]
  /\ tip' = tip - 1
  /\ durable' = tip - 1
  /\ UNCHANGED <<nodeVars, sends, fork, ringBase, notOurs, fetching>>

(* The same as below without looking for a block to roll back. *)
RollbackBelowRingBlindly ==
  /\ fetching = {}
  /\ tip = ringBase
  /\ Write([k \in Key |-> Missed(InvalidateUtxo(utxo[k]))])
  /\ at' = [t \in Tx |-> IF t \in TipTxs THEN 0 ELSE at[t]]
  /\ tip' = tip - 1
  /\ ringBase' = tip - 1
  /\ durable' = tip - 1
  /\ UNCHANGED <<nodeVars, sends, fork, poolVars>>

(* The ring is empty: the mirror alone is cut, and every loaded address    *)
(* loses what it had from blocks.                                          *)
RollbackBelowRing ==
  /\ fetching = {}
  /\ fork < tip
  /\ tip = ringBase
  /\ Write([k \in Key |-> Missed(InvalidateUtxo(utxo[k]))])
  /\ at' = [t \in Tx |-> IF t \in TipTxs THEN 0 ELSE at[t]]
  /\ tip' = tip - 1
  /\ ringBase' = tip - 1
  /\ durable' = tip - 1
  /\ UNCHANGED <<nodeVars, sends, fork, poolVars>>

-----------------------------------------------------------------------------
(* Mempool sync: a diff against getrawmempool, then one getrawtransaction  *)
(* per new transaction.  Chain sync waits for it to end; nothing else does.*)

Gone == {t \in Tx : Pending(t) /\ t \notin pool}

RollbackPending(u, k) ==
  LET add == IF \E t \in Gone : k \in Outs[t] THEN RollbackPendingAdd(u) ELSE u
  IN  IF \E t \in Gone : k \in Spends(t) THEN RollbackPendingSpend(add) ELSE add

(* A diff that forgets to forget what it rolls back. *)
MempoolListKeeps ==
  /\ fetching = {}
  /\ Write([k \in Key |-> RollbackPending(utxo[k], k)])
  /\ notOurs' = notOurs \cap pool
  /\ fetching' = {t \in pool : ~Tracked(t) /\ t \notin notOurs}
  /\ UNCHANGED <<nodeVars, sends, chainVars, fork, mempool>>

MempoolList ==
  /\ fetching = {}
  /\ Write([k \in Key |-> RollbackPending(utxo[k], k)])
  /\ mempool' = [t \in Tx |-> IF t \in pool THEN mempool[t] ELSE "none"]
  /\ notOurs' = notOurs \cap pool
  /\ fetching' = {t \in pool : ~Tracked(t) /\ t \notin notOurs}
  /\ UNCHANGED <<nodeVars, sends, chainVars, fork>>

ApplyPending(u, k, t) ==
  CASE k \in Outs[t]   -> AddUtxo(u, FALSE)
    [] k \in Spends(t) -> PendingSpendUtxo(u, t)
    [] k \notin Events(t) -> u

(* With a transaction index the node still serves what was mined since. *)
MempoolFetch(t) ==
  /\ t \in fetching
  /\ t \in pool \union NodeChain
  /\ Write([k \in Key |-> ApplyPending(utxo[k], k, t)])
  /\ IF AnyOurs(t) THEN mempool' = [mempool EXCEPT ![t] = "pending"] /\ UNCHANGED notOurs
                   ELSE notOurs' = notOurs \union {t} /\ UNCHANGED mempool
  /\ fetching' = fetching \ {t}
  /\ UNCHANGED <<nodeVars, sends, chainVars, fork>>

(* A failed call, which a transaction that is gone makes certain. *)
MempoolAbort ==
  /\ fetching # {}
  /\ fetching' = {}
  /\ UNCHANGED <<nodeVars, sends, chainVars, fork, mempool, notOurs, coinVars>>

-----------------------------------------------------------------------------
(* Wallets.                                                                *)

(* The form of Attach that keeps the cache of foreign transactions. *)
AttachKeepsCache(w, A, n) ==
  LET new == {a \in A : ~Registered(a)} IN
  /\ watchers' = [a \in Addr |-> IF a \in A THEN watchers[a] \union {w} ELSE watchers[a]]
  /\ balance' = [balance EXCEPT ![w] = [k \in Key |->
       @[k] + IF Owner[k] \in A /\ w \notin watchers[Owner[k]]
              THEN utxo[k].confirmed_sat ELSE 0]]
  /\ utxo' = [k \in Key |-> IF Owner[k] \in new THEN Settle(n[k]) ELSE utxo[k]]
  /\ UNCHANGED <<nodeVars, chainVars, fork, poolVars>>

(* GetOrCreateAddressLocked and AttachWatcherLocked for each address of A: *)
(* a new one starts from the cells n with no confirmed coin, and desynced. *)
Attach(w, A, n) ==
  LET new == {a \in A : ~Registered(a)} IN
  /\ watchers' = [a \in Addr |-> IF a \in A THEN watchers[a] \union {w} ELSE watchers[a]]
  /\ balance' = [balance EXCEPT ![w] = [k \in Key |->
       @[k] + IF Owner[k] \in A /\ w \notin watchers[Owner[k]]
              THEN utxo[k].confirmed_sat ELSE 0]]
  /\ utxo' = [k \in Key |-> IF Owner[k] \in new THEN Settle(n[k]) ELSE utxo[k]]
  /\ notOurs' = IF new = {} THEN notOurs ELSE {}
  /\ UNCHANGED <<nodeVars, chainVars, fork, mempool, fetching>>

IsOpen(w) == \E a \in Addr : w \in watchers[a]

OpenWallet(w) ==
  /\ w \notin Watching
  /\ ~IsOpen(w)
  /\ Attach(w, Book[w], utxo)
  /\ UNCHANGED <<desync, sends>>

(* Addresses derived on request are taken to have no history. *)
Derive(w, A) ==
  /\ Attach(w, A, utxo)
  /\ desync' = [a \in Addr |-> desync[a] /\ (a \in A =>
       \E k \in Key : Owner[k] = a /\ (utxo[k].known \/ utxo[k].pending_in_sat # 0))]

NewAddress(w, a) ==
  /\ w \notin Watching
  /\ IsOpen(w)
  /\ a \in Later[w]
  /\ w \notin watchers[a]
  /\ Derive(w, {a})
  /\ UNCHANGED sends

(* A new watched address is shown the tracked transactions, in the order   *)
(* the hash table has them in.                                             *)
ReplayMempool(u, k, order) ==
  LET adders   == {t \in Tx : Pending(t) /\ k \in Outs[t]}
      spenders == {t \in Tx : Pending(t) /\ k \in Spends(t)}
      late == \E p \in adders, c \in spenders : order[c] > order[p]
      Spend(v) == IF spenders = {} THEN v
                  ELSE PendingSpendUtxo(v, CHOOSE c \in spenders : TRUE)
      Add(v) == IF adders = {} THEN v ELSE AddUtxo(v, FALSE)
  IN IF late THEN Spend(Add(u)) ELSE Add(Spend(u))

WatchAdd(w, a) ==
  /\ w \in Watching
  /\ a \in Book[w]
  /\ w \notin watchers[a]
  /\ \E order \in [Tx -> 1..Cardinality(Tx)] :
       Attach(w, {a}, [k \in Key |-> ReplayMempool(utxo[k], k, order)])
  /\ UNCHANGED <<desync, sends>>

(* The form that drops an address others still watch. *)
DetachDrops(w, A) ==
  LET last == {a \in A : w \in watchers[a]} IN
  /\ watchers' = [a \in Addr |-> IF a \in A THEN watchers[a] \ {w} ELSE watchers[a]]
  /\ balance' = [balance EXCEPT ![w] = [k \in Key |->
       @[k] - IF Owner[k] \in A /\ w \in watchers[Owner[k]]
              THEN utxo[k].confirmed_sat ELSE 0]]
  /\ utxo' = [k \in Key |-> IF Owner[k] \in last THEN NoCell ELSE utxo[k]]
  /\ desync' = [a \in Addr |-> desync[a] \/ a \in last]
  /\ UNCHANGED <<nodeVars, chainVars, fork, poolVars>>

(* DetachWatcherLocked; the last watcher takes the address with it. *)
Detach(w, A) ==
  LET last == {a \in A : watchers[a] = {w}} IN
  /\ watchers' = [a \in Addr |-> IF a \in A THEN watchers[a] \ {w} ELSE watchers[a]]
  /\ balance' = [balance EXCEPT ![w] = [k \in Key |->
       @[k] - IF Owner[k] \in A /\ w \in watchers[Owner[k]]
              THEN utxo[k].confirmed_sat ELSE 0]]
  /\ utxo' = [k \in Key |-> IF Owner[k] \in last THEN NoCell ELSE utxo[k]]
  /\ desync' = [a \in Addr |-> desync[a] \/ a \in last]
  /\ UNCHANGED <<nodeVars, chainVars, fork, poolVars>>

(* The ops of the wallet go with it. *)
CloseWallet(w) ==
  /\ "close" \in Env
  /\ IsOpen(w)
  /\ Detach(w, Addr)
  /\ sends' = {s \in sends : s.wallet # w}

WatchRemove(w, a) ==
  /\ "close" \in Env
  /\ w \in Watching
  /\ w \in watchers[a]
  /\ Detach(w, {a})
  /\ UNCHANGED sends

(* All the addresses of a wallet, or the ones the caller names.  The       *)
(* mirror lists what its last commit holds, not its open batch.            *)
Rescan(w, A) ==
  LET n == [k \in Key |-> IF Owner[k] \in A
                          THEN RescanUtxo(utxo[k], Unspent(k, durable))
                          ELSE utxo[k]] IN
  /\ A # {}
  /\ \A a \in A : w \in watchers[a]
  /\ utxo' = [k \in Key |-> IF Owner[k] \in A THEN Settle(n[k]) ELSE utxo[k]]
  /\ balance' = [v \in Wallet |-> [k \in Key |->
                   IF v \in watchers[Owner[k]] THEN balance[v][k] + n[k].notified
                                               ELSE balance[v][k]]]
  /\ desync' = [a \in Addr |-> desync[a] /\ a \notin A]
  /\ UNCHANGED <<nodeVars, sends, chainVars, fork, poolVars, watchers>>

(* A send is built and signed in one call, from coins that are spendable   *)
(* then; its change goes to addresses derived for it.                      *)
SendBuild(w, t) ==
  /\ "send" \in Env
  /\ w \notin Watching
  /\ IsOpen(w)
  /\ Ins[t] # {}
  /\ \A k \in Ins[t] : w \in watchers[Owner[k]] /\ Spendable(utxo[k])
  /\ t \notin pool \union NodeChain \union notOurs
  /\ at[t] = 0 /\ ~Tracked(t)
  /\ \A s \in sends : s.tx # t
  /\ Derive(w, {a \in Later[w] : w \notin watchers[a] /\ \E k \in Outs[t] : Owner[k] = a})
  /\ sends' = sends \union {[tx |-> t, wallet |-> w, accepted |-> FALSE]}

(* The node takes the transaction; its answer is on the way. *)
SendBroadcast(s) ==
  /\ ~s.accepted
  /\ s.tx \notin NodeChain
  /\ Consistent(NodeChain \union pool \union {s.tx})
  /\ pool' = pool \union {s.tx}
  /\ sends' = (sends \ {s}) \union {[s EXCEPT !.accepted = TRUE]}
  /\ UNCHANGED <<nodeAt, nodeTip, fork, chainVars, poolVars, coinVars>>

SendAnswer(s) ==
  /\ s.accepted
  /\ Write([k \in Key |-> IF k \in Ins[s.tx] /\ s.wallet \in watchers[Owner[k]]
                          THEN MarkSent(utxo[k], s.tx) ELSE utxo[k]])
  /\ sends' = sends \ {s}
  /\ UNCHANGED <<nodeVars, chainVars, fork, poolVars>>

(* The node refuses it, or the answer is lost. *)
SendFail(s) ==
  /\ sends' = sends \ {s}
  /\ UNCHANGED <<nodeVars, chainVars, fork, poolVars, coinVars>>

(* The process ends and starts again from the committed mirror. *)
Crash ==
  /\ "crash" \in Env
  /\ at' = [t \in Tx |-> IF at[t] > durable THEN 0 ELSE at[t]]
  /\ tip' = durable
  /\ ringBase' = durable
  /\ fork' = Min2(fork, durable)
  /\ mempool' = [t \in Tx |-> "none"]
  /\ notOurs' = {}
  /\ fetching' = {}
  /\ utxo' = [k \in Key |-> NoCell]
  /\ balance' = [w \in Wallet |-> [k \in Key |-> 0]]
  /\ watchers' = [a \in Addr |-> {}]
  /\ desync' = [a \in Addr |-> TRUE]
  /\ sends' = {}
  /\ UNCHANGED <<nodeVars, durable>>

-----------------------------------------------------------------------------

Init ==
  /\ nodeAt = [t \in Tx |-> 0]
  /\ nodeTip = 0
  /\ pool = {}
  /\ at = [t \in Tx |-> 0]
  /\ tip = 0
  /\ fork = 0
  /\ ringBase = 0
  /\ durable = 0
  /\ mempool = [t \in Tx |-> "none"]
  /\ notOurs = {}
  /\ fetching = {}
  /\ utxo = [k \in Key |-> NoCell]
  /\ balance = [w \in Wallet |-> [k \in Key |-> 0]]
  /\ watchers = [a \in Addr |-> {}]
  /\ desync = [a \in Addr |-> TRUE]
  /\ sends = {}

NodeNext ==
  \/ \E t \in Tx : NodeAccept(t) \/ NodeEvict(t)
  \/ \E S \in SUBSET Tx : NodeMine(S)
  \/ \E h \in 0..MaxHeight : NodeReorg(h)

TailerNext ==
  \/ ApplyBlock \/ RollbackTip \/ RollbackBelowRing \/ FinishSync
  \/ MempoolList \/ MempoolAbort
  \/ \E t \in Tx : MempoolFetch(t)

WalletNext ==
  \/ \E w \in Wallet : OpenWallet(w) \/ CloseWallet(w)
  \/ \E w \in Wallet, A \in SUBSET Addr : Rescan(w, A)
  \/ \E w \in Wallet, a \in Addr : NewAddress(w, a) \/ WatchAdd(w, a) \/ WatchRemove(w, a)

SendNext ==
  \/ \E w \in Wallet, t \in Tx : SendBuild(w, t)
  \/ \E s \in sends : SendBroadcast(s) \/ SendAnswer(s) \/ SendFail(s)

Next == NodeNext \/ TailerNext \/ WalletNext \/ SendNext \/ Crash

Spec == Init /\ [][Next]_vars

(* The tailer runs chain sync to the end, then one mempool pass, at every  *)
(* tick; a call may fail, but not for ever.  Nobody owes the engine a      *)
(* wallet operation, and the node owes it nothing.                         *)
TailerFairness ==
  /\ SF_vars(ApplyBlock) /\ SF_vars(RollbackTip) /\ SF_vars(RollbackBelowRing)
  /\ SF_vars(FinishSync)
  /\ SF_vars(MempoolList) /\ WF_vars(MempoolAbort)
  /\ \A t \in Tx : SF_vars(MempoolFetch(t))

FairSpec == Spec /\ TailerFairness

-----------------------------------------------------------------------------
(* Properties.                                                             *)

(* Every variable keeps its type. *)
TypeOK ==
  /\ nodeAt \in [Tx -> Nat] /\ nodeTip \in Nat /\ pool \subseteq Tx
  /\ at \in [Tx -> Nat]
  /\ tip \in Nat /\ fork \in Nat /\ ringBase \in Nat /\ durable \in Nat
  /\ mempool \in [Tx -> {"none", "pending", "promoted"}]
  /\ notOurs \subseteq Tx /\ fetching \subseteq Tx
  /\ utxo \in [Key -> Cell]
  /\ balance \in [Wallet -> [Key -> Int]]
  /\ watchers \in [Addr -> SUBSET Wallet]
  /\ desync \in [Addr -> BOOLEAN]
  /\ sends \subseteq Send

(* A wallet's balance_sat, which only ever moves by the deltas it is       *)
(* notified of and by what it attaches and detaches, is the sum of         *)
(* confirmed_sat over the addresses it watches, whoever shares them.       *)
WalletBalance ==
  \A w \in Wallet, k \in Key :
    balance[w][k] = IF w \in watchers[Owner[k]] THEN utxo[k].confirmed_sat ELSE 0

Bit(P) == IF P THEN 1 ELSE 0

(* The cached totals say what their field comments in Address say: a coin  *)
(* is counted in confirmed_sat, or in pending_out_sat, exactly when its    *)
(* flags put it there, however applies, rollbacks, mempool diffs and       *)
(* rescans were interleaved.                                               *)
TotalsExact ==
  \A k \in Key : /\ utxo[k].confirmed_sat = Bit(InConfirmed(utxo[k]))
                 /\ utxo[k].pending_out_sat = Bit(InPendingOut(utxo[k]))

(* The same of pending_in_sat.  It needs every address to be there before  *)
(* its transactions are tracked: see the README for what re-adding a       *)
(* watched address does to it.                                             *)
PendingInExact ==
  \A k \in Key : utxo[k].pending_in_sat = Bit(InPendingIn(utxo[k]))

(* The coins a P2WPKH input shows the spending of. *)
CoinMatchesChain(k) ==
  fork = tip /\ Known(k) /\ ~desync[Owner[k]] =>
    (utxo[k].known /\ utxo[k].confirmed /\ ~utxo[k].spent <=> Unspent(k, tip))

(* When the engine's tip is on the node's chain, an address that is not    *)
(* flagged desync has exactly the confirmed coins of that chain: reorgs,   *)
(* restarts and the ring's garbage collection lose none and revive none    *)
(* without raising the flag.                                               *)
CoinsMatchChain == \A k \in Key \ Opaque : CoinMatchesChain(k)

(* The first-spender rule of PendingSpendUtxoLocked leaves conflicts to    *)
(* the mempool diff: two tracked transactions never spend the same coin.   *)
TrackedConsistent ==
  \A s, t \in Tx : Pending(s) /\ Pending(t) /\ s # t => Ins[s] \cap Ins[t] = {}

(* From some point on the node and the set of wallets stand still. *)
Quiet == <>[][UNCHANGED <<nodeVars, watchers>> /\ ~Crash]_vars

(* Then the engine ends up, for good, on the node's chain and at its tip,  *)
(* whatever reorg, failed call or restart came before.                     *)
CatchesUp == Quiet => <>[](fork = tip /\ tip = nodeTip)

(* And it ends up tracking exactly the mempool transactions that touch a   *)
(* registered script, those first seen when nobody watched it included.    *)
PendingMatchesPool ==
  Quiet => <>[](\A t \in Tx : AnyOurs(t) => (t \in pool <=> Pending(t)))

=============================================================================
