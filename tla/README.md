# Verification of Oyo LTC

Oyo LTC is a self-hosted Litecoin wallet and explorer: a C++ engine
(`liboyoltc`) that keeps wallet state incrementally from a node's blocks and
mempool, and a Go server (`oyo-web`) that drives it over cgo, runs a background
tailer, a send queue and a REST API. This directory holds TLA+ models of it, the
TLC configurations that check them and proofs checked by TLAPS.

    tlc -config MCOyoLedger_seeded.cfg MCOyoLedger.tla
    tlapm OyoLedgerProofs.tla

`PROJECT.json` lists every run, the source lines of every definition, the
hazards the properties are for, and one mutated definition per property that TLC
must find to break it.

## 1. Inventory

| Part | State | Operations | What makes it hard | What makes it correct |
|---|---|---|---|---|
| **Wallet ledger**, `oyoltc.cpp` 188-239, 1455-1689, 2427-2539 | `addresses` (utxos, three cached totals, watchers, desync), per-wallet `balance_sat` | the single-writer helpers; apply and roll back the events of a block; apply and roll back pending transactions | one coin is moved by blocks, reorgs, mempool and rescans in any order; an Address is shared by wallets; misses are only flagged | totals equal what the flags say; a balance is the sum over the watched addresses; an address not flagged has the chain's coins |
| **Chain sync**, 2680-2979, 3370-3537 | tip, ring `c.blocks`, mirror batch, block trail, prune floor | anchor, next hash, block; apply; roll back in and below the ring; finish | the node reorganises between two RPCs; process death between apply and commit; window, `max_reorg_depth` and prune floor at a boundary | the mirror is a prefix of one branch; the engine reaches the node's tip |
| **Mempool sync**, 3755-3906 | `c.mempool`, `mempool_seen_not_ours`, fetch list of the op | list diff, one fetch per new transaction | listed and then mined, replaced or evicted; wallets opened in between | tracks the pool's own transactions, no two in conflict |
| **MWEB ledger**, 1703-2005, 2550-2735, 3682-3753, 3912-3972, `mweb.cpp` | outputs with their totals per stealth address, commitment index, pending outputs and marks, mempool cache | apply, roll back, reconcile with the mempool, bootstrap from the mirror | the events of a block depend on the wallets open when it is parsed; marks are kept apart from the index that says whose output it is; wallets of one seed share addresses | a balance is the sum over the derived addresses; an amount is confirmed or pending out once; a bootstrapped address not flagged has the chain's outputs |
| **Wallet open, close, watch, rescan**, 3548-3631, 6061-6715 | bindings, watchers, `mempool` replay | `open_*`, `new_canonical_address`, `watch_*`, `close`, rescan from the mirror | run between any two steps of a sync | a later-registered script gets its share of what is already tracked |
| **Sends**, 3996-5590 | one op: selected inputs, signed transaction | select, build, sign, broadcast; the answer marks the inputs itself, past the helpers | the ledger moves between broadcast and answer; the answer is lost; maturity | never offers an immature or spent coin; selection meets the target |
| **Wallet registry and tailer**, `wallet.go` | wallets with their creation parameters, chain handle, tailer, `syncMu` | Create, Load, Unload, Delete, NewAddress, Resync, the tailer's tick | handles used after unlock; Resync replaces the chain while operations run and stops the tailer without waiting for it | no operation on a closed handle; one tailer, and never none; a reloaded wallet has its addresses |
| **Send queue**, `queue.go`, `queue_api.go` | tasks, in memory only | Add, Remove, RunNow, FailWalletTasks, the runner | a task is removed or failed while its send is in flight; the ticker and RunNow race | a task is sent at most once and never with another wallet |
| **Confirm cache**, `api.go` 60-116 | token to prepared send, expiry | estimate, confirm | two confirmations, expiry, failure of the broadcast | at most one broadcast per token |
| **Prefetcher**, `sync_prefetch.go` | window of hash and block jobs | workers, consume, schedule, Close | late answers, results of a previous branch, close with jobs queued, a bounded channel its only filler also waits on | an answer is the node's, no height is lost, the operation and the workers end |
| **Explorer mempool watcher**, `mempool.go` | cached view, recent changes | poll, on-demand fetch | fetches without the lock | view is some recent mempool |
| **Authentication**, `auth.go` | sessions, failure counts | login, middleware | parallel attempts during a delay | delay grows with failures; expired sessions are refused |
| **JSON-RPC client, seed words, API routing, frontend, build scripts** | none that outlives a call | I/O and pure conversions | | |

The node itself is external: it is modelled from how the engine uses it.

### How they interact

* One mutex (`ctx->mu`) makes every engine call atomic. An *operation*
  (sync, mempool, rescan, send) is a sequence of calls: the engine asks for an
  RPC, Go performs it without the lock, and feeds the answer back. Everything
  else may run in between.
* `syncMu` in `wallet.go` serialises the chain sync and the mempool sync as
  whole operations (`SyncOnce`, `MempoolSyncOnce`); wallet opening, closing,
  rescans and sends take no part in it.
* The tailer calls `SyncOnce` until it is at the tip, then `MempoolSyncOnce`, every three
  seconds or when woken.
* The node is asked for blocks by height and hash and for its mempool; it
  reorganises when it likes.

### Hard behaviours

Those of `"hazards"` in `PROJECT.json`, each with its line: interleavings of an
operation's steps with wallet calls and with the node; reorgs inside the ring,
at its edge and below it; mempool conflicts; process death between an apply and
its commit; and the boundaries of the window, the batch and the prune floor.

## 2. Plan

Most important first. Each item is one or more modules with an MC module, its
runs and, where marked, proofs.

1. `OyoUtxo`, `OyoLedger`, `MCOyoLedger`, `OyoUtxoProofs`, `OyoLedgerProofs`,
   `OyoLedgerChainProofs`: the canonical wallet ledger. *Done; proofs of types and
   balances, and of the totals, the tracked transactions and the coins against the
   chain under the conditions of section 10.*
2. `OyoSync`, with the abstract specification `OyoMirror`, `MCOyoSync`,
   `OyoSyncProofs`: the sync operation RPC by RPC.
   *Done; proofs of all invariants of its run and of the refinement.*
3. `OyoMwebUtxo`, `OyoMweb`, `MCOyoMweb`, `OyoMwebProofs`: the MWEB ledger.
   *Done; proofs of types, balances, conservation, marks and the chain's outputs.*
4. `OyoQueue` with the abstract task life cycle `OyoTask`, `MCOyoQueue`,
   `OyoQueueProofs`. *Done; proofs of types, single sending and the
   refinement.*
5. `OyoRegistry`, `MCOyoRegistry`, `OyoRegistryProofs`: handles, addresses,
   tailer, Resync. *Done; proofs of all five invariants.*
6. `OyoPrefetch`, `MCOyoPrefetch`, `OyoPrefetchProofs`: the prefetcher under a
   sync operation. *Done; proofs of all four invariants of its run.*
7. Not begun, in this order: the branch-and-bound selection against a
   reference definition over bounded inputs; the confirm-token cache composed
   with the queue; the explorer's mempool watcher; authentication.

How they fit together: `OyoLedger` EXTENDS `OyoUtxo`, `OyoMweb` EXTENDS
`OyoMwebUtxo`; both take a sync as `ApplyBlock`, `RollbackTip` and
`RollbackBelowRing`, which `OyoSync` splits into RPCs, leaving out what they do
to wallets. `OyoPrefetch` stands between `OyoSync` and the node: its `walked` is what
`walk` and `SyncBlock` of `OyoSync` take from the node directly. `OyoRegistry` runs those operations as a whole, and
`OyoQueue` has of the registry what a task can notice.

## 3. The ledger: `OyoUtxo` and `OyoLedger`

`OyoUtxo` is one outpoint: the `Utxo` record of `Address::utxos`, the share it
has in the cached totals of its address, and the single-writer helpers as
operators on that cell, one per helper, with the same branches.
`OyoLedger` is the system: node, applied chain, ring, mirror, mempool set,
addresses and wallets.

| Variable | Code |
|---|---|
| `nodeAt`, `nodeTip`, `pool` | the node: height of each transaction, tip, mempool |
| `at`, `tip` | the chain the engine has applied: `c.tip_height` and the transactions of its blocks |
| `fork` | the last block common to both chains: what comparing the anchor's hash finds |
| `ringBase` | `c.blocks` holds heights `ringBase+1 .. tip` |
| `durable` | the height the committed mirror has reached; the difference to `tip` is the open batch |
| `mempool` | `c.mempool`: absent, tracked, or tracked with `promoted` |
| `notOurs` | `c.mempool_seen_not_ours` |
| `fetching` | the mempool operation in flight: what it has still to fetch |
| `utxo` | `addr.utxos` with the totals of the address |
| `balance` | `balance_sat` of each wallet |
| `sends` | the canonical send operations in flight: built and signed, then perhaps accepted by the node |
| `watchers`, `desync` | the Address fields; without watchers the Address does not exist |

| Action | Code |
|---|---|
| `ApplyBlock` | `SyncAnchor` and `SyncBlock` up to `ApplyBlockLocked`, with the event loop, promotion of tracked transactions, eviction from the ring with its garbage collection, and the commit of a full batch |
| `FinishSync` | `FinishSyncOk`, which flushes an open batch |
| `RollbackTip`, `RollbackBelowRing` | `RollbackTipLocked`, with events in the ring or with an empty ring |
| `MempoolList`, `MempoolFetch`, `MempoolAbort` | the two handlers of the mempool operation and its failure |
| `OpenWallet`, `NewAddress`, `WatchAdd`, `WatchRemove`, `CloseWallet` | `open_regular` and its relatives |
| `Rescan` | `RunWalletRescanFromMirrorLocked`, over all or some of a wallet's addresses |
| `SendBuild`, `SendBroadcast`, `SendAnswer`, `SendFail` | `FinalizeRegularSendOp` (candidates, change address, signing), the node's acceptance, `RegularSendHandleResp` (the marks), and a refusal or a lost answer |
| `Crash` | process end and `chain_open` on the committed mirror |
| `NodeAccept`, `NodeEvict`, `NodeMine`, `NodeReorg` | external |

How data is abstracted:

* *Amounts are formal.* An amount never changes, so each total is kept as one
  integer coefficient per outpoint: `total += amount` adds 1 to it. A total is
  right for every choice of amounts exactly when each coefficient is. The proofs
  are therefore about all amounts.
* `notified` and `missed` accumulate, per cell, what a handler tells the
  watchers and whether it failed to find the coin. `Write` delivers both when
  the handler ends: the handler is atomic under the context mutex.
* A block is the set of transactions at a height. Within it an outpoint is
  created before it is spent, which consensus demands.
* `fork` replaces block hashes. Once the node reorganises, its new blocks are
  taken to differ from the old ones, also where they have the same
  transactions.
* The comparison of the anchor and the application of one block are one step of
  the model; the RPCs between them belong to `OyoSync`.
* `max_reorg_depth`, coin maturity, the explorer's `mempool_view` and everything
  MWEB are left out here.
* A node with a transaction index, as the documentation asks for, still serves a
  listed transaction after it was mined: `MempoolFetch` may apply one.
* `Opaque` are the outpoints on P2PKH and nested addresses: the script of a
  spent input is derived from a P2WPKH witness only.

### Properties

| Property | Says |
|---|---|
| `TypeOK` | types; that heights stay natural is the one part with content |
| `WalletBalance` | a balance, which is only moved by deltas, equals the sum over the watched addresses |
| `TotalsExact`, `PendingInExact` | the cached totals are what the coins' flags say |
| `TrackedConsistent` | no two tracked pending transactions spend the same coin |
| `CoinsMatchChain` | with the engine's tip on the node's chain, an address not flagged `desync` has exactly the confirmed coins of it |
| `CatchesUp`, `PendingMatchesPool` | when node and wallets stand still, the engine ends at the node's tip, tracking exactly the mempool |

### Runs

`fund` pays `k1`, `child` spends it and pays `k2` back, `rival` conflicts with
`child`. A coin is thereby created, spent, spent again by a chained
transaction and fought over. `MaxHeight` bounds the chain.

| Run | Instance | Shows |
|---|---|---|
| `seeded` | one seeded wallet, three transactions, ring of 1, height 3, every kind of surroundings | the six safety properties through reorgs of depth 1 to 3 (inside the ring, at its edge, below it), conflicts, evictions, restarts, closing and rescans |
| `shared` | a seeded and a watch-only wallet sharing an address, batch of 2, height 2 | `WalletBalance` with attach, detach, derive, replay, rescan in an open batch, reorgs and sends |
| `live` | ring of 2, height 2 | `CatchesUp`, `PendingMatchesPool` |

*Why the bounds are enough.* A coin has at most one creator and one applied
spender, and the helpers act on one coin at a time, so two coins linked by a
transaction and a conflict exercise each branch of each helper. A ring of 1
with three blocks gives every relation of a block to the ring: in it, just
evicted, long evicted. A batch of 2 is the smallest that can be open.

*Fairness.* The tailer runs a sync to its end, then one mempool pass, at every
tick for as long as the process lives, and repeats whatever failed. A call that
is possible again and again is thus made again and again, and, as failures are
not permanent, succeeds in the end: strong fairness of the engine's sync and
mempool actions, weak fairness of ending a mempool operation that cannot
continue. Nothing is assumed of the node or of wallet calls. The properties are
conditioned on `Quiet` (node and wallets come to rest, no more restarts): a node
that never rests need never be caught up with.

## 4. The chain sync: `OyoMirror` and `OyoSync`

`OyoMirror` says what readers of the persistent mirror may rely on at any
moment: it holds the rows of one chain of blocks, of all of them and of no other, and
that chain changes at its top only. `OyoSync` is the operation that keeps it so.
A block is the sequence of choices that leads to it from the first block, because a
hash commits to the ancestors; what is in a block is left to `OyoLedger`.

| Variable | Code |
|---|---|
| `node`, `best` | the node's chain, and the greatest height it has had |
| `raced` | history: the node has left the chain an operation was walking on |
| `tip`, `ring`, `hint`, `done` | `tip_height` with `tip_hash`, `c.blocks`, `node_tip_hint`, `bootstrap_done` |
| `store` | what is committed: block trail, address and spent index rows, their journals, `regular_prune_floor`; the last three per block |
| `batch` | the open batch: what it will write, and `mirror_batch_count` |
| `phase`, `start`, `target`, `walk`, `applied` | the fields of the operation |

| Action | Code |
|---|---|
| `StartSync`, `SyncBlockchainInfo`, `SyncAnchor`, `SyncNextHash`, `SyncBlock` | the functions of these names; each takes the node's answer at that moment |
| `SyncShrink` | one turn of the loop in `SyncBlockchainInfo` that goes down to the node's height |
| `RollbackTip` (in both) | `RollbackTipLocked` and `RollbackPersistentMirrorToLocked`: flush, guard, delete, then memory |
| `Finish` (in three) | `FinishSyncOk` with `MirrorFinalizeBootstrapLocked` |
| `CallFails` | a failed RPC or an answer that makes no sense; the open batch stays open |
| `Crash`, `Shutdown` | the process ends; `oyo_chain_close` flushes first; `oyo_chain_open` resumes from the trail |
| `NodeMine`, `NodeReorg` | external |

| Property | Says |
|---|---|
| `StoresAgree` | trail with open batch has one block per height up to the tip, ends in the tip, and the ring is its upper end |
| `OneBranchUnlessRaced` | the trail is the tip's ancestry, unless the node left the walked chain between two RPCs |
| `DepthBounded` | the two loops of an operation together undo at most `max_reorg_depth` blocks |
| `MirrorsAChain` | `OyoSync` implements `OyoMirror`: index rows are those of the trail's blocks, pruned and missing journals notwithstanding |
| `OneBranch` | the trail is the tip's ancestry, always: the code does not keep it |

The run `sync` has two choices per block, height 4, a ring of 1, `max_reorg_depth` 2,
batches of 2 until the walk first arrives and of 1 then, three blocks per call. *Bounds.* In
the code they are up to 1000, 5000, 100 and 100. With these, reorgs of depth 1 to 4 occur:
in the ring, below it, at `max_reorg_depth` and beyond; journals are missing at
height 0 and 1, and pruned; a batch is open, full, flushed by a rollback, or left
open by a failed call; a call ends with and without having arrived. Colours of branches are
symmetric. The operation may be cut off anywhere, so no fairness is assumed and none
of the properties is about progress. What the run shows on this instance is proved for all in section 10.

Two things are assumed of the surroundings, each with a member of `Env` that lifts it, and
TLC then finds what they prevent:

* While the engine is behind, the node keeps to `max_reorg_depth`. With `"sink"` in
  `Env`, `MirrorsAChain` fails: blocks more than that below the node's tip are
  fed without journals while the guards count from the engine's own tip, so a rollback
  that keeps within them deletes trail entries and leaves index rows behind.
  (The comment before `PruneReorgLogsLocked` says the guard "never over-claims"; it
  knows pruned journals, not those never written.)
* The write of a batch does not fail when it holds blocks that the tip counts
  already. With `"loss"`, `StoresAgree` fails: the batch is dropped and the tip stays
  ahead of the trail. Failures of all other writes are in the run.

The run `mixed` is a finding: `SyncNextHash` takes the hash at the next height of
whatever branch the node is on by then, and nothing compares the block's previous hash with the
tip. A reorg between the two RPCs leaves a block of the old branch under those of the new,
for good, since later anchors match.

Left out: loss of committed but unsynced writes in a power failure, the
cap on journal rows pruned per block (which only delays the floor), and the counters
of rows.

## 5. The send queue: `OyoTask` and `OyoQueue`

`OyoTask` says what the queue owes a task: it waits until it is taken up or called
off, is taken up once, and while it is taken at most one transaction is sent for
it. `OyoQueue` is the code: `q.tasks`, the slice of due tasks the ticker is working
off, the runners (the ticker's goroutine and those of requests), the wallet
registry and the node's wallets.

| Variable | Code |
|---|---|
| `status`, `wallet`, `at` | `QueueTask.Status`, `.Wallet`, `.ScheduledAt` |
| `listed` | `q.tasks` |
| `due` | what is left of the slice in `runDueTasks` |
| `step`, `job`, `name`, `obj` | where a goroutine stands, and its locals |
| `alive` | whether the engine still has the op: closing a handle erases its ops |
| `reg`, `opened`, `node` | registered wallets, those with an open handle, the node's wallets |
| `sends` | transactions the node took for each task |

| Action | Code |
|---|---|
| `AddCheck`, `Add` | `handleQueue`, POST: the wallet is looked up, then `QueueRegistry.Add` |
| `Remove`, `RunNow` | the same names |
| `Clock`, `Tick`, `TakeDue` | time, and `runDueTasks`: collecting under the lock, then one task after the other |
| `Claim`, `Finish` | the two critical sections of `runTask` |
| `Lookup`, `OpenOp`, `Build`, `Hear` | `ExecuteRecipe`, `SendOp`, `RunOp` |
| `NodeTakes`, `NodeRefuses` | the node's side of the broadcast, or of `oyo-send` for a node wallet |
| `Create`, `Unload`, `Load`, `Delete`, `DeleteNodeWallet` | the registry and the handlers that call it |
| `FailWalletTasks` | the last step of both deletions |

A step of a runner is a stretch that holds `q.mu`, the registry's mutex or the
engine's, or one call to the node. What a recipe says is left out: building
from it may fail or succeed. The queue is in memory only, so a restart leaves
nothing to be checked.

| Property | Says |
|---|---|
| `AtMostOnce` | no task is sent twice |
| `DoneMeansSent` | a task reported done was sent |
| `DoneStands` | no step takes that back, deletion of the wallet included |
| `KeepsPromise` | `OyoQueue` implements `OyoTask`; the phase of a task is its status, except that a task in somebody's hands is `taken` even if a deletion has failed it meanwhile |
| `EveryTaskSettles` | a started task ends, a due one is started or removed |

A failed task may have been sent: when the answer is lost, when its wallet is
closed during the broadcast, or when the answer shows no txid. The code accepts this,
so no property excludes it. A task failed by the deletion of its wallet while its send is
under way ends as `done` if the send succeeds, which `DoneStands` allows.
`RunNow` can return a task that is not finished, if the ticker took it first, and
two requests may send from one wallet at once, despite the comment above
`runLoop`: the comment speaks of the ticker alone.

| Run | Instance | Shows |
|---|---|---|
| `queue` | two tasks, the ticker and one request, one name which the node has a wallet of and which may get an OYO wallet | the six properties; the two runners meet in every step, and the lookup may find either wallet or none |

*Bounds.* Two tasks are enough for one to wait in the slice behind another, and two
runners for every race for a task; the safety properties are proved for any number.
`MaxNow` = 1 makes a task due before or after it is added; `MaxLife` = 1 gives
the name one OYO wallet, beside the node's.

*Fairness.* `runLoop` ticks for as long as the process lives, and a runner goes on
with what it began: the RPC client gives up after 120 s, and every failure ends in
`Finish`. Nothing is assumed of requests, of wallets or of the clock.

## 6. The prefetcher: `OyoPrefetch`

`SyncOnce` puts a prefetcher between one sync operation and the node. Workers take
heights from a channel, fetch hash and block, and close the channel of the
entry; the operation looks for the answer it needs in two indexes, waits for at
most two seconds, and asks the node itself when there is none. Blocks are those of
`OyoSync`, each of one unit of bytes.

| Variable | Code |
|---|---|
| `node`, `been`, `reorgs` | the node's tip, the tips it has had since the operation began, how often it has left a branch |
| `entry` | `syncPrefetchEntry`: what it still holds, `err`, whether `done` is closed |
| `byHeight`, `byHash`, `jobs`, `next`, `bytes`, `stop` | the fields of `syncPrefetcher` |
| `work` | where each worker is, and with which height |
| `at`, `goal`, `walk`, `walked` | where the operation is, `target_height`, the hash it was given, the blocks it has applied |

| Action | Code |
|---|---|
| `TakeJob`, `Exit`, `FetchHash`, `FetchBlock`, `FetchFails` | the worker's `select` and `fetch`, RPC by RPC |
| `Anchor` | what the operation does before the walk, past the prefetcher |
| `RequestHash`, `HashArrives`, `HashMissed`, `AskHash` | `CallJSON` for `getblockhash`: `waitHeight`, its end or timeout, the node |
| `RequestBlock`, `BlockArrives`, `BlockMissed`, `AskBlock` | the same for `getblock`: `waitHash` with `consume` |
| `ScheduleMore` | the end of `consume` |
| `Finish`, `CallFails` | the operation ends or fails; the deferred `Close` |
| `NodeMine`, `NodeReorg` | external |

| Property | Says |
|---|---|
| `AnswersAreNodes` | an applied block has the height that was asked for and is of a chain the node had while the operation ran |
| `NoneForgotten` | an entry not done is in the channel or with a worker, once; the channel always has room, so the operation does not block on filling it |
| `WindowExact` | the indexes, the window and the count of bytes agree |
| `SyncEnds`, `WorkersGo` | the operation ends, and then every worker |

The run `prefetch` has two workers, a walk of three heights through a window of two
with room for one buffered block, so that both limits of the window bind, and one
reorganisation of any depth; about 1.4 million states. A call may fail and a wait may
end at any point, and three blocks per call let the operation end with entries
left in every state. It really stops, hence without a check of deadlock. The four
invariants are proved for any number of workers and any bounds (section 10).
`Target` is a height the node had when the operation began, hence at most `MaxHeight`.

*Fairness.* The goroutine of the operation and each worker goes on when it can:
their calls return or fail, waits are bounded. Nothing is assumed of the node.

TLC also shows what the properties deliberately allow:

* `scheduleMore` runs from `consume` only, and an entry that was never consumed, as
  its wait timed out or failed, keeps its place in the window. A few of those,
  and nothing more is prefetched until the operation ends. It then goes on with the node
  alone.
* Entries fetched before a reorganisation are served after it. The window
  in which `mixed` (section 4) can mix two branches is then the whole prefetch,
  not the time between two RPCs, and a walk may even leave the node's new branch
  for the abandoned one.

## 7. The MWEB ledger: `OyoMwebUtxo` and `OyoMweb`

`OyoMwebUtxo` is one output: the record of `MwebAddress::utxos`, its entry in
`c.mweb_utxo_index`, its share in the totals of its address, whether it is in the
pending map, and its mark in `c.mweb_mempool_pending_out`, with one operator per
helper. `OyoMweb` is the system around it. What differs from the canonical side
decides what can go wrong:

* the events of a block are what `ParseMwebBlockEventsLocked` can rewind with the
  keychains, and find in the index, *when the block is applied*;
* a mark is kept per commitment, whereas the amount it moves is that of the index
  entry, if there is one; either can come or go without the other;
* the mempool side is not diffed but reconciled, at the end of a pass, with the
  transactions cached since a consumer exists;
* a wallet opened late is bootstrapped from the mirror, adding only.

| Variable | Code |
|---|---|
| `nodeAt`, `nodeTip`, `pool`, `at`, `tip`, `fork` | as in `OyoLedger` |
| `ring` | `c.mweb_events_per_block` |
| `seen`, `cached`, `foreign`, `fetching` | `mempool_seen_not_ours`, `mweb_mempool_tx_cache`, `mweb_mempool_seen_not_ours`, the fetch list of the operation |
| `utxo`, `desync` | outputs and flags of the addresses |
| `bound`, `balance` | bindings and `mweb_balance_sat` of each wallet |
| `sends` | the send operations in flight |
| `since`, `loose` | history: the height at which an address was bootstrapped last, and whether that block was undone since; the outputs that had a mark and no index entry at the same time |

| Action | Code |
|---|---|
| `ApplyBlock`, `RollbackTip`, `RollbackBelowRing` | the MWEB side of `ApplyBlockLocked` and `RollbackTipLocked` |
| `MempoolList`, `MempoolFetch`, `MempoolAbort` | the handlers of the mempool operation, the last with `ReconcileMwebMempoolFromCacheLocked` |
| `OpenWallet`, `NewAddress`, `Bootstrap`, `CloseWallet` | `open_mweb`, `open_universal`, `new_mweb_address`, `RunWalletBootstrapLocalLocked`, `oyo_wallet_close` |
| `SendBuild`, `SendBroadcast`, `SendAnswer`, `SendFail` | `FinalizeMwebSendOp`, the node, `MwebSendHandleResp` |
| `Crash` | process end and `chain_open` |

| Property | Says |
|---|---|
| `WalletBalance` | `mweb_balance_sat` is the sum over the addresses the wallet has derived |
| `TotalsConserved` | an output counts once in `confirmed_sat` and `pending_out_sat` together while it is there and unspent, else not at all |
| `MarksCounted` | `pending_out_sat` holds a marked output's amount as long as the mark lasts, unless the output is `loose` |
| `CoinsMatchChain` | a bootstrapped address that is not flagged has the chain's unspent outputs, if no block the bootstrap has read was undone in the ring since |
| `PendingFollowsPool` | when node and wallets stand still, outputs are pending and marked for transactions of the mempool only, and the indexed inputs of cached ones are marked |
| `NoPhantom` | `CoinsMatchChain` without the exceptions: what the documentation says, and the code does not keep |

| Run | Instance | Shows |
|---|---|---|
| `mweb` | one wallet, one address, `fund` and `child`, a ring of 1, height 3, with reorganisations, closing and sends; 2.8 million states | types, conservation, marks, the chain's outputs |
| `twins` | two wallets of one seed with two addresses, one of them universal, evictions, restarts, closing and sends, height 2 | balances of shared addresses, `PendingFollowsPool` |
| `phantom` | one wallet, height 1, reorganisations | a wallet bootstrapped after the blocks in the ring were parsed keeps the outputs of a block that is rolled back, unflagged |

*Bounds.* Helpers act on one output at a time, so one that is created and one that
a spend of it creates reach every branch. `MaxDrift` = 1 stops new
reorganisations once some output's `pending_out_sat` is off by more than one unit,
which a reorganisation can repeat without end (below). *Fairness* is that of
the ledger (section 3).

Assumed of the node: it mines no output together with its spender, because
`ParseMwebBlockEventsLocked` looks inputs up before it has added the outputs of the
block. In the MWEB of a block such a pair may well occur; the spend is then
missed. Left out: peg-ins and peg-outs, the arithmetic of `mweb.cpp` (an output is
rewound by the keychain that owns its address), and batches of more than one block.

What TLC shows, and the properties leave room for:

* `RemoveMwebUtxoLocked` takes the amount from `confirmed_sat` whether or not a mark
  has already moved it: `confirmed_sat` ends at -1 and `pending_out_sat` at 1 for an
  output that is gone. `TotalsConserved` says that the two still add up.
* A mark that is taken off while its output has no index entry leaves the
  amount in `pending_out_sat` for good.
* The answer to a send marks an output that may have lost its entry
  since; a later pass finds mark and entry and counts neither. Hence `loose`.
* An output that was spent already when a wallet was bootstrapped gets no index
  entry: if its spender is rolled back it stays spent.
* Reconciling while the node has reorganised and the engine not yet, marks outputs that
  the applied chain has spent.
* The largest-first selection (4048-4053) asks for confirmed and unspent, not for the
  mark: the next send may choose the inputs of the last one, which the node then
  refuses.
* `mweb_mempool_seen_not_ours` is not cleared by a new address, and a pure MWEB wallet
  does not clear `mempool_seen_not_ours`: what was seen before it opened is fetched again only if it was
  not seen as somebody else's.
* The flag of an MWEB address is never cleared: neither bootstrap nor rescan does it, only
  the address goes when its last wallet closes.

## 8. The registry and the tailer: `OyoRegistry`

`wallet.go` has one mutex for the registry (`r.mu`), one per wallet, and `syncMu` for whole
sync operations; `Resync` replaces the chain below all of them. `OyoRegistry` has each
stretch that holds one of them, or an engine call, as a step.

| Variable | Code |
|---|---|
| `chain`, `desync` | `r.chain` and the identity gate |
| `syncOp`, `syncMu` | whether the operation of the holder of `syncMu` is alive; the holder |
| `status`, `derived`, `count` | state of each wallet, the addresses on its handle per side, `mwebAddressCount` |
| `req`, `mu` | where each request stands and whether the handle it fetched is alive; the Resync that holds `r.mu` |
| `tail`, `tailQuit`, `starting` | the goroutines of `StartTailer`, the one whose channel `r.tailQuit` is, and the calls `Resync` has put off to `go r.StartTailer` |

| Action | Code |
|---|---|
| `CreateUniversal`, `Unload`, `Load`, `Delete` | the same names, with `reopenWalletLocked` |
| `Get`, `LiveHandle`, `NewAddress`, `CountAddress`, `Build` | a handler: registry lookup, `liveHandle`, then the engine call on the handle, unlocked, and for MWEB the count |
| `RequestSync`, `RequestSynced` | `engineReadyOrErr` and the queue's: `SyncOnce` before a send |
| `StartTailer`, `StopTailer`, `Tick`, `Quit`, `CheckIntegrity`, `TailSync`, `TailSynced`, `MarkDesync`, `TailMempool`, `TailListed` | the tailer |
| `ResyncStop`, `ResyncCloseWallets`, `ResyncCloseChain`, `ResyncReopen`, `ResyncFails`, `ResyncEnd` | `Resync`, from stopping the tailer to starting the next |

| Property | Says |
|---|---|
| `HandlesBacked` | no handle and no operation on it outlives the wallet's being loaded, no loaded wallet and no sync operation the open chain |
| `TailerReachable` | a tailer not told to quit is the one `StopTailer` reaches, so there is one at most |
| `TailerReturns` | with the chain open and no Resync under way a tailer runs or is about to start |
| `AddressesCounted` | the count a wallet is reopened with covers its MWEB addresses but for those a request is about to count |
| `AddressesRestored` | reopening brings back the addresses of the last handle: what the documentation says, and the code does not keep |

| Run | Instance | Shows |
|---|---|---|
| `registry` | one wallet, two requests and two tailers (symmetric), two addresses; 4 million states | the invariants, with overlapping Resyncs, tailers that live on while the chain is replaced, and requests at every point of it |
| `forgotten` | one wallet, one request | a canonical address requested after the creation is not derived again after unloading and loading, or a Resync |

*Bounds.* The proofs hold for any of them. Two requests are one Resync against
another or against an operation; two tailers are an old one that has not looked at its
channel yet beside the new one (a third start waits until one has ended);
`MaxStarting` bounds the starts not yet scheduled, and with them Resyncs.
No property is about progress, so no fairness is stated: a tailer lives for ever, and
what it achieves is `CatchesUp` of section 3.

What TLC shows besides:

* `StopTailer` closes a channel and does not wait. An old tailer's sync is still in flight while
  `Resync` replaces the chain; its operation dies with the chain, but it may
  set the identity gate, or store the old node's genesis, after `Resync` cleared both.
* Between deriving an MWEB address and counting it, `Unload` and `Load` restore one
  address less than there was.
* `Resync` opens all registered wallets, those that the user had unloaded too.
* A `Resync` that fails starts no tailer and leaves `r.chain` nil.
* Handlers that call `SyncOnce` do not ask the identity gate.

Left out: watch-only and one-sided wallets, a wallet that alone cannot be reopened, and
closing the registry at process end.


## 9. Other behaviour seen with TLC

Three disagreements with the documentation are runs that end in a counterexample and
`findings`: `mixed` (section 4), `phantom` (section 7) and `forgotten` (section 8).
The following was seen while modelling; it is the reason for the choice of
instances and for the conditions in some properties.

The ledger:

* A pending spend fetched between the opening of a seeded wallet and its
  rescan does not find the coin it spends, is tracked all the same, and is
  never applied to it: the rescanned coin is offered for spending. Watch-only
  addresses are shown the tracked transactions, seeded ones are not.
* An address unwatched while its payment is confirmed and watched
  again is shown that payment as pending; the rescan does not replace the pending
  entry, clears `desync`, and the next mempool pass erases the coin. `CoinsMatchChain`
  is therefore checked with a seeded wallet. The same sequence leaves
  `pending_in_sat` at -1 for the coin, and, together with a reorg below the
  ring, a spent unconfirmed coin that is later promoted while spent:
  `PendingInExact` and `TotalsExact` are stated for seeded wallets, too.
* The spend of a coin on a P2PKH or nested address makes no event, as its script is
  not derived from the witness: `CoinsMatchChain` excepts `Opaque` coins.
* The mark a send sets on its inputs is rolled back only with a
  tracked transaction; one that left the node's mempool before it was fetched
  leaves the coin marked until the wallet is closed. MWEB marks are reconciled instead and
  do go (`PendingFollowsPool`).
* The answer to a send sets its mark past the helpers: if the coin was spent by
  a block or demoted by a reorg since the broadcast, the mark is counted in no
  total, and the later rollback of it takes from `pending_out_sat` what was
  never added. `TotalsExact` is therefore checked without sends, and what the
  marks do to the balances in `shared`.
* A reorg below the ring leaves a rescanned address flagged and without its
  confirmed coins until somebody rescans it: the tailer never does, though
  `main.go:38-40` says that such a reorg "still resolves correctly".
* With `BatchTarget` 2 a rescan while a bootstrap batch is open reads the
  committed mirror and clears `desync`: coins of the batch are missing, and
  coins spent in it are revived. `CoinsMatchChain` is checked with batches of
  1, the steady state.
* After `RollbackBelowRing` a tracked transaction keeps its `promoted` mark
  though its block is gone, until the next mempool pass or block.
* `NewAddress` clears `desync` of an address that may have a history.

The queue:

* A task that is removed while the ticker works off its slice is still in it, pending,
  and is sent after its removal was confirmed.
* A task added around the deletion of its wallet (looked up before, added after
  `FailWalletTasks`) stays pending without a wallet, or goes to the next one of that name.

The sections on the prefetcher, the MWEB ledger and the registry end with theirs.

## 10. Proofs

`OyoUtxoProofs` proves of each helper, for every cell: the deltas it notifies
are the change of `confirmed_sat` (`Follows`, through `Drift`), and a cell whose
three totals agree with its flags stays so (`Sound`), under the helper's
precondition where it has one (a demoted coin is not spent; a spent coin is
confirmed or unknown).

`OyoLedgerProofs` proves, for all transactions, scripts, wallets, windows,
batches and amounts:

* `TypeCorrect == Spec => []TypeOK`
* `BalanceCorrect == Spec => []WalletBalance`

`WalletBalance` is not inductive: a handler's notification is delivered at its
end, so an invariant needs that no cell carries an undelivered one (`Delivered`),
and a wallet that attaches an address adds the cached total while cells of an
unregistered address must count nothing (`Absent`). `BalanceInv` is the
conjunction of these with the types. The proof goes by kind of handler: those that
`Write` (`WriteInv`), that attach (`AttachInv`), that detach (`DetachInv`) and
rescans (`RescanInv`); each action is then shown to be one of them with cells
that follow from the old ones.

`OyoLedgerChainProofs` proves of the same module, with the hypotheses on the right:

| Theorem | Says | If |
|---|---|---|
| `TrackedNeverConflict` | `[]TrackedConsistent` | |
| `TotalsCorrect`, `PendingInCorrect` | `[]TotalsExact`, `[]PendingInExact` | `Steady`, no `"send"` in `Env` |
| `BookedCoinsMatchChain` | `[]` of `CoinMatchesChain` for the `Booked` coins | `Steady`, `BatchTarget = 1` |
| `CoinsCorrect` | `[]CoinsMatchChain` | the same, and no address derived on request |

Each hypothesis keeps out one behaviour of the code that section 9 describes, and
that really breaks the property. `Steady`: either no wallet is watch-only or none is
given up, so that no address is watched a second time after the engine forgot it (its payment is
shown as pending then, though its block is applied). No sends: the answer marks a coin past the helpers.
`BatchTarget = 1`: a rescan in an open batch misses the coins of the batch. `Booked`
are the coins of addresses the wallet opens with or watches, whose spending an
input shows: one derived on request is taken to have no history. The instance of the run `seeded`
satisfies all of them, with reorganisations, evictions, restarts, closing and rescans.

None of the five is inductive. What they need, and TLC has checked on the states of `seeded`:

* `ChainInv`: both chains are `Ordered` (inputs are created no later than spent, and
  spent once), agree up to `fork`, and what is tracked or still to be fetched comes from one listed
  mempool (`ListedInv`), hence is free of conflicts. The rest of the list is
  fetched after the node may have changed its mempool altogether, so an invariant about what is tracked
  alone would not do.
* `FitInv`: what the flags of a coin say of the applied chain. A coin known as
  pending was created by no common block, a spent one has its spender applied, a confirmed one
  its creator. From this a handler that demotes a coin knows that it is not spent, and one
  that confirms it that it is not counted yet: the preconditions of the helpers. `OursInv` is
  why a tracked transaction is some wallet's when it is confirmed or dropped.
* `SoundInv`: every cell is `Sound`, given that.
* `MatchInv`: no coin of the common chain is lost without the flag and none is live
  whose spender is applied. It is `CoinsMatchChain` without its condition that the tip is on the node's
  chain, so it survives the states between a reorganisation and the rollbacks that answer it.

`OyoMwebProofs` proves, for all outputs, transactions, seeds, wallets and windows:

* `MwebTyped`, `MwebBalanceCorrect == Spec => []WalletBalance`,
  `MwebConserved == Spec => []TotalsConserved`,
  `MwebMarksCounted == Spec => []MarksCounted`.

`MwebInv` is the conjunction of the types with, of every cell, that nothing is
undelivered, that the two totals add up (its `Excess` is 0), and that
it is counted while marked unless it is loose (`CellSound`). Every helper is an `Effect`:
it changes `confirmed_sat` by what it notifies and keeps `Excess`, and parts a mark from
what it counts only by making it loose. Most are `Firm`: they do not even that.
Effects compose with `Firm` ones, so that each handler, a composition of helpers with
at most one that is not `Firm`, is one; `WriteInv` then gives the invariant
after any handler that writes such cells.

* `MwebCoinsCorrect == Spec => []CoinsMatchChain`, without further conditions: the
  exceptions are in the property, as `since` and `desync`.

`MwebChainInv` is what it needs, besides the types. `RingInv` ties an entry of the ring to
the block it is of. `Rooted` says that the index leads to outputs that are there.
Of an address that is not flagged and has not been undercut, the flags of an output are those of the applied chain
(`OfChain`), and a block younger than its bootstrap can be undone from its ring entry
(`Undoable`). The last is the heart of it: the code undoes a block by what was parsed
when it was applied, not by the block, so the entry must name what the block made and took; an
older block's entry may not, and the rollback of such a block is what `since` remembers as `Undercut`
(`phantom` shows that it really loses the outputs).
TLC has checked `MwebChainInv` on all states of the run `mweb`.

`OyoQueueProofs` proves, for any tasks, names, requests and bounds:

* `QueueTypes`, `SentOnce`, `DoneWasSent`: the invariants of the run `queue`;
* `DoneForGood == Spec => DoneStands`;
* `QueueKeepsPromise == Spec => KeepsPromise`.

`AtMostOnce` is not inductive: that the node takes the transaction of a task with
none yet follows from where the runner stands (`Counted`), that no other
runner stands there from `Exclusive`, and that a runner may claim a pending task
from `Held` (nobody executes a pending task) and `Fresh` (nothing was sent for
it). `Adding` keeps a task from being added over a running one. Their
conjunction with the types is `QueueInv`. For the refinement, steps that leave who
executes what (`BystanderStep`, `WorkerStep`) and the statuses alone are stutters;
the six others are steps of `OyoTask`.

`OyoSyncProofs` proves, for any choices, window, depth, batch, blocks per call and
length of chain, if `"loss"` is not in `Env` (`NoLoss`):

* `SyncTyped`, `MemoryAndMirrorAgree`, `UndoBounded`, `BranchUnlessRaced`: the four
  invariants of the run `sync`.

`SyncInv` puts the trail and the open batch together as one `Stack`, a block of each
length: the trail has the lower ones, the batch those above it up to the tip (`Agree`),
and the ring is the upper end and is not empty while a batch is open (`Laid`). The
last is what lets a rollback take its target from the ring or the committed trail alone
(`BelowTip`). `Placed` is where an operation stands: the block it fetched is one above
the tip, and what `start` and `target` leave to undo is within the depth. `BranchInv`
adds that the stack is under the tip, and the tip, or the block fetched, under the node, unless `raced`.

It also proves, if `"sink"` is not in `Env` either (`NoSink`),

* `SyncKeepsPromise == NoLoss /\ NoSink => (Spec => MirrorsAChain)`.

A rollback deletes the index rows of a block by its journal, so the block it takes off
must have one. `Covered`: a block without a journal is below the pruned floor, where
the guard refuses, or `Safe`: on the node's chain, more than `max_reorg_depth` below the
greatest height it had, and not above where a shrinking undo stops, so that neither the
undo nor a mismatch at the anchor reaches it. `NodeReorg` keeps safe blocks safe
because the node keeps to the depth, or because the engine has reached its greatest height and
so pruned above all of them; that needs the floors of `Journals`, and of `Bounds` that no batch
is open then. Both conditions are necessary: section 4 says what TLC finds when `Env` lifts them.
Each step then grows the trail or takes off its last block (`TrailStep`), which is a
`Push`, a `Pop` or a stutter of `OyoMirror`, whose `stack` is the trail by height (`Tower`).

`OyoRegistryProofs` proves, for any wallets, requests, tailers and bounds:

* `RegistryTyped`, `HandlesStayBacked`, `OneTailer`, `TailerComesBack`,
  `MwebAddressesCounted`: the five invariants of the run `registry`.

`RegistryInv` adds to the first four that a request past its lookup has a wallet
(`HasWallet`), that a request in the middle of a Resync holds `r.mu` (`Locked`), and that the
tailer of `tailQuit` runs and was not told to quit (`TailerKept`): a Resync's steps then
exclude each other, and overlapping ones meet at `ResyncStop` and `StartTailer` alone. `AddressesCounted`
compares a count with the number of requests about to add to it, and is proved on top of it with
lemmas on cardinalities (`DerivedOne`, `CountedOne`): only `NewAddress` adds a request to that
set, only `CountAddress` takes one away.

`OyoPrefetchProofs` proves, for any number of workers, window, byte bound and heights:

* `PrefetchTyped`, `AnswersAreNodesBlocks`, `NothingForgotten`, `WindowKept`: the four
  invariants of the run `prefetch`.

`NoneForgotten` counts who carries a height. `PrefetchInv` has its two halves: whoever
carries one carries it alone, and it is not answered (`JobsInv` of the channel, `WorkInv` of the workers);
and one that is not answered is carried (`CarriedInv`). `EntryInv` relates the entries to
both indexes: `consume` may free a slot only because an entry with its block is done
and in both. `WalkInv` adds that the hash an operation walks with is of a chain the node
had, and that it only waits for heights that are in the window. The channel has room
because its heights are distinct and in the window (`ChannelBound`). TLC has checked
`PrefetchInv` on all states of the run.

Assumptions are those of the modules: `QueueAssumption`, `NobodyAssumption`, `OwnerAssumption`,
`TxAssumption`, `WalletAssumption`, `BoundAssumption`, `MwebAssumption`, `RegistryAssumption`,
`RequestsFinite`, `SyncAssumption`, `PrefetchAssumption`,
`OpaqueAssumption`, `EnvAssumption`; TLC evaluates them on every run.

Every safety invariant and action property that a passing run checks is so stated by a theorem.
Only model-checked are the liveness properties (`CatchesUp`, `PendingMatchesPool`,
`PendingFollowsPool`, `EveryTaskSettles`, `SyncEnds`, `WorkersGo`), which are beyond the
prover.

## 11. Not modelled

* The confirm-token cache (`api.go` 60-116): a map under one mutex, and a token is
  taken out before it is used, so one request at most has it. What the broadcast then does to
  the wallets is modelled with sends.
* The explorer's mempool watcher and the engine's `mempool_view`: caches for display
  that no wallet state depends on.
* Authentication and throttling: session and delay state apart from the wallets.
* Coin selection by branch and bound, fees and maturity; peg-ins and peg-outs; the
  arithmetic of `mweb.cpp`. The models take any choice of inputs.
* The JSON-RPC client, seed words, request routing and the frontend, which keep no state the
  other parts rely on; the build scripts.
* Power failures that lose committed but unsynced writes.
