------------------------------ MODULE OyoMweb ------------------------------
(***************************************************************************)
(* The MWEB ledger of the engine: outputs, pending outputs and pending     *)
(* spends of wallets that scan for their own, fed by the same blocks,      *)
(* reorganisations and mempool passes as OyoLedger, by wallets that open,  *)
(* derive addresses, bootstrap from the mirror and close, and by sends.    *)
(*                                                                         *)
(* Transactions are those with MWEB parts only.  The mirror commits every  *)
(* block (steady state).                                                   *)
(***************************************************************************)
EXTENDS OyoMwebUtxo, Sequences, FiniteSets

CONSTANTS
  Coin,      \* outputs, by commitment
  Tx,        \* transactions
  Outs, Ins, \* outputs a transaction creates and spends
  Addr,      \* stealth addresses
  Owner,     \* address of each output
  Wallet,
  Book,      \* the addresses of a wallet's seed, in the order of their index
  Universal, \* wallets with a canonical side too
  RollbackWindow,
  MaxHeight, \* bound on the chain length
  MaxDrift,  \* bound on what lost marks add up to, see NodeReorg
  Env        \* what the surroundings do, a subset of EnvFeature

EnvFeature == {"reorg", "evict", "chained", "restart", "close", "send"}

SeqRange(s) == {s[i] : i \in 1..Len(s)}

ASSUME MwebAssumption ==
  /\ Outs \in [Tx -> SUBSET Coin] /\ Ins \in [Tx -> SUBSET Coin]
  /\ \A t \in Tx : Outs[t] \cap Ins[t] = {}
  /\ \A s, t \in Tx : s # t => Outs[s] \cap Outs[t] = {}
  /\ Owner \in [Coin -> Addr]
  /\ Book \in [Wallet -> Seq(Addr)]
  /\ Universal \subseteq Wallet
  /\ RollbackWindow \in Nat \ {0} /\ MaxHeight \in Nat
  /\ MaxDrift \in Nat
  /\ Env \subseteq EnvFeature

VARIABLES
  nodeAt, nodeTip, pool, \* the node, as in OyoLedger
  at, tip, fork,         \* the chain the engine has applied, as in OyoLedger
  ring,     \* mweb_events_per_block
  seen,     \* mempool_seen_not_ours
  cached,   \* mweb_mempool_tx_cache
  foreign,  \* mweb_mempool_seen_not_ours
  fetching, \* mempool op in flight: transactions still to be fetched
  utxo,     \* Coin -> Cell
  desync,   \* addr.desync
  bound,    \* number of mweb_bindings of each wallet, or Closed
  balance,  \* wallet -> mweb_balance_sat, a formal sum over the outputs
  sends,    \* send ops in flight
  since,    \* history: the height at which an address was last bootstrapped
  loose     \* history: outputs that had a mark and no index entry

nodeVars  == <<nodeAt, nodeTip, pool>>
chainVars == <<at, tip, ring>>
poolVars  == <<seen, cached, foreign, fetching>>
coinVars  == <<utxo, desync, balance, loose>>
vars == <<nodeVars, chainVars, fork, poolVars, coinVars, bound, sends, since>>

Closed == -1
Unsure == -1            \* not bootstrapped since it was registered
Undercut == MaxHeight + 1 \* the chain has been below that height since

MinOf(a, b) == IF a < b THEN a ELSE b

-----------------------------------------------------------------------------
(* The node.  It mines no output together with its spender: the engine     *)
(* takes the inputs of a block for older than its outputs.                 *)

Consistent(S) ==
  \A t \in S : \A c \in Ins[t] :
    /\ \E p \in S : c \in Outs[p]
    /\ \A q \in S \ {t} : c \notin Ins[q]

NodeChain == {t \in Tx : nodeAt[t] > 0}
Survivors(S, C) == UNION {P \in SUBSET S : Consistent(C \union P)}

Accepts(t) ==
  /\ t \notin pool \union NodeChain
  /\ Consistent(NodeChain \union pool \union {t})
  /\ "chained" \in Env \/ Consistent(NodeChain \union {t})

NodeAccept(t) ==
  /\ Accepts(t)
  /\ pool' = pool \union {t}
  /\ UNCHANGED <<nodeAt, nodeTip, fork, chainVars, poolVars, coinVars, bound, sends, since>>

NodeEvict(t) ==
  /\ "evict" \in Env
  /\ t \in pool
  /\ pool' = Survivors(pool \ {t}, NodeChain)
  /\ UNCHANGED <<nodeAt, nodeTip, fork, chainVars, poolVars, coinVars, bound, sends, since>>

NodeMine(S) ==
  /\ nodeTip < MaxHeight
  /\ S \cap NodeChain = {}
  /\ Consistent(NodeChain \union S)
  /\ \A s, t \in S : Outs[s] \cap Ins[t] = {}
  /\ nodeTip' = nodeTip + 1
  /\ nodeAt' = [t \in Tx |-> IF t \in S THEN nodeTip + 1 ELSE nodeAt[t]]
  /\ pool' = Survivors(pool \ S, NodeChain \union S)
  /\ UNCHANGED <<fork, chainVars, poolVars, coinVars, bound, sends, since>>

(* Every mark that a reorganisation loses adds to what pending_out_sat is  *)
(* off by; the bound is on that.                                           *)
NodeReorg(h) ==
  /\ "reorg" \in Env
  /\ \A c \in Coin : utxo[c].pending_out_sat \in (-MaxDrift)..MaxDrift
  /\ h < nodeTip
  /\ nodeTip' = h
  /\ nodeAt' = [t \in Tx |-> IF nodeAt[t] > h THEN 0 ELSE nodeAt[t]]
  /\ pool' = pool \union {t \in Tx : nodeAt[t] > h}
  /\ fork' = MinOf(fork, h)
  /\ UNCHANGED <<chainVars, poolVars, coinVars, bound, sends, since>>

-----------------------------------------------------------------------------
(* What the handlers share.                                                *)

Bound(w) == {Book[w][i] : i \in 1..(IF bound[w] > 0 THEN bound[w] ELSE 0)}
Watchers(a) == {w \in Wallet : a \in Bound(w)}
Registered(a) == Watchers(a) # {}
Known(c) == Registered(Owner[c])

(* A keychain or an index entry; the index is empty without wallets. *)
Consumers == \E w \in Wallet : bound[w] # Closed

(* The state after a handler that leaves the cells n. *)
Write(n) ==
  /\ utxo' = [c \in Coin |-> Settle(n[c])]
  /\ balance' = [w \in Wallet |-> [c \in Coin |->
                   IF Owner[c] \in Bound(w) THEN balance[w][c] + n[c].notified
                                            ELSE balance[w][c]]]
  /\ desync' = [a \in Addr |-> desync[a] \/ \E c \in Coin : Owner[c] = a /\ n[c].missed]
  /\ loose' = loose \union {c \in Coin : n[c].marked /\ ~n[c].indexed}

CreatedBy(c, h) == \E t \in Tx : at[t] \in 1..h /\ c \in Outs[t]
SpentBy(c, h)   == \E t \in Tx : at[t] \in 1..h /\ c \in Ins[t]
Unspent(c, h)   == CreatedBy(c, h) /\ ~SpentBy(c, h)

OutsOf(S) == UNION {Outs[t] : t \in S}
InsOf(S)  == UNION {Ins[t] : t \in S}

-----------------------------------------------------------------------------
(* Chain sync.                                                             *)

(* ParseMwebBlockEvents: what it makes of a block depends on the addresses *)
(* and the index at that moment.                                           *)
Events(B) == [adds |-> {c \in OutsOf(B) : Known(c)},
              spends |-> {c \in InsOf(B) : utxo[c].indexed}]

ApplyEvent(u, c, e) ==
  CASE c \in e.adds                       -> AddUtxo(RemovePending(u))
    [] c \in e.spends \ e.adds            -> SpendUtxo(RemovePendingSpend(u))
    [] c \notin e.adds \union e.spends    -> u

(* The spends of the block that leaves the ring, if one does. *)
LeavesRing == IF Len(ring) < RollbackWindow THEN {} ELSE ring[1].spends

PushedUntrimmed(e) == Append(ring, e)
Pushed(e) == IF Len(ring) < RollbackWindow THEN Append(ring, e) ELSE Append(Tail(ring), e)

ApplyBlock ==
  LET B == {t \in Tx : nodeAt[t] = tip + 1}
      e == Events(B)
  IN
  /\ fetching = {}
  /\ fork = tip
  /\ tip < nodeTip
  /\ Write([c \in Coin |-> LET u == ApplyEvent(utxo[c], c, e)
                           IN  IF c \in LeavesRing THEN GcUtxo(u) ELSE u])
  /\ foreign' = foreign \ e.adds
  /\ ring' = Pushed(e)
  /\ at' = [t \in Tx |-> IF t \in B THEN tip + 1 ELSE at[t]]
  /\ tip' = tip + 1
  /\ fork' = tip + 1
  /\ UNCHANGED <<nodeVars, seen, cached, fetching, bound, sends, since>>

RollbackEvent(u, c, e) ==
  CASE c \in e.adds                       -> RemoveUtxo(u)
    [] c \in e.spends \ e.adds            -> UnspendUtxo(u)
    [] c \notin e.adds \union e.spends    -> u

(* What both ways to undo the tip do to the chain. *)
PopTip ==
  /\ fetching = {}
  /\ fork < tip
  /\ at' = [t \in Tx |-> IF at[t] = tip THEN 0 ELSE at[t]]
  /\ tip' = tip - 1
  /\ UNCHANGED <<nodeVars, fork, poolVars, bound, sends>>

RollbackTip ==
  /\ ring # <<>>
  /\ PopTip
  /\ Write([c \in Coin |-> RollbackEvent(utxo[c], c, ring[Len(ring)])])
  /\ ring' = SubSeq(ring, 1, Len(ring) - 1)
  /\ since' = [a \in Addr |-> IF since[a] >= tip THEN Undercut ELSE since[a]]

(* A reset that flags nobody. *)
RollbackBelowRingUnseen ==
  /\ ring = <<>>
  /\ PopTip
  /\ Write([c \in Coin |-> IF Known(c) THEN InvalidateUtxo(utxo[c]) ELSE Unindex(utxo[c])])
  /\ UNCHANGED <<ring, since>>

RollbackBelowRing ==
  /\ ring = <<>>
  /\ PopTip
  /\ Write([c \in Coin |-> IF Known(c) THEN Missed(InvalidateUtxo(utxo[c]))
                                       ELSE Unindex(utxo[c])])
  /\ UNCHANGED <<ring, since>>

-----------------------------------------------------------------------------
(* Mempool sync: the list, one fetch per transaction not seen before, and  *)
(* the reconciliation of what is cached, in the handler of the last one.   *)

ReconcileUtxo(u, c, C) ==
  LET add == c \in OutsOf(C) /\ c \notin foreign /\ Known(c)
      in  == IF c \in OutsOf(C) THEN IF add THEN AddPending(u) ELSE u
                                ELSE RemovePending(u)
  IN  CASE c \in InsOf(C) /\ u.indexed    -> AddPendingSpend(in)
        [] c \in InsOf(C) /\ ~u.indexed   -> in
        [] c \notin InsOf(C)              -> RemovePendingSpend(in)

(* Outputs that nobody rewinds, of the cached transactions. *)
Foreign(C) ==
  {c \in OutsOf(C) : c \in foreign \/ (~Known(c) /\ ~utxo[c].pending)}

Reconcile(C) ==
  IF Consumers \/ \E c \in Coin : utxo[c].pending \/ utxo[c].marked
  THEN /\ Write([c \in Coin |-> ReconcileUtxo(utxo[c], c, C)])
       /\ foreign' = Foreign(C)
  ELSE UNCHANGED <<coinVars, foreign>>

(* A pass that reconciles with the transactions it still has cached. *)
MempoolListStale ==
  /\ fetching = {}
  /\ seen' = seen \intersect pool
  /\ fetching' = pool \ seen
  /\ UNCHANGED cached
  /\ IF pool \ seen = {} THEN Reconcile(cached) ELSE UNCHANGED <<coinVars, foreign>>
  /\ UNCHANGED <<nodeVars, chainVars, fork, bound, sends, since>>

MempoolList ==
  /\ fetching = {}
  /\ seen' = seen \intersect pool
  /\ cached' = cached \intersect pool
  /\ fetching' = pool \ seen
  /\ IF pool \ seen = {} THEN Reconcile(cached') ELSE UNCHANGED <<coinVars, foreign>>
  /\ UNCHANGED <<nodeVars, chainVars, fork, bound, sends, since>>

(* With a transaction index the node still serves what was mined since. *)
MempoolFetch(t) ==
  /\ t \in fetching
  /\ t \in pool \union NodeChain
  /\ seen' = seen \union {t}
  /\ cached' = IF Consumers THEN cached \union {t} ELSE cached
  /\ fetching' = fetching \ {t}
  /\ IF fetching = {t} THEN Reconcile(cached') ELSE UNCHANGED <<coinVars, foreign>>
  /\ UNCHANGED <<nodeVars, chainVars, fork, bound, sends, since>>

MempoolAbort ==
  /\ fetching # {}
  /\ fetching' = {}
  /\ UNCHANGED <<nodeVars, chainVars, fork, seen, cached, foreign, coinVars, bound, sends, since>>

-----------------------------------------------------------------------------
(* Wallets.                                                                *)

(* open_mweb, or open_universal, whose canonical addresses, when they are  *)
(* new, make the cache of foreign transactions void.                       *)
OpenWallet(w) ==
  /\ bound[w] = Closed
  /\ bound' = [bound EXCEPT ![w] = 0]
  /\ seen' = IF w \in Universal /\ \A v \in Universal : Book[v] = Book[w] => bound[v] = Closed
             THEN {} ELSE seen
  /\ UNCHANGED <<nodeVars, chainVars, fork, cached, foreign, fetching, coinVars, sends, since>>

(* An address that is attached brings its balance only if it is new. *)
NewAddressFresh(w) ==
  /\ bound[w] \in 0..(Len(Book[w]) - 1)
  /\ bound' = [bound EXCEPT ![w] = @ + 1]
  /\ UNCHANGED <<nodeVars, chainVars, fork, poolVars, coinVars, sends, since>>

(* new_mweb_address: the next address of the seed is registered, if it is  *)
(* not, and attached.                                                      *)
NewAddress(w) ==
  /\ bound[w] \in 0..(Len(Book[w]) - 1)
  /\ LET a == Book[w][bound[w] + 1] IN
     /\ bound' = [bound EXCEPT ![w] = @ + 1]
     /\ balance' = [balance EXCEPT ![w] = [c \in Coin |->
          @[c] + IF Owner[c] = a /\ a \notin Bound(w) THEN utxo[c].confirmed_sat ELSE 0]]
  /\ UNCHANGED <<nodeVars, chainVars, fork, poolVars, utxo, desync, loose, sends, since>>

(* The bootstrap walks the whole mirror with the keychain of the wallet,   *)
(* which other wallets of the same seed share.                             *)
Keychain(w) == {a \in SeqRange(Book[w]) : Registered(a)}

BootstrapUtxo(u, c) ==
  CASE ~CreatedBy(c, tip)                 -> u
    [] Unspent(c, tip)                    -> AddUtxo(u)
    [] CreatedBy(c, tip) /\ SpentBy(c, tip) -> AddHistorical(u)

Bootstrap(w) ==
  /\ bound[w] # Closed
  /\ Write([c \in Coin |-> IF Owner[c] \in Keychain(w)
                           THEN BootstrapUtxo(utxo[c], c) ELSE utxo[c]])
  /\ since' = [a \in Addr |-> IF a \in Keychain(w) /\ since[a] # Undercut
                              THEN tip ELSE since[a]]
  /\ UNCHANGED <<nodeVars, chainVars, fork, poolVars, bound, sends>>

(* oyo_wallet_close, with the addresses that nobody else watches.          *)
CloseWallet(w) ==
  LET dropped == {a \in Addr : Watchers(a) = {w}} IN
  /\ "close" \in Env
  /\ bound[w] # Closed
  /\ bound' = [bound EXCEPT ![w] = Closed]
  /\ balance' = [balance EXCEPT ![w] = [c \in Coin |-> 0]]
  /\ utxo' = [c \in Coin |-> IF Owner[c] \in dropped THEN DropUtxo(utxo[c]) ELSE utxo[c]]
  /\ desync' = [a \in Addr |-> desync[a] /\ a \notin dropped]
  /\ since' = [a \in Addr |-> IF a \in dropped THEN Unsure ELSE since[a]]
  /\ sends' = {s \in sends : s.wallet # w}
  /\ UNCHANGED <<nodeVars, chainVars, fork, poolVars, loose>>

(* The process ends; the chain is opened again, its wallets are not yet. *)
Crash ==
  /\ "restart" \in Env
  /\ ring' = <<>>
  /\ seen' = {} /\ cached' = {} /\ foreign' = {} /\ fetching' = {}
  /\ utxo' = [c \in Coin |-> NoCell]
  /\ desync' = [a \in Addr |-> FALSE]
  /\ bound' = [w \in Wallet |-> Closed]
  /\ balance' = [w \in Wallet |-> [c \in Coin |-> 0]]
  /\ sends' = {} /\ loose' = {}
  /\ since' = [a \in Addr |-> Unsure]
  /\ UNCHANGED <<nodeVars, at, tip, fork>>

-----------------------------------------------------------------------------
(* Sends: built and signed in one call, broadcast by another, and the      *)
(* answer marks the inputs.                                                *)

SendBuild(w, t) ==
  /\ "send" \in Env
  /\ Ins[t] # {}
  /\ \A c \in Ins[t] : Owner[c] \in Bound(w) /\ Spendable(utxo[c])
  /\ \A s \in sends : s.tx # t
  /\ sends' = sends \union {[tx |-> t, wallet |-> w, accepted |-> FALSE]}
  /\ UNCHANGED <<nodeVars, chainVars, fork, poolVars, coinVars, bound, since>>

SendBroadcast(s) ==
  /\ ~s.accepted
  /\ Accepts(s.tx)
  /\ pool' = pool \union {s.tx}
  /\ sends' = (sends \ {s}) \union {[s EXCEPT !.accepted = TRUE]}
  /\ UNCHANGED <<nodeAt, nodeTip, fork, chainVars, poolVars, coinVars, bound, since>>

SendAnswer(s) ==
  /\ s.accepted
  /\ sends' = sends \ {s}
  /\ Write([c \in Coin |-> IF c \in Ins[s.tx] THEN AddPendingSpend(utxo[c]) ELSE utxo[c]])
  /\ UNCHANGED <<nodeVars, chainVars, fork, poolVars, bound, since>>

(* The node refuses it, or the answer is lost. *)
SendFail(s) ==
  /\ sends' = sends \ {s}
  /\ UNCHANGED <<nodeVars, chainVars, fork, poolVars, coinVars, bound, since>>

-----------------------------------------------------------------------------

Init ==
  /\ nodeAt = [t \in Tx |-> 0] /\ nodeTip = 0 /\ pool = {}
  /\ at = [t \in Tx |-> 0] /\ tip = 0 /\ fork = 0 /\ ring = <<>>
  /\ seen = {} /\ cached = {} /\ foreign = {} /\ fetching = {}
  /\ utxo = [c \in Coin |-> NoCell]
  /\ desync = [a \in Addr |-> FALSE]
  /\ bound = [w \in Wallet |-> Closed]
  /\ balance = [w \in Wallet |-> [c \in Coin |-> 0]]
  /\ sends = {} /\ loose = {}
  /\ since = [a \in Addr |-> Unsure]

NodeNext ==
  \/ \E t \in Tx : NodeAccept(t) \/ NodeEvict(t)
  \/ \E S \in SUBSET Tx : NodeMine(S)
  \/ \E h \in 0..MaxHeight : NodeReorg(h)

SyncNext == ApplyBlock \/ RollbackTip \/ RollbackBelowRing
MempoolNext == MempoolList \/ MempoolAbort \/ \E t \in Tx : MempoolFetch(t)

WalletNext ==
  \E w \in Wallet :
    \/ OpenWallet(w) \/ NewAddress(w) \/ Bootstrap(w) \/ CloseWallet(w)
    \/ \E t \in Tx : SendBuild(w, t)

SendNext == \E s \in sends : SendBroadcast(s) \/ SendAnswer(s) \/ SendFail(s)

Next == NodeNext \/ SyncNext \/ MempoolNext \/ WalletNext \/ SendNext \/ Crash

(* The tailer repeats what failed, see OyoLedger. *)
TailerFairness ==
  /\ SF_vars(SyncNext)
  /\ SF_vars(MempoolList)
  /\ \A t \in Tx : SF_vars(MempoolFetch(t))
  /\ WF_vars(MempoolAbort)

Spec == Init /\ [][Next]_vars /\ TailerFairness

-----------------------------------------------------------------------------
(* Properties.                                                             *)

Send == [tx : Tx, wallet : Wallet, accepted : BOOLEAN]

(* Every variable keeps its type. *)
TypeOK ==
  /\ nodeAt \in [Tx -> Nat] /\ nodeTip \in Nat /\ pool \subseteq Tx
  /\ at \in [Tx -> Nat] /\ tip \in Nat /\ fork \in Nat
  /\ ring \in Seq([adds : SUBSET Coin, spends : SUBSET Coin])
  /\ Len(ring) <= RollbackWindow
  /\ seen \subseteq Tx /\ cached \subseteq Tx /\ fetching \subseteq Tx
  /\ foreign \subseteq Coin /\ loose \subseteq Coin
  /\ utxo \in [Coin -> Cell]
  /\ desync \in [Addr -> BOOLEAN]
  /\ bound \in [Wallet -> Int]
  /\ balance \in [Wallet -> [Coin -> Int]]
  /\ sends \subseteq Send
  /\ since \in [Addr -> Int]

Bit(P) == IF P THEN 1 ELSE 0

(* mweb_balance_sat, which is only moved by the deltas of handlers and by  *)
(* what is attached, is the sum of confirmed_sat over the addresses a      *)
(* wallet has derived, with wallets of one seed sharing them.              *)
WalletBalance ==
  \A w \in Wallet, c \in Coin :
    balance[w][c] = IF Owner[c] \in Bound(w) THEN utxo[c].confirmed_sat ELSE 0

(* No satoshi is lost or made up by marks, reorganisations and bootstraps: *)
(* an output counts once in confirmed_sat and pending_out_sat together     *)
(* while it is there and unspent, and not at all otherwise.                *)
TotalsConserved ==
  \A c \in Coin :
    utxo[c].confirmed_sat + utxo[c].pending_out_sat = Bit(Spendable(utxo[c]))

(* What a mark has moved to pending_out_sat is there as long as the mark,  *)
(* unless the mark has once been without the index entry that tells whose  *)
(* output it is.                                                           *)
MarksCounted ==
  \A c \in Coin \ loose : utxo[c].pending_out_sat = Bit(utxo[c].marked)

(* With the engine's tip on the node's chain, an address not flagged has   *)
(* exactly the unspent outputs of that chain, if it was bootstrapped and   *)
(* no block that the bootstrap has read was undone in the ring since.      *)
CoinsMatchChain ==
  \A c \in Coin :
    fork = tip /\ Known(c) /\ ~desync[Owner[c]] /\ since[Owner[c]] \in 0..tip
    => (Spendable(utxo[c]) <=> Unspent(c, tip))

(* No address that is not flagged has an output the chain does not have,   *)
(* also after reorganisations of blocks older than the wallet: they are    *)
(* said to be handled by the rollback.                                     *)
NoPhantom ==
  \A c \in Coin :
    fork = tip /\ Known(c) /\ ~desync[Owner[c]] /\ Spendable(utxo[c])
    => Unspent(c, tip)

(* From some point on the node and the wallets stand still. *)
Quiet == <>[][UNCHANGED <<nodeVars, bound>> /\ ~Crash]_vars

(* Then no output is pending, and none marked, for a transaction that is   *)
(* not in the mempool, whoever set the mark; and every indexed output that *)
(* a transaction fetched for a wallet spends is marked.                    *)
PendingFollowsPool ==
  Quiet => <>[](\A c \in Coin :
                  /\ utxo[c].pending => c \in OutsOf(pool)
                  /\ utxo[c].marked => c \in InsOf(pool)
                  /\ utxo[c].indexed /\ c \in InsOf(cached) => utxo[c].marked)

=============================================================================
