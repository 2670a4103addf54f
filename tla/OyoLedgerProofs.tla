-------------------------- MODULE OyoLedgerProofs --------------------------
(***************************************************************************)
(* What holds of OyoLedger for every wallet, address, transaction and      *)
(* window: its types, and that a wallet's balance_sat, which is only ever  *)
(* moved by deltas, is the sum of confirmed_sat over what it watches.      *)
(***************************************************************************)
EXTENDS OyoLedger, OyoUtxoProofs

(* Between two handlers every notification has been delivered. *)
Delivered == \A k \in Key : utxo[k].notified = 0

(* An address nobody watches is not in the map: nothing is kept for it. *)
Absent == \A k \in Key : ~Known(k) => utxo[k] = NoCell

CoinTypeOK ==
  /\ utxo \in [Key -> Cell]
  /\ balance \in [Wallet -> [Key -> Int]]
  /\ watchers \in [Addr -> SUBSET Wallet]
  /\ desync \in [Addr -> BOOLEAN]

CoinInv == CoinTypeOK /\ WalletBalance /\ Delivered /\ Absent

BalanceInv == TypeOK /\ CoinInv

(* What a handler that leaves the cells n does is notified in full. *)
Steps(n) == \A k \in Key : Follows(utxo[k], n[k])

-----------------------------------------------------------------------------
(* What each handler does to one cell is a sequence of helpers.            *)

(* ApplyBlockLocked, before the ring is pruned. *)
LEMMA ApplyEventsFollows ==
  ASSUME NEW u \in Cell, NEW k, NEW B
  PROVE  Follows(u, ApplyEvents(u, k, B))
<1> DEFINE add == CASE \A t \in B : k \notin Outs[t] -> u
                    [] (\E t \in B : k \in Outs[t]) /\ u.known  -> PromoteUtxo(u)
                    [] (\E t \in B : k \in Outs[t]) /\ ~u.known -> AddUtxo(u, TRUE)
<1>1. Follows(u, add)
  BY FollowsSelf, PromoteFollows, AddFollows
<1> HIDE DEF add
<1>2. Follows(add, SpendUtxo(add))
  BY <1>1, SpendFollows DEF Follows
<1>3. Follows(u, SpendUtxo(add))
  BY <1>1, <1>2, FollowsTrans
<1> QED BY <1>1, <1>3 DEF ApplyEvents, add

(* RollbackTipLocked, the spends of the block. *)
LEMMA UndoSpendFollows ==
  ASSUME NEW u \in Cell, NEW k
  PROVE  Follows(u, UndoSpend(u, k))
<1> DEFINE S == {t \in TipTxs : k \in Spends(t)}
           t == CHOOSE t \in S : TRUE
<1>1. CASE S = {}
  BY <1>1, FollowsSelf DEF UndoSpend
<1>2. CASE S # {}
  <2>1. t \in Tx
    BY <1>2 DEF TipTxs
  <2> HIDE DEF t
  <2>2. Follows(u, UnspendUtxo(u))
    BY UnspendFollows
  <2>3. Follows(UnspendUtxo(u), PendingSpendUtxo(UnspendUtxo(u), t))
    BY <2>1, <2>2, PendingSpendFollows DEF Follows
  <2>4. Follows(u, PendingSpendUtxo(UnspendUtxo(u), t))
    BY <2>2, <2>3, FollowsTrans
  <2> QED BY <1>2, <2>2, <2>4 DEF UndoSpend, t
<1> QED BY <1>1, <1>2

(* RollbackTipLocked, the adds of the block. *)
LEMMA UndoAddFollows ==
  ASSUME NEW u \in Cell, NEW k
  PROVE  Follows(u, UndoAdd(u, k))
<1>1. CASE \A t \in TipTxs : k \notin Outs[t]
  BY <1>1, FollowsSelf DEF UndoAdd
<1>2. CASE \E t \in TipTxs : k \in Outs[t]
  BY <1>2, DemoteFollows, RemoveFollows DEF UndoAdd, Demotes
<1> QED BY <1>1, <1>2

(* RollbackPendingTxLocked. *)
LEMMA RollbackPendingFollows ==
  ASSUME NEW u \in Cell, NEW k
  PROVE  Follows(u, RollbackPending(u, k))
<1> DEFINE add == IF \E t \in Gone : k \in Outs[t] THEN RollbackPendingAdd(u) ELSE u
<1>1. Follows(u, add)
  BY FollowsSelf, RollbackPendingAddFollows
<1> HIDE DEF add
<1>2. Follows(add, RollbackPendingSpend(add))
  BY <1>1, RollbackPendingSpendFollows DEF Follows
<1>3. Follows(u, RollbackPendingSpend(add))
  BY <1>1, <1>2, FollowsTrans
<1> QED BY <1>1, <1>3 DEF RollbackPending, add

(* ApplyPendingTxLocked. *)
LEMMA ApplyPendingFollows ==
  ASSUME NEW u \in Cell, NEW k, NEW t \in Tx
  PROVE  Follows(u, ApplyPending(u, k, t))
  BY FollowsSelf, AddFollows, PendingSpendFollows DEF ApplyPending, Events

(* ReplayMempoolForAddressLocked. *)
LEMMA ReplayFollows ==
  ASSUME NEW u \in Cell, NEW k, NEW order
  PROVE  Follows(u, ReplayMempool(u, k, order))
<1> DEFINE adders   == {t \in Tx : Pending(t) /\ k \in Outs[t]}
           spenders == {t \in Tx : Pending(t) /\ k \in Spends(t)}
           c == CHOOSE c \in spenders : TRUE
           Spend(v) == IF spenders = {} THEN v ELSE PendingSpendUtxo(v, c)
           Add(v) == IF adders = {} THEN v ELSE AddUtxo(v, FALSE)
<1>1. ASSUME NEW v \in Cell PROVE Follows(v, Spend(v))
  <2>1. CASE spenders = {}
    BY <2>1, FollowsSelf
  <2>2. CASE spenders # {}
    <3>1. c \in Tx
      BY <2>2
    <3> HIDE DEF c, spenders
    <3> QED BY <2>2, <3>1, PendingSpendFollows
  <2> QED BY <2>1, <2>2
<1>2. ASSUME NEW v \in Cell PROVE Follows(v, Add(v))
  BY FollowsSelf, AddFollows
<1>3. ReplayMempool(u, k, order) \in {Spend(Add(u)), Add(Spend(u))}
  BY DEF ReplayMempool
<1> HIDE DEF Spend, Add
<1>4. Follows(u, Spend(Add(u)))
  <2>1. Add(u) \in Cell
    BY <1>2 DEF Follows
  <2> QED BY <1>1, <1>2, <2>1, FollowsTrans
<1>5. Follows(u, Add(Spend(u)))
  <2>1. Spend(u) \in Cell
    BY <1>1 DEF Follows
  <2> QED BY <1>1, <1>2, <2>1, FollowsTrans
<1> QED BY <1>3, <1>4, <1>5

-----------------------------------------------------------------------------
(* What the handlers have in common preserves the invariant.               *)

(* A handler that writes the cells n. *)
LEMMA WriteInv ==
  ASSUME CoinInv, NEW n, Steps(n), Write(n)
  PROVE  CoinInv'
<1> USE OwnerAssumption
<1>1. \A k \in Key : /\ utxo[k] \in Cell
                     /\ n[k] \in Cell
                     /\ Settle(n[k]) \in Cell
                     /\ Settle(n[k]).notified = 0
                     /\ Settle(n[k]).confirmed_sat = n[k].confirmed_sat
                     /\ utxo[k].confirmed_sat \in Int
                     /\ utxo[k].notified = 0
                     /\ n[k].confirmed_sat \in Int /\ n[k].notified \in Int
                     /\ n[k].confirmed_sat = utxo[k].confirmed_sat + n[k].notified
  <2> TAKE k \in Key
  <2>1. utxo[k] \in Cell /\ n[k] \in Cell
    BY DEF CoinInv, CoinTypeOK, Steps, Follows
  <2>2. /\ Settle(n[k]) \in Cell
        /\ Settle(n[k]).notified = 0
        /\ Settle(n[k]).confirmed_sat = n[k].confirmed_sat
    BY <2>1, SettleSound
  <2>3. /\ utxo[k].confirmed_sat \in Int
        /\ n[k].confirmed_sat \in Int /\ n[k].notified \in Int
    BY <2>1 DEF Cell
  <2>4. utxo[k].notified = 0
    BY DEF CoinInv, Delivered
  <2>5. Drift(n[k]) = Drift(utxo[k])
    BY DEF Steps, Follows
  <2> QED BY <2>1, <2>2, <2>3, <2>4, <2>5 DEF Drift
<1>2. CoinTypeOK'
  <2>1. utxo' \in [Key -> Cell]
    BY <1>1 DEF Write
  <2>2. balance' \in [Wallet -> [Key -> Int]]
    BY <1>1 DEF Write, CoinInv, CoinTypeOK
  <2>3. watchers' \in [Addr -> SUBSET Wallet]
    BY DEF Write, CoinInv, CoinTypeOK
  <2>4. desync' \in [Addr -> BOOLEAN]
    BY DEF Write, CoinInv, CoinTypeOK
  <2> QED BY <2>1, <2>2, <2>3, <2>4 DEF CoinTypeOK
<1>3. WalletBalance'
  <2> SUFFICES ASSUME NEW w \in Wallet, NEW k \in Key
               PROVE  balance'[w][k] = IF w \in watchers[Owner[k]] THEN utxo'[k].confirmed_sat ELSE 0
    BY DEF WalletBalance, Write
  <2>1. balance[w][k] = IF w \in watchers[Owner[k]] THEN utxo[k].confirmed_sat ELSE 0
    BY DEF CoinInv, WalletBalance
  <2>2. w \in watchers[Owner[k]] => utxo'[k].confirmed_sat = n[k].confirmed_sat
    BY <1>1 DEF Write, Known, Registered
  <2>3. balance'[w][k] = IF w \in watchers[Owner[k]] THEN balance[w][k] + n[k].notified ELSE balance[w][k]
    BY DEF Write
  <2> QED BY <1>1, <2>1, <2>2, <2>3
<1>4. Delivered'
  BY <1>1 DEF Write, Delivered, CoinInv
<1>5. Absent'
  BY DEF Write, Absent, CoinInv, Known, Registered
<1> QED BY <1>2, <1>3, <1>4, <1>5 DEF CoinInv

(* What is replayed to an address that is new is not confirmed. *)
LEMMA ReplayOfNothing ==
  ASSUME NEW k, NEW order
  PROVE  ReplayMempool(NoCell, k, order).confirmed_sat = 0
<1> DEFINE adders   == {t \in Tx : Pending(t) /\ k \in Outs[t]}
           spenders == {t \in Tx : Pending(t) /\ k \in Spends(t)}
           c == CHOOSE c \in spenders : TRUE
           Spend(v) == IF spenders = {} THEN v ELSE PendingSpendUtxo(v, c)
           Add(v) == IF adders = {} THEN v ELSE AddUtxo(v, FALSE)
           Hidden(v) == v \in Cell /\ v.confirmed = FALSE /\ v.confirmed_sat = 0
<1>1. ASSUME NEW v, Hidden(v) PROVE Hidden(Spend(v))
  <2>1. CASE spenders = {}
    BY <1>1, <2>1
  <2>2. CASE spenders # {}
    <3>1. c \in Tx
      BY <2>2
    <3> HIDE DEF c, spenders
    <3>2. PendingSpendUtxo(v, c) \in Cell
      BY <1>1, <3>1, PendingSpendFollows DEF Follows
    <3>3. /\ PendingSpendUtxo(v, c).confirmed = FALSE
          /\ PendingSpendUtxo(v, c).confirmed_sat = 0
      BY <1>1 DEF PendingSpendUtxo, PendingIn, Missed, Cell, InConfirmed, InPendingIn,
                  Spendable, SpentPending
    <3> QED BY <2>2, <3>2, <3>3
  <2> QED BY <2>1, <2>2
<1>2. ASSUME NEW v, Hidden(v) PROVE Hidden(Add(v))
  <2>1. AddUtxo(v, FALSE) \in Cell
    BY <1>2, AddFollows DEF Follows
  <2>2. AddUtxo(v, FALSE).confirmed = FALSE /\ AddUtxo(v, FALSE).confirmed_sat = 0
    BY <1>2 DEF AddUtxo, PendingIn, Cell
  <2> QED BY <1>2, <2>1, <2>2
<1>3. ReplayMempool(NoCell, k, order) \in {Spend(Add(NoCell)), Add(Spend(NoCell))}
  BY DEF ReplayMempool
<1>4. Hidden(NoCell)
  BY NoCellSound DEF NoCell
<1> HIDE DEF Spend, Add
<1>5. Hidden(Spend(Add(NoCell))) /\ Hidden(Add(Spend(NoCell)))
  BY <1>1, <1>2, <1>4
<1> QED BY <1>3, <1>5

(* AttachWatcherLocked: the wallet is credited what the address holds. *)
LEMMA AttachInv ==
  ASSUME CoinInv, NEW w \in Wallet, NEW A \in SUBSET Addr, NEW n,
         \A k \in Key : ~Known(k) => n[k] \in Cell /\ n[k].confirmed_sat = 0,
         Attach(w, A, n), desync' \in [Addr -> BOOLEAN]
  PROVE  CoinInv'
<1> USE OwnerAssumption
<1>1. \A k \in Key : /\ utxo[k] \in Cell
                     /\ utxo[k].confirmed_sat \in Int
                     /\ utxo[k].notified = 0
                     /\ ~Known(k) => /\ Settle(n[k]) \in Cell
                                     /\ Settle(n[k]).notified = 0
                                     /\ Settle(n[k]).confirmed_sat = 0
                                     /\ utxo[k].confirmed_sat = 0
  BY SettleSound, NoCellSound DEF CoinInv, CoinTypeOK, Delivered, Absent, Cell
<1>2. \A k \in Key : utxo'[k] = IF ~Known(k) /\ Owner[k] \in A THEN Settle(n[k]) ELSE utxo[k]
  BY DEF Attach, Known
<1>3. \A a \in Addr : watchers'[a] = IF a \in A THEN watchers[a] \union {w} ELSE watchers[a]
  BY DEF Attach
<1>4. \A v \in Wallet, k \in Key :
        balance'[v][k] = IF v = w /\ Owner[k] \in A /\ w \notin watchers[Owner[k]]
                         THEN balance[v][k] + utxo[k].confirmed_sat ELSE balance[v][k]
  <2> TAKE v \in Wallet, k \in Key
  <2>1. balance[v][k] \in Int
    BY DEF CoinInv, CoinTypeOK
  <2> QED BY <1>1, <2>1 DEF Attach, CoinInv, CoinTypeOK
<1>5. CoinTypeOK'
  <2>1. utxo' \in [Key -> Cell]
    BY <1>1 DEF Attach, Known
  <2>2. balance' \in [Wallet -> [Key -> Int]]
    BY <1>1 DEF Attach, CoinInv, CoinTypeOK
  <2>3. watchers' \in [Addr -> SUBSET Wallet]
    BY DEF Attach, CoinInv, CoinTypeOK
  <2> QED BY <2>1, <2>2, <2>3 DEF CoinTypeOK
<1>6. WalletBalance'
  <2> SUFFICES ASSUME NEW v \in Wallet, NEW k \in Key
               PROVE  balance'[v][k] = IF v \in watchers'[Owner[k]] THEN utxo'[k].confirmed_sat ELSE 0
    BY DEF WalletBalance
  <2>1. balance[v][k] = IF v \in watchers[Owner[k]] THEN utxo[k].confirmed_sat ELSE 0
    BY DEF CoinInv, WalletBalance
  <2>2. utxo'[k].confirmed_sat = utxo[k].confirmed_sat
    BY <1>1, <1>2
  <2>3. v \in watchers'[Owner[k]] <=> v \in watchers[Owner[k]] \/ (v = w /\ Owner[k] \in A)
    BY <1>3
  <2>4. balance'[v][k] = IF v = w /\ Owner[k] \in A /\ w \notin watchers[Owner[k]]
                         THEN balance[v][k] + utxo[k].confirmed_sat ELSE balance[v][k]
    BY <1>4
  <2>5. utxo[k].confirmed_sat \in Int
    BY <1>1
  <2> QED BY <2>1, <2>2, <2>3, <2>4, <2>5
<1>7. Delivered'
  BY <1>1, <1>2 DEF Delivered
<1>8. Absent'
  <2> SUFFICES ASSUME NEW k \in Key, watchers'[Owner[k]] = {} PROVE utxo'[k] = NoCell
    BY DEF Absent, Known, Registered
  <2>1. watchers[Owner[k]] = {} /\ Owner[k] \notin A
    BY <1>3
  <2> QED BY <1>2, <2>1 DEF CoinInv, Absent, Known, Registered
<1> QED BY <1>5, <1>6, <1>7, <1>8 DEF CoinInv

(* DetachWatcherLocked: the wallet is debited what it was credited. *)
LEMMA DetachInv ==
  ASSUME CoinInv, NEW w \in Wallet, NEW A \in SUBSET Addr, Detach(w, A)
  PROVE  CoinInv'
<1> USE OwnerAssumption
<1>1. \A k \in Key : /\ utxo[k] \in Cell
                     /\ utxo[k].confirmed_sat \in Int
                     /\ utxo[k].notified = 0
  BY DEF CoinInv, CoinTypeOK, Delivered, Cell
<1>2. \A k \in Key : utxo'[k] = IF Owner[k] \in A /\ watchers[Owner[k]] = {w} THEN NoCell ELSE utxo[k]
  BY DEF Detach
<1>3. \A a \in Addr : watchers'[a] = IF a \in A THEN watchers[a] \ {w} ELSE watchers[a]
  BY DEF Detach
<1>4. \A v \in Wallet, k \in Key :
        balance'[v][k] = IF v = w /\ Owner[k] \in A /\ w \in watchers[Owner[k]]
                         THEN balance[v][k] - utxo[k].confirmed_sat ELSE balance[v][k]
  <2> TAKE v \in Wallet, k \in Key
  <2>1. balance[v][k] \in Int
    BY DEF CoinInv, CoinTypeOK
  <2> QED BY <1>1, <2>1 DEF Detach, CoinInv, CoinTypeOK
<1>5. CoinTypeOK'
  <2>1. utxo' \in [Key -> Cell]
    BY <1>1, NoCellSound DEF Detach
  <2>2. balance' \in [Wallet -> [Key -> Int]]
    BY <1>1 DEF Detach, CoinInv, CoinTypeOK
  <2>3. watchers' \in [Addr -> SUBSET Wallet]
    BY DEF Detach, CoinInv, CoinTypeOK
  <2>4. desync' \in [Addr -> BOOLEAN]
    BY DEF Detach, CoinInv, CoinTypeOK
  <2> QED BY <2>1, <2>2, <2>3, <2>4 DEF CoinTypeOK
<1>6. WalletBalance'
  <2> SUFFICES ASSUME NEW v \in Wallet, NEW k \in Key
               PROVE  balance'[v][k] = IF v \in watchers'[Owner[k]] THEN utxo'[k].confirmed_sat ELSE 0
    BY DEF WalletBalance
  <2>1. balance[v][k] = IF v \in watchers[Owner[k]] THEN utxo[k].confirmed_sat ELSE 0
    BY DEF CoinInv, WalletBalance
  <2>2. v \in watchers'[Owner[k]] => utxo'[k] = utxo[k] /\ v \in watchers[Owner[k]]
    BY <1>2, <1>3
  <2>3. v \in watchers'[Owner[k]] <=> v \in watchers[Owner[k]] /\ ~(v = w /\ Owner[k] \in A)
    BY <1>3
  <2>4. balance'[v][k] = IF v = w /\ Owner[k] \in A /\ w \in watchers[Owner[k]]
                         THEN balance[v][k] - utxo[k].confirmed_sat ELSE balance[v][k]
    BY <1>4
  <2>5. utxo[k].confirmed_sat \in Int
    BY <1>1
  <2> QED BY <2>1, <2>2, <2>3, <2>4, <2>5
<1>7. Delivered'
  BY <1>1, <1>2, NoCellSound DEF Delivered
<1>8. Absent'
  <2> SUFFICES ASSUME NEW k \in Key, watchers'[Owner[k]] = {} PROVE utxo'[k] = NoCell
    BY DEF Absent, Known, Registered
  <2>1. CASE watchers[Owner[k]] = {}
    BY <1>2, <2>1 DEF CoinInv, Absent, Known, Registered
  <2>2. CASE watchers[Owner[k]] # {}
    <3>1. watchers'[Owner[k]] = IF Owner[k] \in A THEN watchers[Owner[k]] \ {w} ELSE watchers[Owner[k]]
      BY <1>3
    <3>2. Owner[k] \in A /\ watchers[Owner[k]] = {w}
      BY <2>2, <3>1
    <3> QED BY <1>2, <3>2
  <2> QED BY <2>1, <2>2
<1> QED BY <1>5, <1>6, <1>7, <1>8 DEF CoinInv

(* RunWalletRescanFromMirrorLocked notifies every watcher. *)
LEMMA RescanInv ==
  ASSUME CoinInv, NEW w \in Wallet, NEW A \in SUBSET Addr, Rescan(w, A)
  PROVE  CoinInv'
<1> USE OwnerAssumption
<1> DEFINE n == [k \in Key |-> IF Owner[k] \in A
                               THEN RescanUtxo(utxo[k], Unspent(k, durable))
                               ELSE utxo[k]]
<1>1. \A k \in Key : /\ utxo[k] \in Cell
                     /\ utxo[k].confirmed_sat \in Int
                     /\ utxo[k].notified = 0
  BY DEF CoinInv, CoinTypeOK, Delivered, Cell
<1>2. ASSUME NEW k \in Key PROVE Follows(utxo[k], n[k])
  <2>1. Unspent(k, durable) \in BOOLEAN
    BY DEF Unspent, CreatedBy, SpentBy
  <2>2. Follows(utxo[k], RescanUtxo(utxo[k], Unspent(k, durable)))
    BY <1>1, <2>1, RescanFollows
  <2>3. Follows(utxo[k], utxo[k])
    BY <1>1, FollowsSelf
  <2> QED BY <2>2, <2>3
<1>3. /\ utxo' = [k \in Key |-> IF Owner[k] \in A THEN Settle(n[k]) ELSE utxo[k]]
      /\ balance' = [v \in Wallet |-> [k \in Key |->
                        IF v \in watchers[Owner[k]] THEN balance[v][k] + n[k].notified
                                                    ELSE balance[v][k]]]
      /\ desync' = [a \in Addr |-> desync[a] /\ a \notin A]
      /\ UNCHANGED watchers
      /\ \A a \in A : w \in watchers[a]
  BY DEF Rescan
<1>4. \A k \in Key : Owner[k] \notin A => n[k] = utxo[k]
  OBVIOUS
<1> HIDE DEF n
<1>5. \A k \in Key : /\ n[k] \in Cell
                     /\ Settle(n[k]) \in Cell
                     /\ Settle(n[k]).notified = 0
                     /\ Settle(n[k]).confirmed_sat = n[k].confirmed_sat
                     /\ n[k].confirmed_sat \in Int /\ n[k].notified \in Int
                     /\ n[k].confirmed_sat = utxo[k].confirmed_sat + n[k].notified
  <2> TAKE k \in Key
  <2>1. n[k] \in Cell /\ Drift(n[k]) = Drift(utxo[k])
    BY <1>2 DEF Follows
  <2>2. n[k].confirmed_sat \in Int /\ n[k].notified \in Int
    BY <2>1 DEF Cell
  <2>3. n[k].confirmed_sat - n[k].notified = utxo[k].confirmed_sat
    BY <1>1, <2>1 DEF Drift
  <2> QED BY <1>1, <2>1, <2>2, <2>3, SettleSound
<1>6. CoinTypeOK'
  <2>1. utxo' \in [Key -> Cell]
    BY <1>1, <1>3, <1>5
  <2>2. balance' \in [Wallet -> [Key -> Int]]
    BY <1>3, <1>5 DEF CoinInv, CoinTypeOK
  <2>3. watchers' \in [Addr -> SUBSET Wallet] /\ desync' \in [Addr -> BOOLEAN]
    BY <1>3 DEF CoinInv, CoinTypeOK
  <2> QED BY <2>1, <2>2, <2>3 DEF CoinTypeOK
<1>7. WalletBalance'
  <2> SUFFICES ASSUME NEW v \in Wallet, NEW k \in Key
               PROVE  balance'[v][k] = IF v \in watchers[Owner[k]] THEN utxo'[k].confirmed_sat ELSE 0
    BY <1>3 DEF WalletBalance
  <2>1. balance[v][k] = IF v \in watchers[Owner[k]] THEN utxo[k].confirmed_sat ELSE 0
    BY DEF CoinInv, WalletBalance
  <2>2. utxo'[k].confirmed_sat = n[k].confirmed_sat
    BY <1>3, <1>4, <1>5
  <2>3. balance'[v][k] = IF v \in watchers[Owner[k]] THEN balance[v][k] + n[k].notified
                                                     ELSE balance[v][k]
    BY <1>3
  <2> QED BY <1>1, <1>5, <2>1, <2>2, <2>3
<1>8. Delivered'
  BY <1>1, <1>3, <1>5 DEF Delivered
<1>9. Absent'
  BY <1>3 DEF Absent, CoinInv, Known, Registered
<1> QED BY <1>6, <1>7, <1>8, <1>9 DEF CoinInv

(* A step that leaves the coins alone keeps what is said of them. *)
LEMMA CoinUnchanged == ASSUME CoinInv, UNCHANGED coinVars PROVE CoinInv'
  BY DEF coinVars, CoinInv, CoinTypeOK, WalletBalance, Delivered, Absent, Known, Registered

-----------------------------------------------------------------------------
(* The invariant.                                                          *)

ChainTypeOK ==
  /\ nodeAt \in [Tx -> Nat] /\ nodeTip \in Nat /\ pool \subseteq Tx
  /\ at \in [Tx -> Nat]
  /\ tip \in Nat /\ fork \in Nat /\ ringBase \in Nat /\ durable \in Nat
  /\ mempool \in [Tx -> {"none", "pending", "promoted"}]
  /\ notOurs \subseteq Tx /\ fetching \subseteq Tx
  /\ sends \subseteq Send

(* The type invariant, by the half that the coins are in. *)
LEMMA TypeSplit == TypeOK <=> ChainTypeOK /\ CoinTypeOK
  BY DEF TypeOK, ChainTypeOK, CoinTypeOK

(* The halves of the invariant, after a step. *)
LEMMA InvAfter == ASSUME ChainTypeOK', CoinInv' PROVE BalanceInv'
  BY DEF TypeOK, ChainTypeOK, CoinTypeOK, CoinInv, BalanceInv

(* With no wallet open every sum is empty. *)
LEMMA InitBalance == Init => BalanceInv
<1> SUFFICES ASSUME Init PROVE BalanceInv
  OBVIOUS
<1> USE OwnerAssumption DEF Init
<1>1. ChainTypeOK
  BY DEF ChainTypeOK
<1>2. CoinTypeOK
  BY NoCellSound DEF CoinTypeOK
<1>3. WalletBalance /\ Delivered /\ Absent
  BY NoCellSound DEF WalletBalance, Delivered, Absent
<1> QED BY <1>1, <1>2, <1>3, TypeSplit DEF BalanceInv, CoinInv

(* The node moves without touching the engine. *)
LEMMA NodeStep == ASSUME BalanceInv, NodeNext PROVE BalanceInv'
<1>1. CoinInv'
  BY CoinUnchanged DEF BalanceInv, NodeNext, NodeAccept, NodeEvict, NodeMine, NodeReorg
<1>2. ChainTypeOK
  BY TypeSplit DEF BalanceInv
<1>3. ASSUME NEW t \in Tx, NodeAccept(t) PROVE ChainTypeOK'
  BY <1>2, <1>3 DEF ChainTypeOK, NodeAccept, chainVars, poolVars
<1>4. ASSUME NEW t \in Tx, NodeEvict(t) PROVE ChainTypeOK'
  <2>1. pool' \subseteq Tx
    BY <1>2, <1>4 DEF ChainTypeOK, NodeEvict, Survivors
  <2> QED BY <1>2, <1>4, <2>1 DEF ChainTypeOK, NodeEvict, chainVars, poolVars
<1>5. ASSUME NEW S \in SUBSET Tx, NodeMine(S) PROVE ChainTypeOK'
  <2>1. pool' \subseteq Tx
    BY <1>2, <1>5 DEF ChainTypeOK, NodeMine, Survivors
  <2>2. nodeAt' \in [Tx -> Nat] /\ nodeTip' \in Nat
    BY <1>2, <1>5 DEF ChainTypeOK, NodeMine
  <2>3. UNCHANGED <<fork, chainVars, poolVars, sends>>
    BY <1>5 DEF NodeMine
  <2> QED BY <1>2, <2>1, <2>2, <2>3 DEF ChainTypeOK, chainVars, poolVars
<1>6. ASSUME NEW h \in 0..MaxHeight, NodeReorg(h) PROVE ChainTypeOK'
  <2>1. h \in Nat
    BY BoundAssumption
  <2>2. fork' \in Nat /\ nodeTip' \in Nat
    BY <1>2, <1>6, <2>1 DEF ChainTypeOK, NodeReorg, Min2
  <2>3. nodeAt' \in [Tx -> Nat] /\ pool' \subseteq Tx
    BY <1>2, <1>6 DEF ChainTypeOK, NodeReorg
  <2>4. UNCHANGED <<chainVars, poolVars, sends>>
    BY <1>6 DEF NodeReorg
  <2> QED BY <1>2, <2>2, <2>3, <2>4 DEF ChainTypeOK, chainVars, poolVars
<1>7. ChainTypeOK'
  BY <1>3, <1>4, <1>5, <1>6 DEF NodeNext
<1> QED BY <1>1, <1>7, InvAfter

(* Blocks, rollbacks and the mempool reach the cells through the helpers  *)
(* only, and the balances through their notifications.                    *)
LEMMA TailerStep == ASSUME BalanceInv, TailerNext PROVE BalanceInv'
<1>1. CoinInv /\ ChainTypeOK /\ \A k \in Key : utxo[k] \in Cell
  BY TypeSplit DEF BalanceInv, CoinInv, CoinTypeOK
<1>2. CASE ApplyBlock
  <2> DEFINE B == {t \in Tx : nodeAt[t] = tip + 1}
             n == [k \in Key |-> LET u == ApplyEvents(utxo[k], k, B)
                                IN  IF LeavesRing(k) THEN GcUtxo(u) ELSE u]
  <2>1. Write(n)
    BY <1>2 DEF ApplyBlock
  <2>2. ASSUME NEW k \in Key PROVE Follows(utxo[k], n[k])
    <3> DEFINE u == ApplyEvents(utxo[k], k, B)
    <3>1. Follows(utxo[k], u)
      BY <1>1, ApplyEventsFollows
    <3> HIDE DEF u
    <3>2. Follows(u, GcUtxo(u))
      BY <3>1, GcFollows DEF Follows
    <3>3. Follows(utxo[k], GcUtxo(u))
      BY <3>1, <3>2, FollowsTrans
    <3> QED BY <3>1, <3>3 DEF u
  <2> HIDE DEF n
  <2>3. CoinInv'
    BY <1>1, <2>1, <2>2, WriteInv DEF Steps
  <2>4. ringBase' \in Nat
    BY <1>1, <1>2, BoundAssumption DEF ApplyBlock, ChainTypeOK, Max2
  <2>5. ChainTypeOK'
    BY <1>1, <1>2, <2>4 DEF ApplyBlock, ChainTypeOK, nodeVars
  <2> QED BY <2>3, <2>5, InvAfter
<1>3. CASE RollbackTip
  <2> DEFINE n == [k \in Key |-> UndoAdd(UndoSpend(utxo[k], k), k)]
  <2>1. Write(n)
    BY <1>3 DEF RollbackTip
  <2>2. ASSUME NEW k \in Key PROVE Follows(utxo[k], n[k])
    <3> DEFINE u == UndoSpend(utxo[k], k)
    <3>1. Follows(utxo[k], u)
      BY <1>1, UndoSpendFollows
    <3> HIDE DEF u
    <3>2. Follows(u, UndoAdd(u, k))
      BY <3>1, UndoAddFollows DEF Follows
    <3>3. Follows(utxo[k], UndoAdd(u, k))
      BY <3>1, <3>2, FollowsTrans
    <3> QED BY <3>3 DEF u
  <2> HIDE DEF n
  <2>3. CoinInv'
    BY <1>1, <2>1, <2>2, WriteInv DEF Steps
  <2>4. ChainTypeOK'
    BY <1>1, <1>3 DEF RollbackTip, ChainTypeOK, nodeVars
  <2> QED BY <2>3, <2>4, InvAfter
<1>4. CASE RollbackBelowRing
  <2> DEFINE n == [k \in Key |-> Missed(InvalidateUtxo(utxo[k]))]
  <2>1. Write(n)
    BY <1>4 DEF RollbackBelowRing
  <2>2. ASSUME NEW k \in Key PROVE Follows(utxo[k], n[k])
    <3> DEFINE u == InvalidateUtxo(utxo[k])
    <3>1. Follows(utxo[k], u)
      BY <1>1, InvalidateFollows
    <3> HIDE DEF u
    <3>2. Follows(u, Missed(u))
      BY <3>1, MissedFollows DEF Follows
    <3>3. Follows(utxo[k], Missed(u))
      BY <3>1, <3>2, FollowsTrans
    <3> QED BY <3>3 DEF u
  <2> HIDE DEF n
  <2>3. CoinInv'
    BY <1>1, <2>1, <2>2, WriteInv DEF Steps
  <2>4. ChainTypeOK'
    BY <1>1, <1>4 DEF RollbackBelowRing, ChainTypeOK, nodeVars, poolVars
  <2> QED BY <2>3, <2>4, InvAfter
<1>5. CASE FinishSync
  <2>1. CoinInv'
    BY <1>1, <1>5, CoinUnchanged DEF FinishSync
  <2>2. ChainTypeOK'
    BY <1>1, <1>5 DEF FinishSync, ChainTypeOK, nodeVars, poolVars
  <2> QED BY <2>1, <2>2, InvAfter
<1>6. CASE MempoolList
  <2> DEFINE n == [k \in Key |-> RollbackPending(utxo[k], k)]
  <2>1. Write(n)
    BY <1>6 DEF MempoolList
  <2>2. ASSUME NEW k \in Key PROVE Follows(utxo[k], n[k])
    BY <1>1, RollbackPendingFollows
  <2> HIDE DEF n
  <2>3. CoinInv'
    BY <1>1, <2>1, <2>2, WriteInv DEF Steps
  <2>4. ChainTypeOK'
    BY <1>1, <1>6 DEF MempoolList, ChainTypeOK, nodeVars, chainVars
  <2> QED BY <2>3, <2>4, InvAfter
<1>7. CASE MempoolAbort
  <2>1. CoinInv'
    BY <1>1, <1>7, CoinUnchanged DEF MempoolAbort
  <2>2. ChainTypeOK'
    BY <1>1, <1>7 DEF MempoolAbort, ChainTypeOK, nodeVars, chainVars
  <2> QED BY <2>1, <2>2, InvAfter
<1>8. ASSUME NEW t \in Tx, MempoolFetch(t) PROVE BalanceInv'
  <2> DEFINE n == [k \in Key |-> ApplyPending(utxo[k], k, t)]
  <2>1. Write(n)
    BY <1>8 DEF MempoolFetch
  <2>2. ASSUME NEW k \in Key PROVE Follows(utxo[k], n[k])
    BY <1>1, ApplyPendingFollows
  <2> HIDE DEF n
  <2>3. CoinInv'
    BY <1>1, <2>1, <2>2, WriteInv DEF Steps
  <2>4. ChainTypeOK'
    BY <1>1, <1>8 DEF MempoolFetch, ChainTypeOK, nodeVars, chainVars
  <2> QED BY <2>3, <2>4, InvAfter
<1> QED BY <1>2, <1>3, <1>4, <1>5, <1>6, <1>7, <1>8 DEF TailerNext

(* Opening, watching and deriving attach whole addresses, closing and     *)
(* unwatching detach them, and a rescan notifies every watcher.           *)
LEMMA WalletStep == ASSUME BalanceInv, WalletNext PROVE BalanceInv'
<1> USE WalletAssumption, OwnerAssumption
<1>1. /\ CoinInv /\ ChainTypeOK
      /\ desync \in [Addr -> BOOLEAN]
      /\ \A k \in Key : ~Known(k) => utxo[k] = NoCell
  BY TypeSplit DEF BalanceInv, CoinInv, CoinTypeOK, Absent
<1>2. \A k \in Key : ~Known(k) => utxo[k] \in Cell /\ utxo[k].confirmed_sat = 0
  BY <1>1, NoCellSound
<1>3. ASSUME NEW w \in Wallet, OpenWallet(w) PROVE BalanceInv'
  <2>1. Attach(w, Book[w], utxo) /\ UNCHANGED <<desync, sends>>
    BY <1>3 DEF OpenWallet
  <2>2. CoinInv'
    BY <1>1, <1>2, <2>1, AttachInv
  <2>3. ChainTypeOK'
    BY <1>1, <2>1 DEF Attach, ChainTypeOK, nodeVars, chainVars
  <2> QED BY <2>2, <2>3, InvAfter
<1>4. ASSUME NEW w \in Wallet, CloseWallet(w) PROVE BalanceInv'
  <2>1. Detach(w, Addr) /\ sends' \subseteq sends
    BY <1>4 DEF CloseWallet
  <2>2. CoinInv'
    BY <1>1, <2>1, DetachInv
  <2>3. ChainTypeOK'
    BY <1>1, <2>1 DEF Detach, ChainTypeOK, nodeVars, chainVars, poolVars
  <2> QED BY <2>2, <2>3, InvAfter
<1>5. ASSUME NEW w \in Wallet, NEW A \in SUBSET Addr, Rescan(w, A) PROVE BalanceInv'
  <2>1. CoinInv'
    BY <1>1, <1>5, RescanInv
  <2>2. ChainTypeOK'
    BY <1>1, <1>5 DEF Rescan, ChainTypeOK, nodeVars, chainVars, poolVars
  <2> QED BY <2>1, <2>2, InvAfter
<1>6. ASSUME NEW w \in Wallet, NEW a \in Addr, NewAddress(w, a) PROVE BalanceInv'
  <2>1. Attach(w, {a}, utxo) /\ desync' \in [Addr -> BOOLEAN] /\ UNCHANGED sends
    BY <1>1, <1>6 DEF NewAddress, Derive
  <2>2. CoinInv'
    BY <1>1, <1>2, <2>1, AttachInv
  <2>3. ChainTypeOK'
    BY <1>1, <2>1 DEF Attach, ChainTypeOK, nodeVars, chainVars
  <2> QED BY <2>2, <2>3, InvAfter
<1>7. ASSUME NEW w \in Wallet, NEW a \in Addr, WatchAdd(w, a) PROVE BalanceInv'
  <2>1. PICK order : Attach(w, {a}, [k \in Key |-> ReplayMempool(utxo[k], k, order)])
    BY <1>7 DEF WatchAdd
  <2> DEFINE n == [k \in Key |-> ReplayMempool(utxo[k], k, order)]
  <2>2. \A k \in Key : ~Known(k) => n[k] \in Cell /\ n[k].confirmed_sat = 0
    BY <1>1, NoCellSound, ReplayFollows, ReplayOfNothing DEF Follows
  <2> HIDE DEF n
  <2>3. desync' \in [Addr -> BOOLEAN] /\ Attach(w, {a}, n) /\ UNCHANGED sends
    BY <1>1, <1>7, <2>1 DEF WatchAdd, n
  <2>4. CoinInv'
    BY <1>1, <2>2, <2>3, AttachInv
  <2>5. ChainTypeOK'
    BY <1>1, <2>3 DEF Attach, ChainTypeOK, nodeVars, chainVars
  <2> QED BY <2>4, <2>5, InvAfter
<1>8. ASSUME NEW w \in Wallet, NEW a \in Addr, WatchRemove(w, a) PROVE BalanceInv'
  <2>1. Detach(w, {a}) /\ UNCHANGED sends
    BY <1>8 DEF WatchRemove
  <2>2. CoinInv'
    BY <1>1, <2>1, DetachInv
  <2>3. ChainTypeOK'
    BY <1>1, <2>1 DEF Detach, ChainTypeOK, nodeVars, chainVars, poolVars
  <2> QED BY <2>2, <2>3, InvAfter
<1> QED BY <1>3, <1>4, <1>5, <1>6, <1>7, <1>8 DEF WalletNext

(* A send derives its change address, is accepted by the node, and marks  *)
(* its inputs when it hears so.                                           *)
LEMMA SendStep == ASSUME BalanceInv, SendNext PROVE BalanceInv'
<1> USE WalletAssumption, OwnerAssumption
<1>1. /\ CoinInv /\ ChainTypeOK
      /\ desync \in [Addr -> BOOLEAN]
      /\ \A k \in Key : utxo[k] \in Cell
      /\ \A k \in Key : ~Known(k) => utxo[k] = NoCell
  BY TypeSplit DEF BalanceInv, CoinInv, CoinTypeOK, Absent
<1>2. \A k \in Key : ~Known(k) => utxo[k] \in Cell /\ utxo[k].confirmed_sat = 0
  BY <1>1, NoCellSound
<1>3. ASSUME NEW w \in Wallet, NEW t \in Tx, SendBuild(w, t) PROVE BalanceInv'
  <2>1. PICK A \in SUBSET Addr : Attach(w, A, utxo)
    BY <1>3 DEF SendBuild, Derive
  <2>2. desync' \in [Addr -> BOOLEAN]
    BY <1>3 DEF SendBuild, Derive
  <2>3. CoinInv'
    BY <1>1, <1>2, <2>1, <2>2, AttachInv
  <2>4. sends' \subseteq Send
    <3>1. [tx |-> t, wallet |-> w, accepted |-> FALSE] \in Send
      BY DEF Send
    <3>2. sends' = sends \union {[tx |-> t, wallet |-> w, accepted |-> FALSE]}
      BY <1>3 DEF SendBuild
    <3> QED BY <1>1, <3>1, <3>2 DEF ChainTypeOK
  <2>5. ChainTypeOK'
    BY <1>1, <2>1, <2>4 DEF Attach, ChainTypeOK, nodeVars, chainVars
  <2> QED BY <2>3, <2>5, InvAfter
<1>4. ASSUME NEW s \in sends, SendBroadcast(s) PROVE BalanceInv'
  <2>1. CoinInv'
    BY <1>1, <1>4, CoinUnchanged DEF SendBroadcast
  <2>2. s \in Send
    BY <1>1 DEF ChainTypeOK
  <2>3. sends' \subseteq Send /\ pool' \subseteq Tx
    BY <1>1, <1>4, <2>2 DEF SendBroadcast, ChainTypeOK, Send
  <2>4. ChainTypeOK'
    BY <1>1, <1>4, <2>3 DEF SendBroadcast, ChainTypeOK, chainVars, poolVars
  <2> QED BY <2>1, <2>4, InvAfter
<1>5. ASSUME NEW s \in sends, SendAnswer(s) PROVE BalanceInv'
  <2> DEFINE n == [k \in Key |-> IF k \in Ins[s.tx] /\ s.wallet \in watchers[Owner[k]]
                                THEN MarkSent(utxo[k], s.tx) ELSE utxo[k]]
  <2>1. s.tx \in Tx
    BY <1>1 DEF ChainTypeOK, Send
  <2>2. \A k \in Key : Follows(utxo[k], n[k])
    BY <1>1, <2>1, MarkSentFollows, FollowsSelf
  <2>3. Write(n)
    BY <1>5 DEF SendAnswer
  <2> HIDE DEF n
  <2>4. CoinInv'
    BY <1>1, <2>2, <2>3, WriteInv DEF Steps
  <2>5. ChainTypeOK'
    BY <1>1, <1>5 DEF SendAnswer, ChainTypeOK, nodeVars, chainVars, poolVars
  <2> QED BY <2>4, <2>5, InvAfter
<1>6. ASSUME NEW s \in sends, SendFail(s) PROVE BalanceInv'
  <2>1. CoinInv'
    BY <1>1, <1>6, CoinUnchanged DEF SendFail
  <2>2. ChainTypeOK'
    BY <1>1, <1>6 DEF SendFail, ChainTypeOK, nodeVars, chainVars, poolVars
  <2> QED BY <2>1, <2>2, InvAfter
<1> QED BY <1>3, <1>4, <1>5, <1>6 DEF SendNext

(* A restarted process knows no wallet and no coin. *)
LEMMA CrashStep == ASSUME BalanceInv, Crash PROVE BalanceInv'
<1> USE OwnerAssumption DEF Crash
<1>1. ChainTypeOK
  BY TypeSplit DEF BalanceInv
<1>2. fork' \in Nat
  BY <1>1 DEF ChainTypeOK, Min2
<1>3. ChainTypeOK'
  BY <1>1, <1>2 DEF ChainTypeOK, nodeVars
<1>4. CoinTypeOK'
  BY NoCellSound DEF CoinTypeOK
<1>5. WalletBalance' /\ Delivered' /\ Absent'
  BY NoCellSound DEF WalletBalance, Delivered, Absent
<1> QED BY <1>3, <1>4, <1>5, InvAfter DEF CoinInv

(* Nothing changes, nothing to show. *)
LEMMA StutterStep == ASSUME BalanceInv, UNCHANGED vars PROVE BalanceInv'
<1>1. CoinInv'
  BY CoinUnchanged DEF BalanceInv, vars
<1>2. ChainTypeOK'
  BY TypeSplit DEF BalanceInv, ChainTypeOK, vars, nodeVars, chainVars, poolVars
<1> QED BY <1>1, <1>2, InvAfter

(* The inductive invariant behind the two theorems. *)
LEMMA BalanceInvariant == Spec => []BalanceInv
<1>1. BalanceInv /\ [Next]_vars => BalanceInv'
  BY NodeStep, TailerStep, WalletStep, SendStep, CrashStep, StutterStep DEF Next
<1> QED BY <1>1, InitBalance, PTL DEF Spec

(* Every variable of the ledger keeps its type. *)
THEOREM TypeCorrect == Spec => []TypeOK
<1>1. BalanceInv => TypeOK
  BY DEF BalanceInv
<1> QED BY <1>1, BalanceInvariant, PTL

(* Whatever blocks, reorgs, mempool diffs, rescans, wallet openings and    *)
(* restarts are interleaved, every wallet's balance_sat is the sum of      *)
(* confirmed_sat over the addresses it watches.                            *)
THEOREM BalanceCorrect == Spec => []WalletBalance
<1>1. BalanceInv => WalletBalance
  BY DEF BalanceInv, CoinInv
<1> QED BY <1>1, BalanceInvariant, PTL

=============================================================================
