---------------------------- MODULE OyoMwebUtxo ----------------------------
(***************************************************************************)
(* One MWEB output, known by its commitment, as the engine's wallet side   *)
(* sees it: the MwebUtxo record of MwebAddress::utxos, the membership of   *)
(* the commitment in the maps of the chain, the share it has in the totals *)
(* of its address, and the single-writer helpers on all of these.          *)
(*                                                                         *)
(* As in OyoUtxo a total is kept as a formal sum, one coefficient per      *)
(* output, and `notified' and `missed' collect what a handler tells the    *)
(* watchers.  pending_in_sat counts exactly the members of                 *)
(* mweb_mempool_pending, so that it needs no coefficient.                  *)
(***************************************************************************)
EXTENDS Integers

Cell == [known : BOOLEAN,    \* in utxos, always with confirmed
         spent : BOOLEAN,
         indexed : BOOLEAN,  \* in mweb_utxo_index
         marked : BOOLEAN,   \* in mweb_mempool_pending_out
         pending : BOOLEAN,  \* in mweb_mempool_pending
         confirmed_sat : Int, pending_out_sat : Int,
         notified : Int, missed : BOOLEAN]

NoCell == [known |-> FALSE, spent |-> FALSE, indexed |-> FALSE, marked |-> FALSE,
           pending |-> FALSE, confirmed_sat |-> 0, pending_out_sat |-> 0,
           notified |-> 0, missed |-> FALSE]

(* What MWEB selection offers. *)
Spendable(u) == u.known /\ ~u.spent

Confirmed(u, n)  == [u EXCEPT !.confirmed_sat = @ + n, !.notified = @ + n]
PendingOut(u, n) == [u EXCEPT !.pending_out_sat = @ + n]

(* The handler is done: notifications and misses are delivered. *)
Settle(u) == [u EXCEPT !.notified = 0, !.missed = FALSE]
Missed(u) == [u EXCEPT !.missed = TRUE]

Unindex(u) == [u EXCEPT !.indexed = FALSE]
Erase(u)   == [u EXCEPT !.known = FALSE, !.spent = FALSE, !.indexed = FALSE]

-----------------------------------------------------------------------------
(* The helpers of confirmed outputs.  A definition named after a helper    *)
(* and a slip is what a plausible bug in it would make of it.              *)

AddUtxoAgain(u) ==
  Confirmed([u EXCEPT !.known = TRUE, !.spent = FALSE, !.indexed = TRUE], 1)

AddUtxo(u) ==
  IF u.known THEN u
  ELSE Confirmed([u EXCEPT !.known = TRUE, !.spent = FALSE, !.indexed = TRUE], 1)

AddHistorical(u) ==
  IF u.known THEN u ELSE [u EXCEPT !.known = TRUE, !.spent = TRUE]

SpendUtxo(u) ==
  CASE ~u.indexed                         -> u
    [] u.indexed /\ ~u.known              -> Missed(Unindex(u))
    [] u.indexed /\ u.known /\ u.spent    -> u
    [] u.indexed /\ u.known /\ ~u.spent   -> Confirmed([u EXCEPT !.spent = TRUE], -1)

UnspendUtxo(u) ==
  IF u.indexed /\ u.known /\ u.spent
  THEN Confirmed([u EXCEPT !.spent = FALSE], 1)
  ELSE u

(* Whether a transaction of the mempool spends the output makes no         *)
(* difference.                                                             *)
RemoveUtxo(u) ==
  CASE ~u.indexed \/ ~u.known             -> Unindex(u)
    [] u.indexed /\ u.known /\ u.spent    -> Erase(u)
    [] u.indexed /\ u.known /\ ~u.spent   -> Confirmed(Erase(u), -1)

InvalidateUtxoMarkless(u) ==
  CASE ~u.known                           -> Unindex(u)
    [] u.known /\ u.spent                 -> Erase(u)
    [] u.known /\ ~u.spent                ->
         Confirmed([Erase(u) EXCEPT !.marked = FALSE], -1)

InvalidateUtxo(u) ==
  CASE ~u.known                           -> Unindex(u)
    [] u.known /\ u.spent                 -> Erase(u)
    [] u.known /\ ~u.spent /\ u.marked    ->
         PendingOut([Erase(u) EXCEPT !.marked = FALSE], -1)
    [] u.known /\ ~u.spent /\ ~u.marked   -> Confirmed(Erase(u), -1)

GcUtxo(u) == Unindex(u)

-----------------------------------------------------------------------------
(* The helpers of the mempool.                                             *)

AddPending(u)    == [u EXCEPT !.pending = TRUE]
RemovePending(u) == [u EXCEPT !.pending = FALSE]

AddPendingSpend(u) ==
  CASE u.marked                           -> u
    [] ~u.marked /\ ~u.indexed            -> [u EXCEPT !.marked = TRUE]
    [] ~u.marked /\ u.indexed             ->
         PendingOut(Confirmed([u EXCEPT !.marked = TRUE], -1), 1)

RemovePendingSpend(u) ==
  CASE ~u.marked                          -> u
    [] u.marked /\ ~u.indexed             -> [u EXCEPT !.marked = FALSE]
    [] u.marked /\ u.indexed              ->
         PendingOut(Confirmed([u EXCEPT !.marked = FALSE], 1), -1)

(* The address goes with its last watcher, and with it what the chain has  *)
(* on its outputs, marks by way of the index.                              *)
DropUtxo(u) == [NoCell EXCEPT !.marked = u.marked /\ ~u.indexed]

=============================================================================
