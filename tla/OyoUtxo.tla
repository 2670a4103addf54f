------------------------------ MODULE OyoUtxo ------------------------------
(***************************************************************************)
(* One outpoint as the engine's wallet side sees it: the Utxo record of    *)
(* Address::utxos, the share the outpoint has in the cached totals of its  *)
(* address, and the single-writer helpers, the only code that changes      *)
(* either of them.                                                         *)
(*                                                                         *)
(* Amounts never change, so a cached total such as confirmed_sat is kept   *)
(* as a formal sum: for each outpoint, how many times its amount is        *)
(* counted.  `total += u.amount_sat' adds one to the coefficient.  A       *)
(* total is right iff every coefficient is, whatever the amounts are.      *)
(*                                                                         *)
(* A handler touches a cell with several helpers in a row.  `notified' is  *)
(* the sum of the deltas those calls pass to NotifyWatchersLocked, and     *)
(* `missed' says that one of them found no such utxo and so called         *)
(* SetAddressDesyncLocked; both are consumed when the handler ends.        *)
(***************************************************************************)
EXTENDS Integers

CONSTANTS
  Tx,       \* transactions
  Nobody    \* spent_pending_txid when spent_pending is false

ASSUME NobodyAssumption == Nobody \notin Tx

Cell == [known : BOOLEAN, confirmed : BOOLEAN, spent : BOOLEAN,
         spender : Tx \union {Nobody},
         confirmed_sat : Int, pending_in_sat : Int, pending_out_sat : Int,
         notified : Int, missed : BOOLEAN]

(* The outpoint is in no utxos map and in no total. *)
NoCell == [known |-> FALSE, confirmed |-> FALSE, spent |-> FALSE,
           spender |-> Nobody,
           confirmed_sat |-> 0, pending_in_sat |-> 0, pending_out_sat |-> 0,
           notified |-> 0, missed |-> FALSE]

SpentPending(u) == u.spender # Nobody

(* u.confirmed && !u.spent && !u.spent_pending: what IsSpendableUtxoLocked *)
(* offers to coin selection, maturity apart.                               *)
Spendable(u) == u.known /\ u.confirmed /\ ~u.spent /\ ~SpentPending(u)

(* The three totals as the field comments of Address define them. *)
InConfirmed(u)  == Spendable(u)
InPendingIn(u)  == u.known /\ ~u.confirmed /\ ~u.spent /\ ~SpentPending(u)
InPendingOut(u) == u.known /\ u.confirmed /\ ~u.spent /\ SpentPending(u)

(* addr.utxos.erase(it): the totals are the caller's business. *)
Erase(u) == [u EXCEPT !.known = FALSE, !.confirmed = FALSE, !.spent = FALSE,
                      !.spender = Nobody]

Missed(u) == [u EXCEPT !.missed = TRUE]

(* The handler is done: notifications and misses are delivered. *)
Settle(u) == [u EXCEPT !.notified = 0, !.missed = FALSE]

(* Moves of one amount between the totals; the confirmed one is what the   *)
(* watchers are told about.                                                *)
Confirmed(u, n)  == [u EXCEPT !.confirmed_sat = @ + n, !.notified = @ + n]
PendingIn(u, n)  == [u EXCEPT !.pending_in_sat = @ + n]
PendingOut(u, n) == [u EXCEPT !.pending_out_sat = @ + n]

-----------------------------------------------------------------------------

AddUtxo(u, confirmed) ==
  CASE u.known   -> u
    [] ~u.known /\ confirmed ->
         Confirmed([u EXCEPT !.known = TRUE, !.confirmed = TRUE], 1)
    [] ~u.known /\ ~confirmed ->
         PendingIn([u EXCEPT !.known = TRUE], 1)

(* The definitions named after a helper and a slip are what a plausible    *)
(* bug in it would make of it; nothing uses them.                          *)
PromoteUtxoKeepsPending(u) ==
  LET c == [u EXCEPT !.confirmed = TRUE] IN
  CASE ~u.known \/ u.confirmed -> u
    [] u.known /\ ~u.confirmed /\ SpentPending(u)  -> PendingOut(c, 1)
    [] u.known /\ ~u.confirmed /\ ~SpentPending(u) -> Confirmed(c, 1)

PromoteUtxo(u) ==
  LET c == [u EXCEPT !.confirmed = TRUE] IN
  CASE ~u.known \/ u.confirmed -> u
    [] u.known /\ ~u.confirmed /\ SpentPending(u)  -> PendingOut(c, 1)
    [] u.known /\ ~u.confirmed /\ ~SpentPending(u) ->
         Confirmed(PendingIn(c, -1), 1)

DemoteUtxoSilently(u) ==
  LET p == [u EXCEPT !.confirmed = FALSE] IN
  CASE ~u.known \/ ~u.confirmed -> u
    [] u.known /\ u.confirmed /\ SpentPending(u)  -> PendingOut(p, -1)
    [] u.known /\ u.confirmed /\ ~SpentPending(u) ->
         PendingIn([p EXCEPT !.confirmed_sat = @ - 1], 1)

DemoteUtxo(u) ==
  LET p == [u EXCEPT !.confirmed = FALSE] IN
  CASE ~u.known \/ ~u.confirmed -> u
    [] u.known /\ u.confirmed /\ SpentPending(u)  -> PendingOut(p, -1)
    [] u.known /\ u.confirmed /\ ~SpentPending(u) ->
         PendingIn(Confirmed(p, -1), 1)

SpendUtxoKeepsMark(u) ==
  LET s == [u EXCEPT !.spent = TRUE] IN
  CASE ~u.known -> Missed(u)
    [] u.known /\ u.spent -> u
    [] u.known /\ ~u.spent /\ u.confirmed /\ SpentPending(u)   -> PendingOut(s, -1)
    [] u.known /\ ~u.spent /\ u.confirmed /\ ~SpentPending(u)  -> Confirmed(s, -1)
    [] u.known /\ ~u.spent /\ ~u.confirmed /\ SpentPending(u)  -> s
    [] u.known /\ ~u.spent /\ ~u.confirmed /\ ~SpentPending(u) -> PendingIn(s, -1)

SpendUtxo(u) ==
  LET s == [u EXCEPT !.spent = TRUE, !.spender = Nobody] IN
  CASE ~u.known -> Missed(u)
    [] u.known /\ u.spent -> u
    [] u.known /\ ~u.spent /\ u.confirmed /\ SpentPending(u)   -> PendingOut(s, -1)
    [] u.known /\ ~u.spent /\ u.confirmed /\ ~SpentPending(u)  -> Confirmed(s, -1)
    [] u.known /\ ~u.spent /\ ~u.confirmed /\ SpentPending(u)  -> s
    [] u.known /\ ~u.spent /\ ~u.confirmed /\ ~SpentPending(u) -> PendingIn(s, -1)

UnspendUtxo(u) ==
  LET b == [u EXCEPT !.spent = FALSE] IN
  CASE ~u.known -> Missed(u)
    [] u.known /\ ~u.spent -> u
    [] u.known /\ u.spent /\ u.confirmed  -> Confirmed(b, 1)
    [] u.known /\ u.spent /\ ~u.confirmed -> PendingIn(b, 1)

RemoveUtxo(u) ==
  CASE ~u.known \/ u.spent -> u
    [] InPendingOut(u) -> Erase(PendingOut(u, -1))
    [] InConfirmed(u)  -> Erase(Confirmed(u, -1))
    [] InPendingIn(u)  -> Erase(PendingIn(u, -1))
    [] u.known /\ ~u.spent /\ ~u.confirmed /\ SpentPending(u) -> Erase(u)

PendingSpendUtxo(u, t) ==
  LET p == [u EXCEPT !.spender = t] IN
  CASE ~u.known -> Missed(u)
    [] u.known /\ (u.spent \/ SpentPending(u)) -> u
    [] InConfirmed(u) -> PendingOut(Confirmed(p, -1), 1)
    [] InPendingIn(u) -> PendingIn(p, -1)

RollbackPendingSpend(u) ==
  LET r == [u EXCEPT !.spender = Nobody] IN
  CASE ~u.known \/ ~SpentPending(u) -> u
    [] u.known /\ SpentPending(u) /\ u.confirmed  -> Confirmed(PendingOut(r, -1), 1)
    [] u.known /\ SpentPending(u) /\ ~u.confirmed -> PendingIn(r, 1)

RollbackPendingAdd(u) ==
  CASE ~u.known \/ u.confirmed -> u
    [] u.known /\ ~u.confirmed /\ SpentPending(u)  -> Erase(u)
    [] u.known /\ ~u.confirmed /\ ~SpentPending(u) -> Erase(PendingIn(u, -1))

GcUtxoUnspent(u) == IF u.known /\ u.confirmed THEN Erase(u) ELSE u

GcUtxo(u) == IF u.known /\ u.spent /\ u.confirmed THEN Erase(u) ELSE u

(* What the answer to a broadcast does to one input of the transaction     *)
(* sent.  It sets the mark by itself, not by PendingSpendUtxoLocked: the   *)
(* totals move only if the coin is still confirmed and unspent.            *)
MarkSent(u, t) ==
  LET p == [u EXCEPT !.spender = t] IN
  CASE ~u.known \/ SpentPending(u) -> u
    [] InConfirmed(u) -> PendingOut(Confirmed(p, -1), 1)
    [] u.known /\ ~SpentPending(u) /\ (u.spent \/ ~u.confirmed) -> p

(* What InvalidateLoadedWalletMirrorStateLocked does to one utxo: every    *)
(* confirmed one is dropped, pending spends of it included.                *)
InvalidateUtxo(u) ==
  CASE ~u.known \/ ~u.confirmed -> u
    [] u.known /\ u.confirmed /\ u.spent -> Erase(u)
    [] InPendingOut(u) -> Erase(PendingOut(u, -1))
    [] InConfirmed(u)  -> Erase(Confirmed(u, -1))

(* What RunWalletRescanFromMirrorLocked does to one utxo, given whether    *)
(* the mirror lists its outpoint as unspent.                               *)
RescanUtxo(u, unspentInMirror) ==
  LET d == IF Spendable(u) THEN Erase(Confirmed(u, -1)) ELSE u
  IN  IF unspentInMirror THEN AddUtxo(d, TRUE) ELSE d

=============================================================================
