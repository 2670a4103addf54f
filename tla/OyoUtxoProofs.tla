--------------------------- MODULE OyoUtxoProofs ---------------------------
(***************************************************************************)
(* What every single-writer helper of OyoUtxo preserves: the cached totals *)
(* of the outpoint say what its flags say, and whatever the helper adds to *)
(* confirmed_sat it also notifies.  The proofs of the helpers all have the *)
(* same shape: the cell stays a cell, what becomes of the flags, what      *)
(* becomes of the totals, and from these that the totals are still right.  *)
(***************************************************************************)
EXTENDS OyoUtxo, TLAPS

(* The three totals are what the flags say, a spent outpoint is confirmed  *)
(* and carries no pending mark, and one that is not in utxos has no flags  *)
(* at all.                                                                 *)
Sound(u) ==
  /\ InConfirmed(u) => u.confirmed_sat = 1
  /\ ~InConfirmed(u) => u.confirmed_sat = 0
  /\ InPendingOut(u) => u.pending_out_sat = 1
  /\ ~InPendingOut(u) => u.pending_out_sat = 0
  /\ InPendingIn(u) => u.pending_in_sat = 1
  /\ ~InPendingIn(u) => u.pending_in_sat = 0
  /\ u.spent => u.confirmed /\ u.spender = Nobody
  /\ ~u.known => ~u.confirmed /\ ~u.spent /\ u.spender = Nobody

(* What confirmed_sat was when the handler began. *)
Drift(u) == u.confirmed_sat - u.notified

(* Helpers take the cell u to the cell v and notify what they add. *)
Follows(u, v) == v \in Cell /\ Drift(v) = Drift(u)

SameFlags(u, v) ==
  /\ v.known = u.known
  /\ v.confirmed = u.confirmed
  /\ v.spent = u.spent
  /\ v.spender = u.spender

-----------------------------------------------------------------------------
(* The moves of an amount, and the other edits the helpers are made of.    *)

(* Confirmed keeps the cell a cell. *)
LEMMA ConfirmedCell == ASSUME NEW u \in Cell, NEW n \in Int PROVE Confirmed(u, n) \in Cell
<1> DEFINE a == u.confirmed_sat + n
           b == u.notified + n
<1>1. a \in Int /\ b \in Int
  BY DEF Cell
<1> HIDE DEF a, b
<1>2. [u EXCEPT !.confirmed_sat = a, !.notified = b] \in Cell
  BY <1>1 DEF Cell
<1> QED BY <1>2 DEF Confirmed, Cell, a, b

(* So do PendingIn and PendingOut. *)
LEMMA PendingCell ==
  ASSUME NEW u \in Cell, NEW n \in Int
  PROVE  PendingIn(u, n) \in Cell /\ PendingOut(u, n) \in Cell
  BY DEF PendingIn, PendingOut, Cell

(* The three moves by one, which are the only ones. *)
LEMMA MoveCell ==
  ASSUME NEW u \in Cell
  PROVE  /\ Confirmed(u, 1) \in Cell /\ Confirmed(u, -1) \in Cell
         /\ PendingIn(u, 1) \in Cell /\ PendingIn(u, -1) \in Cell
         /\ PendingOut(u, 1) \in Cell /\ PendingOut(u, -1) \in Cell
<1>1. 1 \in Int /\ -1 \in Int
  OBVIOUS
<1> QED BY <1>1, ConfirmedCell, PendingCell

(* Erase and Missed keep the cell a cell too. *)
LEMMA EraseCell == ASSUME NEW u \in Cell PROVE Erase(u) \in Cell /\ Missed(u) \in Cell
  BY DEF Erase, Missed, Cell

(* The handler that is done keeps the cell and its totals. *)
LEMMA SettleSound ==
  ASSUME NEW u \in Cell
  PROVE  /\ Settle(u) \in Cell
         /\ Sound(u) => Sound(Settle(u))
         /\ Settle(u).notified = 0
         /\ Settle(u).confirmed_sat = u.confirmed_sat
<1> DEFINE v == Settle(u)
<1>1. v \in Cell
  <2>1. [u EXCEPT !.notified = 0] \in Cell
    BY DEF Cell
  <2> QED BY <2>1 DEF Settle, Cell
<1>2. /\ SameFlags(u, v)
      /\ v.confirmed_sat = u.confirmed_sat
      /\ v.pending_out_sat = u.pending_out_sat
      /\ v.pending_in_sat = u.pending_in_sat
      /\ v.notified = 0
  BY DEF Settle, SameFlags, Cell
<1> HIDE DEF v
<1>3. Sound(u) => Sound(v)
  BY <1>2 DEF Sound, SameFlags, InConfirmed, InPendingOut, InPendingIn, Spendable, SpentPending
<1> QED BY <1>1, <1>2, <1>3 DEF v

(* The outpoint nobody holds. *)
LEMMA NoCellSound ==
  /\ NoCell \in Cell
  /\ Sound(NoCell)
  /\ NoCell.notified = 0
  /\ NoCell.confirmed_sat = 0
  BY DEF NoCell, Cell, Sound, InConfirmed, InPendingOut, InPendingIn, Spendable, SpentPending

(* Helpers compose. *)
LEMMA FollowsTrans ==
  ASSUME NEW u, NEW v, NEW w, Follows(u, v), Follows(v, w)
  PROVE  Follows(u, w)
  BY DEF Follows

(* A helper that does nothing follows. *)
LEMMA FollowsSelf == ASSUME NEW u \in Cell PROVE Follows(u, u)
  BY DEF Follows

-----------------------------------------------------------------------------
(* The helpers.                                                            *)

(* AddUtxoLocked. *)
LEMMA AddFollows ==
  ASSUME NEW u \in Cell, NEW c \in BOOLEAN
  PROVE  /\ Follows(u, AddUtxo(u, c))
         /\ Sound(u) => Sound(AddUtxo(u, c))
<1> DEFINE v == AddUtxo(u, c)
           a == [u EXCEPT !.known = TRUE, !.confirmed = TRUE]
           b == [u EXCEPT !.known = TRUE]
<1> USE DEF InConfirmed, InPendingOut, InPendingIn, Spendable, SpentPending
<1>1. v \in Cell
  <2>1. a \in Cell /\ b \in Cell
    BY DEF Cell
  <2>2. Confirmed(a, 1) \in Cell /\ PendingIn(b, 1) \in Cell
    BY <2>1, MoveCell
  <2> QED BY <2>1, <2>2 DEF AddUtxo, Cell
<1>2. /\ v.known
      /\ u.known \/ ~c => v.confirmed = u.confirmed
      /\ ~u.known /\ c => v.confirmed
      /\ v.spent = u.spent
      /\ v.spender = u.spender
  BY DEF AddUtxo, PendingIn, Confirmed, Cell
<1>3. /\ ~u.known /\ c => v.confirmed_sat = u.confirmed_sat + 1 /\ v.notified = u.notified + 1
      /\ ~(~u.known /\ c) => v.confirmed_sat = u.confirmed_sat /\ v.notified = u.notified
      /\ v.pending_out_sat = u.pending_out_sat
      /\ ~u.known /\ ~c => v.pending_in_sat = u.pending_in_sat + 1
      /\ ~(~u.known /\ ~c) => v.pending_in_sat = u.pending_in_sat
  BY DEF AddUtxo, PendingIn, Confirmed, Cell
<1>4. /\ u.confirmed_sat \in Int /\ u.notified \in Int /\ u.pending_out_sat \in Int
      /\ u.pending_in_sat \in Int
      /\ u.known \in BOOLEAN /\ u.confirmed \in BOOLEAN /\ u.spent \in BOOLEAN
  BY DEF Cell
<1> HIDE DEF v
<1>5. Drift(v) = Drift(u)
  BY <1>3, <1>4 DEF Drift
<1>6. Sound(u) => Sound(v)
  BY <1>2, <1>3, <1>4, NobodyAssumption DEF Sound
<1> QED BY <1>1, <1>5, <1>6 DEF Follows, v

(* PromoteUtxoLocked. *)
LEMMA PromoteFollows ==
  ASSUME NEW u \in Cell
  PROVE  /\ Follows(u, PromoteUtxo(u))
         /\ Sound(u) => Sound(PromoteUtxo(u))
<1> DEFINE v == PromoteUtxo(u)
           c == [u EXCEPT !.confirmed = TRUE]
<1> USE DEF InConfirmed, InPendingOut, InPendingIn, Spendable, SpentPending
<1>1. v \in Cell
  <2>1. c \in Cell
    BY DEF Cell
  <2>2. PendingOut(c, 1) \in Cell /\ PendingIn(c, -1) \in Cell
    BY <2>1, MoveCell
  <2>3. Confirmed(PendingIn(c, -1), 1) \in Cell
    BY <2>2, MoveCell
  <2> QED BY <2>1, <2>2, <2>3 DEF PromoteUtxo, Cell
<1>2. /\ v.known = u.known
      /\ u.known => v.confirmed
      /\ ~u.known => v.confirmed = u.confirmed
      /\ v.spent = u.spent
      /\ v.spender = u.spender
  BY DEF PromoteUtxo, PendingOut, PendingIn, Confirmed, Cell
<1>3. /\ u.known /\ ~u.confirmed /\ ~SpentPending(u) => v.confirmed_sat = u.confirmed_sat + 1 /\ v.notified = u.notified + 1
      /\ ~(u.known /\ ~u.confirmed /\ ~SpentPending(u)) => v.confirmed_sat = u.confirmed_sat /\ v.notified = u.notified
      /\ u.known /\ ~u.confirmed /\ SpentPending(u) => v.pending_out_sat = u.pending_out_sat + 1
      /\ ~(u.known /\ ~u.confirmed /\ SpentPending(u)) => v.pending_out_sat = u.pending_out_sat
      /\ u.known /\ ~u.confirmed /\ ~SpentPending(u) => v.pending_in_sat = u.pending_in_sat + (-1)
      /\ ~(u.known /\ ~u.confirmed /\ ~SpentPending(u)) => v.pending_in_sat = u.pending_in_sat
  BY DEF PromoteUtxo, PendingOut, PendingIn, Confirmed, Cell
<1>4. /\ u.confirmed_sat \in Int /\ u.notified \in Int /\ u.pending_out_sat \in Int
      /\ u.pending_in_sat \in Int
      /\ u.known \in BOOLEAN /\ u.confirmed \in BOOLEAN /\ u.spent \in BOOLEAN
  BY DEF Cell
<1> HIDE DEF v
<1>5. Drift(v) = Drift(u)
  BY <1>3, <1>4 DEF Drift
<1>6. Sound(u) => Sound(v)
  BY <1>2, <1>3, <1>4, NobodyAssumption DEF Sound
<1> QED BY <1>1, <1>5, <1>6 DEF Follows, v

(* DemoteUtxoLocked. *)
LEMMA DemoteFollows ==
  ASSUME NEW u \in Cell
  PROVE  /\ Follows(u, DemoteUtxo(u))
         /\ Sound(u) /\ ~u.spent => Sound(DemoteUtxo(u))
<1> DEFINE v == DemoteUtxo(u)
           p == [u EXCEPT !.confirmed = FALSE]
<1> USE DEF InConfirmed, InPendingOut, InPendingIn, Spendable, SpentPending
<1>1. v \in Cell
  <2>1. p \in Cell
    BY DEF Cell
  <2>2. PendingOut(p, -1) \in Cell /\ Confirmed(p, -1) \in Cell
    BY <2>1, MoveCell
  <2>3. PendingIn(Confirmed(p, -1), 1) \in Cell
    BY <2>2, MoveCell
  <2> QED BY <2>1, <2>2, <2>3 DEF DemoteUtxo, Cell
<1>2. /\ v.known = u.known
      /\ u.known => ~v.confirmed
      /\ ~u.known => v.confirmed = u.confirmed
      /\ v.spent = u.spent
      /\ v.spender = u.spender
  BY DEF DemoteUtxo, PendingOut, PendingIn, Confirmed, Cell
<1>3. /\ u.known /\ u.confirmed /\ ~SpentPending(u) => v.confirmed_sat = u.confirmed_sat + (-1) /\ v.notified = u.notified + (-1)
      /\ ~(u.known /\ u.confirmed /\ ~SpentPending(u)) => v.confirmed_sat = u.confirmed_sat /\ v.notified = u.notified
      /\ u.known /\ u.confirmed /\ SpentPending(u) => v.pending_out_sat = u.pending_out_sat + (-1)
      /\ ~(u.known /\ u.confirmed /\ SpentPending(u)) => v.pending_out_sat = u.pending_out_sat
      /\ u.known /\ u.confirmed /\ ~SpentPending(u) => v.pending_in_sat = u.pending_in_sat + 1
      /\ ~(u.known /\ u.confirmed /\ ~SpentPending(u)) => v.pending_in_sat = u.pending_in_sat
  BY DEF DemoteUtxo, PendingOut, PendingIn, Confirmed, Cell
<1>4. /\ u.confirmed_sat \in Int /\ u.notified \in Int /\ u.pending_out_sat \in Int
      /\ u.pending_in_sat \in Int
      /\ u.known \in BOOLEAN /\ u.confirmed \in BOOLEAN /\ u.spent \in BOOLEAN
  BY DEF Cell
<1> HIDE DEF v
<1>5. Drift(v) = Drift(u)
  BY <1>3, <1>4 DEF Drift
<1>6. Sound(u) /\ ~u.spent => Sound(v)
  BY <1>2, <1>3, <1>4, NobodyAssumption DEF Sound
<1> QED BY <1>1, <1>5, <1>6 DEF Follows, v

(* SpendUtxoLocked. *)
LEMMA SpendFollows ==
  ASSUME NEW u \in Cell
  PROVE  /\ Follows(u, SpendUtxo(u))
         /\ Sound(u) /\ (u.known => u.confirmed) => Sound(SpendUtxo(u))
<1> DEFINE v == SpendUtxo(u)
           s == [u EXCEPT !.spent = TRUE, !.spender = Nobody]
<1> USE DEF InConfirmed, InPendingOut, InPendingIn, Spendable, SpentPending
<1>1. v \in Cell
  <2>1. s \in Cell
    BY DEF Cell
  <2>2. PendingOut(s, -1) \in Cell /\ PendingIn(s, -1) \in Cell /\ Confirmed(s, -1) \in Cell
    BY <2>1, MoveCell
  <2>3. Missed(u) \in Cell
    BY EraseCell
  <2> QED BY <2>1, <2>2, <2>3 DEF SpendUtxo, Cell
<1>2. /\ v.known = u.known
      /\ v.confirmed = u.confirmed
      /\ u.known => v.spent
      /\ ~u.known => v.spent = u.spent
      /\ u.known /\ ~u.spent => v.spender = Nobody
      /\ ~(u.known /\ ~u.spent) => v.spender = u.spender
  BY DEF SpendUtxo, PendingOut, PendingIn, Confirmed, Missed, Cell
<1>3. /\ InConfirmed(u) => v.confirmed_sat = u.confirmed_sat + (-1) /\ v.notified = u.notified + (-1)
      /\ ~InConfirmed(u) => v.confirmed_sat = u.confirmed_sat /\ v.notified = u.notified
      /\ InPendingOut(u) => v.pending_out_sat = u.pending_out_sat + (-1)
      /\ ~InPendingOut(u) => v.pending_out_sat = u.pending_out_sat
      /\ InPendingIn(u) => v.pending_in_sat = u.pending_in_sat + (-1)
      /\ ~InPendingIn(u) => v.pending_in_sat = u.pending_in_sat
  BY DEF SpendUtxo, PendingOut, PendingIn, Confirmed, Missed, Cell
<1>4. /\ u.confirmed_sat \in Int /\ u.notified \in Int /\ u.pending_out_sat \in Int
      /\ u.pending_in_sat \in Int
      /\ u.known \in BOOLEAN /\ u.confirmed \in BOOLEAN /\ u.spent \in BOOLEAN
  BY DEF Cell
<1> HIDE DEF v
<1>5. Drift(v) = Drift(u)
  BY <1>3, <1>4 DEF Drift
<1>6. Sound(u) /\ (u.known => u.confirmed) => Sound(v)
  BY <1>2, <1>3, <1>4, NobodyAssumption DEF Sound
<1> QED BY <1>1, <1>5, <1>6 DEF Follows, v

(* UnspendUtxoLocked. *)
LEMMA UnspendFollows ==
  ASSUME NEW u \in Cell
  PROVE  /\ Follows(u, UnspendUtxo(u))
         /\ Sound(u) => Sound(UnspendUtxo(u))
<1> DEFINE v == UnspendUtxo(u)
           b == [u EXCEPT !.spent = FALSE]
<1> USE DEF InConfirmed, InPendingOut, InPendingIn, Spendable, SpentPending
<1>1. v \in Cell
  <2>1. b \in Cell
    BY DEF Cell
  <2>2. PendingIn(b, 1) \in Cell /\ Confirmed(b, 1) \in Cell
    BY <2>1, MoveCell
  <2>3. Missed(u) \in Cell
    BY EraseCell
  <2> QED BY <2>1, <2>2, <2>3 DEF UnspendUtxo, Cell
<1>2. /\ v.known = u.known
      /\ v.confirmed = u.confirmed
      /\ u.known => ~v.spent
      /\ ~u.known => v.spent = u.spent
      /\ v.spender = u.spender
  BY DEF UnspendUtxo, PendingIn, Confirmed, Missed, Cell
<1>3. /\ u.known /\ u.spent /\ u.confirmed => v.confirmed_sat = u.confirmed_sat + 1 /\ v.notified = u.notified + 1
      /\ ~(u.known /\ u.spent /\ u.confirmed) => v.confirmed_sat = u.confirmed_sat /\ v.notified = u.notified
      /\ v.pending_out_sat = u.pending_out_sat
      /\ u.known /\ u.spent /\ ~u.confirmed => v.pending_in_sat = u.pending_in_sat + 1
      /\ ~(u.known /\ u.spent /\ ~u.confirmed) => v.pending_in_sat = u.pending_in_sat
  BY DEF UnspendUtxo, PendingIn, Confirmed, Missed, Cell
<1>4. /\ u.confirmed_sat \in Int /\ u.notified \in Int /\ u.pending_out_sat \in Int
      /\ u.pending_in_sat \in Int
      /\ u.known \in BOOLEAN /\ u.confirmed \in BOOLEAN /\ u.spent \in BOOLEAN
  BY DEF Cell
<1> HIDE DEF v
<1>5. Drift(v) = Drift(u)
  BY <1>3, <1>4 DEF Drift
<1>6. Sound(u) => Sound(v)
  BY <1>2, <1>3, <1>4, NobodyAssumption DEF Sound
<1> QED BY <1>1, <1>5, <1>6 DEF Follows, v

(* RemoveUtxoLocked. *)
LEMMA RemoveFollows ==
  ASSUME NEW u \in Cell
  PROVE  /\ Follows(u, RemoveUtxo(u))
         /\ Sound(u) => Sound(RemoveUtxo(u))
<1> DEFINE v == RemoveUtxo(u)
<1> USE DEF InConfirmed, InPendingOut, InPendingIn, Spendable, SpentPending
<1>1. v \in Cell
  <2>1. PendingOut(u, -1) \in Cell /\ PendingIn(u, -1) \in Cell /\ Confirmed(u, -1) \in Cell
    BY MoveCell
  <2>2. Erase(u) \in Cell /\ Erase(PendingOut(u, -1)) \in Cell /\ Erase(PendingIn(u, -1)) \in Cell /\ Erase(Confirmed(u, -1)) \in Cell
    BY <2>1, EraseCell
  <2> QED BY <2>1, <2>2 DEF RemoveUtxo, Cell
<1>2. /\ u.known /\ ~u.spent => ~v.known /\ ~v.confirmed /\ ~v.spent /\ v.spender = Nobody
      /\ ~(u.known /\ ~u.spent) => SameFlags(u, v)
  BY DEF RemoveUtxo, PendingOut, PendingIn, Confirmed, Erase, SameFlags, Cell
<1>3. /\ InConfirmed(u) => v.confirmed_sat = u.confirmed_sat + (-1) /\ v.notified = u.notified + (-1)
      /\ ~InConfirmed(u) => v.confirmed_sat = u.confirmed_sat /\ v.notified = u.notified
      /\ InPendingOut(u) => v.pending_out_sat = u.pending_out_sat + (-1)
      /\ ~InPendingOut(u) => v.pending_out_sat = u.pending_out_sat
      /\ InPendingIn(u) => v.pending_in_sat = u.pending_in_sat + (-1)
      /\ ~InPendingIn(u) => v.pending_in_sat = u.pending_in_sat
  BY DEF RemoveUtxo, PendingOut, PendingIn, Confirmed, Erase, Cell
<1>4. /\ u.confirmed_sat \in Int /\ u.notified \in Int /\ u.pending_out_sat \in Int
      /\ u.pending_in_sat \in Int
      /\ u.known \in BOOLEAN /\ u.confirmed \in BOOLEAN /\ u.spent \in BOOLEAN
  BY DEF Cell
<1> HIDE DEF v
<1>5. Drift(v) = Drift(u)
  BY <1>3, <1>4 DEF Drift
<1>6. Sound(u) => Sound(v)
  BY <1>2, <1>3, <1>4, NobodyAssumption DEF Sound, SameFlags
<1> QED BY <1>1, <1>5, <1>6 DEF Follows, v

(* PendingSpendUtxoLocked. *)
LEMMA PendingSpendFollows ==
  ASSUME NEW u \in Cell, NEW t \in Tx
  PROVE  /\ Follows(u, PendingSpendUtxo(u, t))
         /\ Sound(u) => Sound(PendingSpendUtxo(u, t))
<1> DEFINE v == PendingSpendUtxo(u, t)
           p == [u EXCEPT !.spender = t]
<1> USE DEF InConfirmed, InPendingOut, InPendingIn, Spendable, SpentPending
<1>1. v \in Cell
  <2>1. p \in Cell
    BY DEF Cell
  <2>2. Confirmed(p, -1) \in Cell /\ PendingIn(p, -1) \in Cell
    BY <2>1, MoveCell
  <2>3. PendingOut(Confirmed(p, -1), 1) \in Cell
    BY <2>2, MoveCell
  <2>4. Missed(u) \in Cell
    BY EraseCell
  <2> QED BY <2>1, <2>2, <2>3, <2>4 DEF PendingSpendUtxo, Cell
<1>2. /\ v.known = u.known
      /\ v.confirmed = u.confirmed
      /\ v.spent = u.spent
      /\ u.known /\ ~u.spent /\ ~SpentPending(u) => v.spender = t
      /\ ~(u.known /\ ~u.spent /\ ~SpentPending(u)) => v.spender = u.spender
  BY DEF PendingSpendUtxo, PendingOut, PendingIn, Confirmed, Missed, Cell
<1>3. /\ InConfirmed(u) => v.confirmed_sat = u.confirmed_sat + (-1) /\ v.notified = u.notified + (-1) /\ v.pending_out_sat = u.pending_out_sat + 1
      /\ ~InConfirmed(u) => v.confirmed_sat = u.confirmed_sat /\ v.notified = u.notified /\ v.pending_out_sat = u.pending_out_sat
      /\ InPendingIn(u) => v.pending_in_sat = u.pending_in_sat + (-1)
      /\ ~InPendingIn(u) => v.pending_in_sat = u.pending_in_sat
  BY DEF PendingSpendUtxo, PendingOut, PendingIn, Confirmed, Missed, Cell
<1>4. /\ u.confirmed_sat \in Int /\ u.notified \in Int /\ u.pending_out_sat \in Int
      /\ u.pending_in_sat \in Int
      /\ u.known \in BOOLEAN /\ u.confirmed \in BOOLEAN /\ u.spent \in BOOLEAN
  BY DEF Cell
<1> HIDE DEF v
<1>5. Drift(v) = Drift(u)
  BY <1>3, <1>4 DEF Drift
<1>6. Sound(u) => Sound(v)
  BY <1>2, <1>3, <1>4, NobodyAssumption DEF Sound
<1> QED BY <1>1, <1>5, <1>6 DEF Follows, v

(* The answer to a broadcast: the totals of a coin that is still there for *)
(* the taking move as PendingSpendUtxoLocked would have them.               *)
LEMMA MarkSentFollows ==
  ASSUME NEW u \in Cell, NEW t \in Tx
  PROVE  /\ Follows(u, MarkSent(u, t))
         /\ Sound(u) /\ (u.known /\ ~SpentPending(u) => InConfirmed(u)) => Sound(MarkSent(u, t))
<1> DEFINE v == MarkSent(u, t)
           p == [u EXCEPT !.spender = t]
<1> USE DEF InConfirmed, InPendingOut, InPendingIn, Spendable, SpentPending
<1>1. v \in Cell
  <2>1. p \in Cell
    BY DEF Cell
  <2>2. Confirmed(p, -1) \in Cell
    BY <2>1, MoveCell
  <2>3. PendingOut(Confirmed(p, -1), 1) \in Cell
    BY <2>2, MoveCell
  <2> QED BY <2>1, <2>2, <2>3 DEF MarkSent, Cell
<1>2. /\ v.known = u.known
      /\ v.confirmed = u.confirmed
      /\ v.spent = u.spent
      /\ u.known /\ ~SpentPending(u) => v.spender = t
      /\ ~(u.known /\ ~SpentPending(u)) => v.spender = u.spender
  BY DEF MarkSent, PendingOut, Confirmed, Cell
<1>3. /\ InConfirmed(u) => v.confirmed_sat = u.confirmed_sat + (-1) /\ v.notified = u.notified + (-1) /\ v.pending_out_sat = u.pending_out_sat + 1
      /\ ~InConfirmed(u) => v.confirmed_sat = u.confirmed_sat /\ v.notified = u.notified /\ v.pending_out_sat = u.pending_out_sat
      /\ v.pending_in_sat = u.pending_in_sat
  BY DEF MarkSent, PendingOut, Confirmed, Cell
<1>4. /\ u.confirmed_sat \in Int /\ u.notified \in Int /\ u.pending_out_sat \in Int
      /\ u.pending_in_sat \in Int
      /\ u.known \in BOOLEAN /\ u.confirmed \in BOOLEAN /\ u.spent \in BOOLEAN
  BY DEF Cell
<1> HIDE DEF v
<1>5. Drift(v) = Drift(u)
  BY <1>3, <1>4 DEF Drift
<1>6. Sound(u) /\ (u.known /\ ~SpentPending(u) => InConfirmed(u)) => Sound(v)
  BY <1>2, <1>3, <1>4, NobodyAssumption DEF Sound
<1> QED BY <1>1, <1>5, <1>6 DEF Follows, v

(* RollbackPendingSpendLocked. *)
LEMMA RollbackPendingSpendFollows ==
  ASSUME NEW u \in Cell
  PROVE  /\ Follows(u, RollbackPendingSpend(u))
         /\ Sound(u) => Sound(RollbackPendingSpend(u))
<1> DEFINE v == RollbackPendingSpend(u)
           r == [u EXCEPT !.spender = Nobody]
<1> USE DEF InConfirmed, InPendingOut, InPendingIn, Spendable, SpentPending
<1>1. v \in Cell
  <2>1. r \in Cell
    BY DEF Cell
  <2>2. PendingOut(r, -1) \in Cell /\ PendingIn(r, 1) \in Cell
    BY <2>1, MoveCell
  <2>3. Confirmed(PendingOut(r, -1), 1) \in Cell
    BY <2>2, MoveCell
  <2> QED BY <2>1, <2>2, <2>3 DEF RollbackPendingSpend, Cell
<1>2. /\ v.known = u.known
      /\ v.confirmed = u.confirmed
      /\ v.spent = u.spent
      /\ u.known => v.spender = Nobody
      /\ ~u.known => v.spender = u.spender
  BY DEF RollbackPendingSpend, PendingOut, PendingIn, Confirmed, Cell
<1>3. /\ u.known /\ SpentPending(u) /\ u.confirmed => v.confirmed_sat = u.confirmed_sat + 1 /\ v.notified = u.notified + 1 /\ v.pending_out_sat = u.pending_out_sat + (-1)
      /\ ~(u.known /\ SpentPending(u) /\ u.confirmed) => v.confirmed_sat = u.confirmed_sat /\ v.notified = u.notified /\ v.pending_out_sat = u.pending_out_sat
      /\ u.known /\ SpentPending(u) /\ ~u.confirmed => v.pending_in_sat = u.pending_in_sat + 1
      /\ ~(u.known /\ SpentPending(u) /\ ~u.confirmed) => v.pending_in_sat = u.pending_in_sat
  BY DEF RollbackPendingSpend, PendingOut, PendingIn, Confirmed, Cell
<1>4. /\ u.confirmed_sat \in Int /\ u.notified \in Int /\ u.pending_out_sat \in Int
      /\ u.pending_in_sat \in Int
      /\ u.known \in BOOLEAN /\ u.confirmed \in BOOLEAN /\ u.spent \in BOOLEAN
  BY DEF Cell
<1> HIDE DEF v
<1>5. Drift(v) = Drift(u)
  BY <1>3, <1>4 DEF Drift
<1>6. Sound(u) => Sound(v)
  BY <1>2, <1>3, <1>4, NobodyAssumption DEF Sound
<1> QED BY <1>1, <1>5, <1>6 DEF Follows, v

(* RollbackPendingAddLocked. *)
LEMMA RollbackPendingAddFollows ==
  ASSUME NEW u \in Cell
  PROVE  /\ Follows(u, RollbackPendingAdd(u))
         /\ Sound(u) => Sound(RollbackPendingAdd(u))
<1> DEFINE v == RollbackPendingAdd(u)
<1> USE DEF InConfirmed, InPendingOut, InPendingIn, Spendable, SpentPending
<1>1. v \in Cell
  <2>1. PendingIn(u, -1) \in Cell
    BY MoveCell
  <2>2. Erase(u) \in Cell /\ Erase(PendingIn(u, -1)) \in Cell
    BY <2>1, EraseCell
  <2> QED BY <2>1, <2>2 DEF RollbackPendingAdd, Cell
<1>2. /\ u.known /\ ~u.confirmed => ~v.known /\ ~v.confirmed /\ ~v.spent /\ v.spender = Nobody
      /\ ~(u.known /\ ~u.confirmed) => SameFlags(u, v)
  BY DEF RollbackPendingAdd, PendingIn, Erase, SameFlags, Cell
<1>3. /\ v.confirmed_sat = u.confirmed_sat /\ v.notified = u.notified
      /\ v.pending_out_sat = u.pending_out_sat
      /\ u.known /\ ~u.confirmed /\ ~SpentPending(u) => v.pending_in_sat = u.pending_in_sat + (-1)
      /\ ~(u.known /\ ~u.confirmed /\ ~SpentPending(u)) => v.pending_in_sat = u.pending_in_sat
  BY DEF RollbackPendingAdd, PendingIn, Erase, Cell
<1>4. /\ u.confirmed_sat \in Int /\ u.notified \in Int /\ u.pending_out_sat \in Int
      /\ u.pending_in_sat \in Int
      /\ u.known \in BOOLEAN /\ u.confirmed \in BOOLEAN /\ u.spent \in BOOLEAN
  BY DEF Cell
<1> HIDE DEF v
<1>5. Drift(v) = Drift(u)
  BY <1>3, <1>4 DEF Drift
<1>6. Sound(u) => Sound(v)
  BY <1>2, <1>3, <1>4, NobodyAssumption DEF Sound, SameFlags
<1> QED BY <1>1, <1>5, <1>6 DEF Follows, v

(* GcUtxoLocked. *)
LEMMA GcFollows ==
  ASSUME NEW u \in Cell
  PROVE  /\ Follows(u, GcUtxo(u))
         /\ Sound(u) => Sound(GcUtxo(u))
<1> DEFINE v == GcUtxo(u)
<1> USE DEF InConfirmed, InPendingOut, InPendingIn, Spendable, SpentPending
<1>1. v \in Cell
  <2>1. Erase(u) \in Cell
    BY EraseCell
  <2> QED BY <2>1 DEF GcUtxo, Cell
<1>2. /\ u.known /\ u.spent /\ u.confirmed => ~v.known /\ ~v.confirmed /\ ~v.spent /\ v.spender = Nobody
      /\ ~(u.known /\ u.spent /\ u.confirmed) => SameFlags(u, v)
  BY DEF GcUtxo, Erase, SameFlags, Cell
<1>3. /\ v.confirmed_sat = u.confirmed_sat /\ v.notified = u.notified
      /\ v.pending_out_sat = u.pending_out_sat
      /\ v.pending_in_sat = u.pending_in_sat
  BY DEF GcUtxo, Erase, Cell
<1>4. /\ u.confirmed_sat \in Int /\ u.notified \in Int /\ u.pending_out_sat \in Int
      /\ u.pending_in_sat \in Int
      /\ u.known \in BOOLEAN /\ u.confirmed \in BOOLEAN /\ u.spent \in BOOLEAN
  BY DEF Cell
<1> HIDE DEF v
<1>5. Drift(v) = Drift(u)
  BY <1>3, <1>4 DEF Drift
<1>6. Sound(u) => Sound(v)
  BY <1>2, <1>3, <1>4, NobodyAssumption DEF Sound, SameFlags
<1> QED BY <1>1, <1>5, <1>6 DEF Follows, v

(* InvalidateLoadedWalletMirrorStateLocked, for one utxo. *)
LEMMA InvalidateFollows ==
  ASSUME NEW u \in Cell
  PROVE  /\ Follows(u, InvalidateUtxo(u))
         /\ Sound(u) => Sound(InvalidateUtxo(u))
<1> DEFINE v == InvalidateUtxo(u)
<1> USE DEF InConfirmed, InPendingOut, InPendingIn, Spendable, SpentPending
<1>1. v \in Cell
  <2>1. PendingOut(u, -1) \in Cell /\ Confirmed(u, -1) \in Cell
    BY MoveCell
  <2>2. Erase(u) \in Cell /\ Erase(PendingOut(u, -1)) \in Cell /\ Erase(Confirmed(u, -1)) \in Cell
    BY <2>1, EraseCell
  <2> QED BY <2>1, <2>2 DEF InvalidateUtxo, Cell
<1>2. /\ u.known /\ u.confirmed => ~v.known /\ ~v.confirmed /\ ~v.spent /\ v.spender = Nobody
      /\ ~(u.known /\ u.confirmed) => SameFlags(u, v)
  BY DEF InvalidateUtxo, PendingOut, Confirmed, Erase, SameFlags, Cell
<1>3. /\ InConfirmed(u) => v.confirmed_sat = u.confirmed_sat + (-1) /\ v.notified = u.notified + (-1)
      /\ ~InConfirmed(u) => v.confirmed_sat = u.confirmed_sat /\ v.notified = u.notified
      /\ InPendingOut(u) => v.pending_out_sat = u.pending_out_sat + (-1)
      /\ ~InPendingOut(u) => v.pending_out_sat = u.pending_out_sat
      /\ v.pending_in_sat = u.pending_in_sat
  BY DEF InvalidateUtxo, PendingOut, Confirmed, Erase, Cell
<1>4. /\ u.confirmed_sat \in Int /\ u.notified \in Int /\ u.pending_out_sat \in Int
      /\ u.pending_in_sat \in Int
      /\ u.known \in BOOLEAN /\ u.confirmed \in BOOLEAN /\ u.spent \in BOOLEAN
  BY DEF Cell
<1> HIDE DEF v
<1>5. Drift(v) = Drift(u)
  BY <1>3, <1>4 DEF Drift
<1>6. Sound(u) => Sound(v)
  BY <1>2, <1>3, <1>4, NobodyAssumption DEF Sound, SameFlags
<1> QED BY <1>1, <1>5, <1>6 DEF Follows, v

(* Raising the flag changes nothing else. *)
LEMMA MissedFollows ==
  ASSUME NEW u \in Cell
  PROVE  Follows(u, Missed(u)) /\ (Sound(u) => Sound(Missed(u)))
<1>1. Missed(u) \in Cell
  BY EraseCell
<1>2. /\ Drift(Missed(u)) = Drift(u)
      /\ Sound(u) => Sound(Missed(u))
  BY DEF Missed, Sound, Drift, Cell, InConfirmed, InPendingOut, InPendingIn, Spendable, SpentPending
<1> QED BY <1>1, <1>2 DEF Follows

(* RunWalletRescanFromMirrorLocked, for one utxo. *)
LEMMA RescanFollows ==
  ASSUME NEW u \in Cell, NEW b \in BOOLEAN
  PROVE  Follows(u, RescanUtxo(u, b)) /\ (Sound(u) => Sound(RescanUtxo(u, b)))
<1> DEFINE d == IF Spendable(u) THEN Erase(Confirmed(u, -1)) ELSE u
<1>1. Follows(u, d) /\ (Sound(u) => Sound(d))
  <2>1. CASE ~Spendable(u)
    BY <2>1, FollowsSelf
  <2>2. CASE Spendable(u)
    <3>1. Confirmed(u, -1) \in Cell /\ d \in Cell
      BY <2>2, MoveCell, EraseCell
    <3>2. /\ ~d.known /\ ~d.confirmed /\ ~d.spent /\ d.spender = Nobody
          /\ d.confirmed_sat = u.confirmed_sat + (-1)
          /\ d.notified = u.notified + (-1)
          /\ d.pending_out_sat = u.pending_out_sat
          /\ d.pending_in_sat = u.pending_in_sat
      BY <2>2 DEF Erase, Confirmed, Cell
    <3>3. u.confirmed_sat \in Int /\ u.notified \in Int
      BY DEF Cell
    <3>4. Sound(u) => u.confirmed_sat = 1 /\ u.pending_out_sat = 0 /\ u.pending_in_sat = 0
      BY <2>2 DEF Sound, InConfirmed, InPendingOut, InPendingIn, Spendable, SpentPending
    <3> HIDE DEF d
    <3>5. Drift(d) = Drift(u) /\ (Sound(u) => Sound(d))
      BY <3>2, <3>3, <3>4 DEF Sound, Drift, InConfirmed, InPendingOut, InPendingIn, Spendable, SpentPending
    <3> QED BY <3>1, <3>5 DEF Follows
  <2> QED BY <2>1, <2>2
<1> HIDE DEF d
<1>2. CASE b
  <2>1. Follows(d, AddUtxo(d, TRUE)) /\ (Sound(d) => Sound(AddUtxo(d, TRUE)))
    BY <1>1, AddFollows DEF Follows
  <2>2. Follows(u, AddUtxo(d, TRUE))
    BY <1>1, <2>1, FollowsTrans
  <2> QED BY <1>1, <1>2, <2>1, <2>2 DEF RescanUtxo, d
<1>3. CASE ~b
  BY <1>1, <1>3 DEF RescanUtxo, d
<1> QED BY <1>2, <1>3

=============================================================================
