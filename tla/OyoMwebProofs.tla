--------------------------- MODULE OyoMwebProofs ---------------------------
(***************************************************************************)
(* What holds of OyoMweb for every wallet, seed, address, output,          *)
(* transaction and window: its types, that a wallet's mweb_balance_sat is  *)
(* the sum of confirmed_sat over its addresses, that outputs count once in *)
(* the totals, that what a mark has moved is there as long as it is, and   *)
(* that the outputs of a wallet which is not flagged are those of the      *)
(* node's chain.                                                           *)
(*                                                                         *)
(* First the helpers, each by what it does to one output; then the         *)
(* handlers, which apply them to all; the chain last.                      *)
(***************************************************************************)
EXTENDS OyoMweb, SequenceTheorems, TLAPS

(* What confirmed_sat was when the handler began. *)
Drift(u) == u.confirmed_sat - u.notified
(* What the totals count beyond the output. *)
Excess(u) == u.confirmed_sat + u.pending_out_sat - Bit(Spendable(u))

Loose(u)   == u.marked /\ ~u.indexed
Counted(u) == ~Loose(u) /\ u.pending_out_sat = Bit(u.marked)

(* Helpers take the cell u to the cell v. *)
Effect(u, v) ==
  /\ v \in Cell
  /\ Drift(v) = Drift(u)
  /\ Excess(v) = Excess(u)
  /\ Counted(u) => Counted(v) \/ Loose(v)

(* And tie no mark off. *)
Firm(u, v) == Effect(u, v) /\ (Counted(u) => Counted(v))

SameFlags(u, v) ==
  /\ v.known = u.known /\ v.spent = u.spent /\ v.indexed = u.indexed
  /\ v.marked = u.marked /\ v.pending = u.pending

SameTotals(u, v) ==
  /\ v.confirmed_sat = u.confirmed_sat /\ v.pending_out_sat = u.pending_out_sat
  /\ v.notified = u.notified

-----------------------------------------------------------------------------
(* The moves of an amount, and the other edits the helpers are made of.    *)

LEMMA ConfirmedMoves ==
  ASSUME NEW u \in Cell, NEW n \in Int
  PROVE  /\ Confirmed(u, n) \in Cell
         /\ SameFlags(u, Confirmed(u, n))
         /\ Confirmed(u, n).confirmed_sat = u.confirmed_sat + n
         /\ Confirmed(u, n).notified = u.notified + n
         /\ Confirmed(u, n).pending_out_sat = u.pending_out_sat
<1> DEFINE a == u.confirmed_sat + n
           b == u.notified + n
<1>1. a \in Int /\ b \in Int
  BY DEF Cell
<1>2. Confirmed(u, n) = [u EXCEPT !.confirmed_sat = a, !.notified = b]
  BY DEF Confirmed, Cell
<1> HIDE DEF a, b
<1>3. /\ [u EXCEPT !.confirmed_sat = a, !.notified = b] \in Cell
      /\ SameFlags(u, [u EXCEPT !.confirmed_sat = a, !.notified = b])
      /\ [u EXCEPT !.confirmed_sat = a, !.notified = b].confirmed_sat = a
      /\ [u EXCEPT !.confirmed_sat = a, !.notified = b].notified = b
      /\ [u EXCEPT !.confirmed_sat = a, !.notified = b].pending_out_sat = u.pending_out_sat
  BY <1>1 DEF Cell, SameFlags
<1> QED BY <1>2, <1>3 DEF a, b

LEMMA PendingOutMoves ==
  ASSUME NEW u \in Cell, NEW n \in Int
  PROVE  /\ PendingOut(u, n) \in Cell
         /\ SameFlags(u, PendingOut(u, n))
         /\ PendingOut(u, n).confirmed_sat = u.confirmed_sat
         /\ PendingOut(u, n).notified = u.notified
         /\ PendingOut(u, n).pending_out_sat = u.pending_out_sat + n
<1> DEFINE a == u.pending_out_sat + n
<1>1. a \in Int
  BY DEF Cell
<1>2. PendingOut(u, n) = [u EXCEPT !.pending_out_sat = a]
  BY DEF PendingOut, Cell
<1> HIDE DEF a
<1>3. /\ [u EXCEPT !.pending_out_sat = a] \in Cell
      /\ SameFlags(u, [u EXCEPT !.pending_out_sat = a])
      /\ [u EXCEPT !.pending_out_sat = a].confirmed_sat = u.confirmed_sat
      /\ [u EXCEPT !.pending_out_sat = a].notified = u.notified
      /\ [u EXCEPT !.pending_out_sat = a].pending_out_sat = a
  BY <1>1 DEF Cell, SameFlags
<1> QED BY <1>2, <1>3 DEF a

LEMMA FlagEdits ==
  ASSUME NEW u \in Cell, NEW b \in BOOLEAN
  PROVE  /\ [u EXCEPT !.spent = b] \in Cell /\ SameTotals(u, [u EXCEPT !.spent = b])
         /\ [u EXCEPT !.marked = b] \in Cell /\ SameTotals(u, [u EXCEPT !.marked = b])
         /\ [u EXCEPT !.pending = b] \in Cell /\ SameTotals(u, [u EXCEPT !.pending = b])
         /\ Erase(u) \in Cell /\ SameTotals(u, Erase(u))
         /\ [Erase(u) EXCEPT !.marked = b] \in Cell /\ SameTotals(u, [Erase(u) EXCEPT !.marked = b])
         /\ Unindex(u) \in Cell /\ SameTotals(u, Unindex(u))
         /\ Missed(u) \in Cell /\ SameTotals(u, Missed(u)) /\ SameFlags(u, Missed(u))
         /\ [u EXCEPT !.known = TRUE, !.spent = FALSE, !.indexed = TRUE] \in Cell
         /\ SameTotals(u, [u EXCEPT !.known = TRUE, !.spent = FALSE, !.indexed = TRUE])
         /\ [u EXCEPT !.known = TRUE, !.spent = TRUE] \in Cell
         /\ SameTotals(u, [u EXCEPT !.known = TRUE, !.spent = TRUE])
BY DEF Cell, Erase, Unindex, Missed, SameTotals, SameFlags

LEMMA BitValue == ASSUME NEW u PROVE /\ Spendable(u) => Bit(Spendable(u)) = 1
                                     /\ ~Spendable(u) => Bit(Spendable(u)) = 0
BY DEF Bit

LEMMA NoCellSound ==
  NoCell \in Cell /\ NoCell.notified = 0 /\ NoCell.confirmed_sat = 0
  /\ Excess(NoCell) = 0 /\ Counted(NoCell)
BY DEF NoCell, Cell, Excess, Counted, Loose, Bit, Spendable

LEMMA SettleSound ==
  ASSUME NEW u \in Cell
  PROVE  /\ Settle(u) \in Cell /\ SameFlags(u, Settle(u))
         /\ Settle(u).notified = 0
         /\ Settle(u).confirmed_sat = u.confirmed_sat
         /\ Settle(u).pending_out_sat = u.pending_out_sat
<1> DEFINE v == Settle(u)
<1>1. v \in Cell
  <2>1. [u EXCEPT !.notified = 0] \in Cell
    BY DEF Cell
  <2> QED BY <2>1 DEF Settle, Cell
<1>2. /\ v.notified = 0
      /\ v.confirmed_sat = u.confirmed_sat /\ v.pending_out_sat = u.pending_out_sat
  BY DEF Settle, Cell
<1>3. SameFlags(u, v)
  BY DEF Settle, Cell, SameFlags
<1> QED BY <1>1, <1>2, <1>3

LEMMA FirmSelf == ASSUME NEW u \in Cell PROVE Firm(u, u)
BY DEF Firm, Effect

LEMMA FirmThen ==
  ASSUME NEW u, NEW v, NEW w, Firm(u, v), Effect(v, w)
  PROVE  Effect(u, w)
BY DEF Firm, Effect

LEMMA FirmTwice ==
  ASSUME NEW u, NEW v, NEW w, Firm(u, v), Firm(v, w)
  PROVE  Firm(u, w)
BY DEF Firm, Effect

LEMMA MissedEffect ==
  ASSUME NEW u \in Cell, NEW v \in Cell, Effect(u, v)
  PROVE  Effect(u, Missed(v))
BY FlagEdits DEF Effect, SameTotals, SameFlags, Drift, Excess, Counted, Loose, Spendable

-----------------------------------------------------------------------------
(* The helpers.                                                            *)

(* Edits of flags that no total says anything about. *)
LEMMA UnindexEffect == ASSUME NEW u \in Cell PROVE Effect(u, Unindex(u))
<1>1. /\ Unindex(u) \in Cell /\ SameTotals(u, Unindex(u))
  BY FlagEdits
<1>2. /\ Unindex(u).known = u.known /\ Unindex(u).spent = u.spent
      /\ Unindex(u).marked = u.marked /\ ~Unindex(u).indexed
  BY DEF Unindex, Cell
<1> QED BY <1>1, <1>2 DEF Effect, SameTotals, Drift, Excess, Counted, Loose, Spendable

LEMMA PendingFirm ==
  ASSUME NEW u \in Cell
  PROVE  Firm(u, AddPending(u)) /\ Firm(u, RemovePending(u))
<1>1. ASSUME NEW b \in BOOLEAN PROVE Firm(u, [u EXCEPT !.pending = b])
  <2> DEFINE v == [u EXCEPT !.pending = b]
  <2>1. v \in Cell /\ SameTotals(u, v)
    BY FlagEdits
  <2>2. /\ v.known = u.known /\ v.spent = u.spent
        /\ v.marked = u.marked /\ v.indexed = u.indexed
    BY DEF Cell
  <2> HIDE DEF v
  <2>3. Firm(u, v)
    BY <2>1, <2>2 DEF Firm, Effect, SameTotals, Drift, Excess, Counted, Loose, Spendable
  <2> QED BY <2>3 DEF v
<1> QED BY <1>1 DEF AddPending, RemovePending

(* AddMwebUtxoLocked. *)
LEMMA AddFirm == ASSUME NEW u \in Cell PROVE Firm(u, AddUtxo(u))
<1>1. CASE u.known
  BY <1>1, FirmSelf DEF AddUtxo
<1>2. CASE ~u.known
  <2> DEFINE e == [u EXCEPT !.known = TRUE, !.spent = FALSE, !.indexed = TRUE]
  <2>1. e \in Cell /\ SameTotals(u, e)
    BY FlagEdits
  <2>2. e.known /\ ~e.spent /\ e.indexed /\ e.marked = u.marked
    BY DEF Cell
  <2>3. AddUtxo(u) = Confirmed(e, 1)
    BY <1>2 DEF AddUtxo
  <2> HIDE DEF e
  <2>4. /\ Confirmed(e, 1) \in Cell
        /\ SameFlags(e, Confirmed(e, 1))
        /\ Confirmed(e, 1).confirmed_sat = e.confirmed_sat + 1
        /\ Confirmed(e, 1).notified = e.notified + 1
        /\ Confirmed(e, 1).pending_out_sat = e.pending_out_sat
    BY <2>1, ConfirmedMoves
  <2>5. e.confirmed_sat \in Int /\ e.notified \in Int /\ e.pending_out_sat \in Int
    BY <2>1 DEF Cell
  <2>6. Drift(Confirmed(e, 1)) = Drift(u)
    BY <2>1, <2>4, <2>5 DEF Drift, SameTotals
  <2>7. Excess(Confirmed(e, 1)) = Excess(u)
    <3>1. Spendable(Confirmed(e, 1)) /\ ~Spendable(u)
      BY <1>2, <2>2, <2>4 DEF SameFlags, Spendable
    <3> QED BY <2>1, <2>4, <2>5, <3>1, BitValue DEF Excess, SameTotals
  <2>8. Counted(u) => Counted(Confirmed(e, 1))
    BY <2>1, <2>2, <2>4 DEF Counted, Loose, SameTotals, SameFlags
  <2> QED BY <2>3, <2>4, <2>6, <2>7, <2>8 DEF Firm, Effect
<1> QED BY <1>1, <1>2

(* AddMwebHistoricalSpentLocked. *)
LEMMA AddHistoricalFirm == ASSUME NEW u \in Cell PROVE Firm(u, AddHistorical(u))
<1>1. CASE u.known
  BY <1>1, FirmSelf DEF AddHistorical
<1>2. CASE ~u.known
  <2> DEFINE e == [u EXCEPT !.known = TRUE, !.spent = TRUE]
  <2>1. e \in Cell /\ SameTotals(u, e)
    BY FlagEdits
  <2>2. e.known /\ e.spent /\ e.indexed = u.indexed /\ e.marked = u.marked
    BY DEF Cell
  <2>3. AddHistorical(u) = e
    BY <1>2 DEF AddHistorical
  <2> HIDE DEF e
  <2> QED
    BY <1>2, <2>1, <2>2, <2>3
       DEF Firm, Effect, Drift, Excess, Counted, Loose, SameTotals, Spendable
<1> QED BY <1>1, <1>2

(* SpendMwebUtxoLocked and UnspendMwebUtxoLocked: the mark is not theirs. *)
LEMMA SpendMoves ==
  ASSUME NEW u \in Cell, NEW b \in BOOLEAN, NEW n \in {1, -1},
         u.known, u.indexed, u.spent # b, n = IF b THEN -1 ELSE 1
  PROVE  Firm(u, Confirmed([u EXCEPT !.spent = b], n))
<1> DEFINE e == [u EXCEPT !.spent = b]
<1>1. e \in Cell /\ SameTotals(u, e)
  BY FlagEdits
<1>2. e.known /\ e.spent = b /\ e.indexed /\ e.marked = u.marked
  BY DEF Cell
<1> HIDE DEF e
<1>3. /\ Confirmed(e, n) \in Cell
      /\ SameFlags(e, Confirmed(e, n))
      /\ Confirmed(e, n).confirmed_sat = e.confirmed_sat + n
      /\ Confirmed(e, n).notified = e.notified + n
      /\ Confirmed(e, n).pending_out_sat = e.pending_out_sat
  BY <1>1, ConfirmedMoves
<1>4. /\ e.confirmed_sat \in Int /\ e.notified \in Int /\ e.pending_out_sat \in Int
      /\ u.spent \in BOOLEAN
  BY <1>1 DEF Cell
<1>5. Drift(Confirmed(e, n)) = Drift(u)
  BY <1>1, <1>3, <1>4 DEF Drift, SameTotals
<1>6. Excess(Confirmed(e, n)) = Excess(u)
  <2>1. CASE b
    <3>1. ~Spendable(Confirmed(e, n)) /\ Spendable(u)
      BY <1>2, <1>3, <1>4, <2>1 DEF SameFlags, Spendable
    <3>2. Bit(Spendable(u)) = 1 /\ Bit(Spendable(Confirmed(e, n))) = 0
      BY <3>1, BitValue
    <3>3. Confirmed(e, n).confirmed_sat = u.confirmed_sat - 1
      BY <1>1, <1>3, <1>4, <2>1 DEF SameTotals
    <3> QED BY <1>1, <1>3, <1>4, <3>2, <3>3 DEF Excess, SameTotals
  <2>2. CASE ~b
    <3>1. Spendable(Confirmed(e, n)) /\ ~Spendable(u)
      BY <1>2, <1>3, <1>4, <2>2 DEF SameFlags, Spendable
    <3> QED BY <1>1, <1>3, <1>4, <2>2, <3>1, BitValue DEF Excess, SameTotals
  <2> QED BY <2>1, <2>2
<1>7. Counted(u) => Counted(Confirmed(e, n))
  BY <1>1, <1>2, <1>3 DEF Counted, Loose, SameTotals, SameFlags
<1>8. Firm(u, Confirmed(e, n))
  BY <1>3, <1>5, <1>6, <1>7 DEF Firm, Effect
<1> QED BY <1>8 DEF e

LEMMA SpendEffect ==
  ASSUME NEW u \in Cell
  PROVE  Effect(u, SpendUtxo(u)) /\ (~u.marked => Firm(u, SpendUtxo(u)))
<1>0. u.known \in BOOLEAN /\ u.indexed \in BOOLEAN /\ u.spent \in BOOLEAN
  BY DEF Cell
<1>1. CASE ~u.indexed \/ (u.known /\ u.spent)
  <2>1. SpendUtxo(u) = u
    BY <1>0, <1>1 DEF SpendUtxo
  <2> QED BY <2>1, FirmSelf DEF Firm
<1>2. CASE u.indexed /\ ~u.known
  <2>1. SpendUtxo(u) = Missed(Unindex(u))
    BY <1>0, <1>2 DEF SpendUtxo
  <2>2. Effect(u, Unindex(u)) /\ Unindex(u) \in Cell
    BY UnindexEffect DEF Effect
  <2>3. Effect(u, Missed(Unindex(u)))
    BY <2>2, MissedEffect
  <2>4. Missed(Unindex(u)).marked = u.marked
    BY DEF Missed, Unindex, Cell
  <2> QED BY <2>1, <2>3, <2>4 DEF Firm, Effect, Loose
<1>3. CASE u.indexed /\ u.known /\ ~u.spent
  <2>1. SpendUtxo(u) = Confirmed([u EXCEPT !.spent = TRUE], -1)
    BY <1>0, <1>3 DEF SpendUtxo
  <2> QED BY <1>0, <1>3, <2>1, SpendMoves DEF Firm
<1> QED BY <1>0, <1>1, <1>2, <1>3

LEMMA UnspendFirm == ASSUME NEW u \in Cell PROVE Firm(u, UnspendUtxo(u))
<1>1. CASE u.indexed /\ u.known /\ u.spent
  <2>1. UnspendUtxo(u) = Confirmed([u EXCEPT !.spent = FALSE], 1)
    BY <1>1 DEF UnspendUtxo
  <2> QED BY <1>1, <2>1, SpendMoves
<1>2. CASE ~(u.indexed /\ u.known /\ u.spent)
  BY <1>2, FirmSelf DEF UnspendUtxo
<1> QED BY <1>1, <1>2

(* An unspent output is erased and taken off confirmed_sat. *)
LEMMA DropMoves ==
  ASSUME NEW u \in Cell, u.known, ~u.spent
  PROVE  Effect(u, Confirmed(Erase(u), -1))
<1> DEFINE e == Erase(u)
           v == Confirmed(e, -1)
<1>1. e \in Cell /\ SameTotals(u, e)
  BY FlagEdits
<1>2. ~e.known /\ ~e.indexed /\ e.marked = u.marked /\ u.marked \in BOOLEAN
  BY DEF Erase, Cell
<1> HIDE DEF e
<1>3. /\ v \in Cell /\ SameFlags(e, v)
      /\ v.confirmed_sat = e.confirmed_sat + (-1)
      /\ v.notified = e.notified + (-1)
      /\ v.pending_out_sat = e.pending_out_sat
  BY <1>1, ConfirmedMoves
<1> HIDE DEF v
<1>4. /\ e.confirmed_sat \in Int /\ e.notified \in Int /\ e.pending_out_sat \in Int
  BY <1>1 DEF Cell
<1>5. Spendable(u) /\ ~Spendable(v)
  BY <1>2, <1>3 DEF Spendable, SameFlags
<1>6. Bit(Spendable(u)) = 1 /\ Bit(Spendable(v)) = 0
  BY <1>5, BitValue
<1>7. v.confirmed_sat = u.confirmed_sat - 1 /\ v.notified = u.notified - 1
  BY <1>1, <1>3, <1>4 DEF SameTotals
<1>8. Drift(v) = Drift(u) /\ Excess(v) = Excess(u)
  BY <1>1, <1>3, <1>4, <1>6, <1>7 DEF Drift, Excess, SameTotals
<1>9. Counted(u) => Counted(v) \/ Loose(v)
  BY <1>1, <1>2, <1>3 DEF Counted, Loose, SameTotals, SameFlags
<1>10. Effect(u, v)
  BY <1>3, <1>8, <1>9 DEF Effect
<1> QED BY <1>10 DEF v, e

(* RemoveMwebUtxoLocked leaves the mark of the output it drops. *)
LEMMA RemoveEffect == ASSUME NEW u \in Cell PROVE Effect(u, RemoveUtxo(u))
<1>0. u.known \in BOOLEAN /\ u.indexed \in BOOLEAN /\ u.spent \in BOOLEAN /\ u.marked \in BOOLEAN
  BY DEF Cell
<1>1. CASE ~u.indexed \/ ~u.known
  <2>1. RemoveUtxo(u) = Unindex(u)
    BY <1>0, <1>1 DEF RemoveUtxo
  <2> QED BY <2>1, UnindexEffect
<1>2. CASE u.indexed /\ u.known
  <2>1. Erase(u) \in Cell /\ SameTotals(u, Erase(u))
    BY FlagEdits
  <2>2. /\ ~Erase(u).known /\ ~Erase(u).indexed /\ Erase(u).marked = u.marked
    BY DEF Erase, Cell
  <2>3. CASE u.spent
    <3>1. RemoveUtxo(u) = Erase(u)
      BY <1>0, <1>2, <2>3 DEF RemoveUtxo
    <3>2. ~Spendable(u) /\ ~Spendable(Erase(u))
      BY <2>2, <2>3 DEF Spendable
    <3>3. Excess(Erase(u)) = Excess(u)
      BY <2>1, <3>2 DEF Excess, SameTotals, Bit
    <3> QED BY <1>0, <2>1, <2>2, <3>1, <3>3 DEF Effect, Drift, Counted, Loose, SameTotals
  <2>4. CASE ~u.spent
    <3>1. RemoveUtxo(u) = Confirmed(Erase(u), -1)
      BY <1>0, <1>2, <2>4 DEF RemoveUtxo
    <3> QED BY <1>0, <1>2, <2>1, <2>2, <2>4, <3>1, DropMoves
  <2> QED BY <1>0, <2>3, <2>4
<1> QED BY <1>0, <1>1, <1>2

(* InvalidateLoadedWalletMirrorStateLocked. *)
LEMMA InvalidateEffect == ASSUME NEW u \in Cell PROVE Effect(u, InvalidateUtxo(u))
<1>0. u.known \in BOOLEAN /\ u.indexed \in BOOLEAN /\ u.spent \in BOOLEAN /\ u.marked \in BOOLEAN
  BY DEF Cell
<1>1. CASE ~u.known
  <2>1. InvalidateUtxo(u) = Unindex(u)
    BY <1>0, <1>1 DEF InvalidateUtxo
  <2> QED BY <2>1, UnindexEffect
<1>2. CASE u.known
  <2>1. Erase(u) \in Cell /\ SameTotals(u, Erase(u))
    BY FlagEdits
  <2>2. /\ ~Erase(u).known /\ ~Erase(u).indexed /\ Erase(u).marked = u.marked
    BY DEF Erase, Cell
  <2>3. CASE u.spent
    <3>1. InvalidateUtxo(u) = Erase(u)
      BY <1>0, <1>2, <2>3 DEF InvalidateUtxo
    <3>2. ~Spendable(u) /\ ~Spendable(Erase(u))
      BY <2>2, <2>3 DEF Spendable
    <3>3. Excess(Erase(u)) = Excess(u)
      BY <2>1, <3>2 DEF Excess, SameTotals, Bit
    <3> QED BY <1>0, <2>1, <2>2, <3>1, <3>3 DEF Effect, Drift, Counted, Loose, SameTotals
  <2>4. CASE ~u.spent /\ ~u.marked
    <3>1. InvalidateUtxo(u) = Confirmed(Erase(u), -1)
      BY <1>0, <1>2, <2>4 DEF InvalidateUtxo
    <3> QED BY <1>0, <1>2, <2>1, <2>2, <2>4, <3>1, DropMoves
  <2>5. CASE ~u.spent /\ u.marked
    <3> DEFINE e == [Erase(u) EXCEPT !.marked = FALSE]
               v == PendingOut(e, -1)
    <3>1. InvalidateUtxo(u) = v
      BY <1>0, <1>2, <2>5 DEF InvalidateUtxo
    <3>2. e \in Cell /\ SameTotals(u, e)
      BY FlagEdits
    <3>3. ~e.known /\ ~e.marked
      BY <2>1, <2>2 DEF Cell
    <3> HIDE DEF e
    <3>4. /\ v \in Cell /\ SameFlags(e, v)
          /\ v.confirmed_sat = e.confirmed_sat /\ v.notified = e.notified
          /\ v.pending_out_sat = e.pending_out_sat + (-1)
      BY <3>2, PendingOutMoves
    <3> HIDE DEF v
    <3>5. /\ e.confirmed_sat \in Int /\ e.notified \in Int /\ e.pending_out_sat \in Int
      BY <3>2 DEF Cell
    <3>6. Spendable(u) /\ ~Spendable(v) /\ ~v.marked
      BY <1>2, <2>5, <3>3, <3>4 DEF Spendable, SameFlags
    <3>7. Bit(Spendable(u)) = 1 /\ Bit(Spendable(v)) = 0 /\ Bit(u.marked) = 1 /\ Bit(v.marked) = 0
      BY <2>5, <3>6 DEF Bit
    <3>8. v.pending_out_sat = u.pending_out_sat - 1
      BY <3>2, <3>4, <3>5 DEF SameTotals
    <3>9. Excess(v) = Excess(u)
      BY <3>2, <3>4, <3>5, <3>7, <3>8 DEF Excess, SameTotals
    <3>10. Counted(u) => Counted(v)
      BY <3>6, <3>7, <3>8 DEF Counted, Loose
    <3> QED BY <3>1, <3>2, <3>4, <3>9, <3>10 DEF Effect, Drift, SameTotals
  <2> QED BY <1>0, <2>3, <2>4, <2>5
<1> QED BY <1>0, <1>1, <1>2

(* AddMwebPendingSpendLocked and RemoveMwebPendingSpendLocked. *)
LEMMA MarkMoves ==
  ASSUME NEW u \in Cell, NEW b \in BOOLEAN, NEW n \in {1, -1}, NEW k \in {1, -1},
         u.indexed, u.marked # b,
         n = IF b THEN -1 ELSE 1, k = IF b THEN 1 ELSE -1
  PROVE  Firm(u, PendingOut(Confirmed([u EXCEPT !.marked = b], n), k))
<1> DEFINE e == [u EXCEPT !.marked = b]
           c == Confirmed(e, n)
           v == PendingOut(c, k)
<1>1. e \in Cell /\ SameTotals(u, e)
  BY FlagEdits
<1>2. e.known = u.known /\ e.spent = u.spent /\ e.indexed /\ e.marked = b
  BY DEF Cell
<1> HIDE DEF e
<1>3. /\ c \in Cell /\ SameFlags(e, c)
      /\ c.confirmed_sat = e.confirmed_sat + n
      /\ c.notified = e.notified + n
      /\ c.pending_out_sat = e.pending_out_sat
  BY <1>1, ConfirmedMoves
<1> HIDE DEF c
<1>4. /\ v \in Cell /\ SameFlags(c, v)
      /\ v.confirmed_sat = c.confirmed_sat /\ v.notified = c.notified
      /\ v.pending_out_sat = c.pending_out_sat + k
  BY <1>3, PendingOutMoves
<1> HIDE DEF v
<1>5. /\ e.confirmed_sat \in Int /\ e.notified \in Int /\ e.pending_out_sat \in Int
      /\ u.marked \in BOOLEAN /\ n + k = 0
  BY <1>1 DEF Cell
<1>6. Drift(v) = Drift(u)
  BY <1>1, <1>3, <1>4, <1>5 DEF Drift, SameTotals
<1>7. Bit(Spendable(v)) = Bit(Spendable(u)) /\ v.indexed /\ v.marked = b
  BY <1>2, <1>3, <1>4 DEF Spendable, SameFlags
<1>8. Excess(v) = Excess(u)
  <2>1. v.confirmed_sat + v.pending_out_sat = u.confirmed_sat + u.pending_out_sat
    BY <1>1, <1>3, <1>4, <1>5 DEF SameTotals
  <2>2. /\ Bit(Spendable(u)) \in Int
        /\ u.confirmed_sat \in Int /\ u.pending_out_sat \in Int
        /\ v.confirmed_sat \in Int /\ v.pending_out_sat \in Int
    BY <1>4 DEF Bit, Cell
  <2>3. Excess(u) = u.confirmed_sat + (u.pending_out_sat - Bit(Spendable(u)))
    BY DEF Excess
  <2>4. Excess(v) = v.confirmed_sat + (v.pending_out_sat - Bit(Spendable(v)))
    BY DEF Excess
  <2> QED BY <1>7, <2>1, <2>2, <2>3, <2>4
<1>9. Counted(u) => Counted(v)
  <2>1. v.pending_out_sat = u.pending_out_sat + k
    BY <1>1, <1>3, <1>4, <1>5 DEF SameTotals
  <2>2. CASE b
    <3>1. ~u.marked /\ v.marked /\ k = 1
      BY <1>5, <1>7, <2>2
    <3>2. Bit(u.marked) = 0 /\ Bit(v.marked) = 1
      BY <3>1 DEF Bit
    <3>3. v.pending_out_sat = u.pending_out_sat + 1
      BY <2>1, <3>1
    <3>4. Counted(u) => u.pending_out_sat = 0
      BY <3>2 DEF Counted
    <3>5. Counted(u) => v.pending_out_sat = 1
      BY <3>3, <3>4
    <3> QED BY <1>7, <3>2, <3>5 DEF Counted, Loose
  <2>3. CASE ~b
    <3>1. u.marked /\ ~v.marked /\ k = -1
      BY <1>5, <1>7, <2>3
    <3>2. Bit(u.marked) = 1 /\ Bit(v.marked) = 0
      BY <3>1 DEF Bit
    <3>3. v.pending_out_sat = u.pending_out_sat + (-1)
      BY <2>1, <3>1
    <3>4. Counted(u) => u.pending_out_sat = 1
      BY <3>2 DEF Counted
    <3>5. Counted(u) => v.pending_out_sat = 0
      BY <3>3, <3>4
    <3> QED BY <1>7, <3>2, <3>5 DEF Counted, Loose
  <2> QED BY <2>2, <2>3
<1>10. Firm(u, v)
  BY <1>4, <1>6, <1>8, <1>9 DEF Firm, Effect
<1> QED BY <1>10 DEF v, c, e

LEMMA AddPendingSpendEffect == ASSUME NEW u \in Cell PROVE Effect(u, AddPendingSpend(u))
<1>0. u.indexed \in BOOLEAN /\ u.marked \in BOOLEAN
  BY DEF Cell
<1>1. CASE u.marked
  <2>1. AddPendingSpend(u) = u
    BY <1>0, <1>1 DEF AddPendingSpend
  <2> QED BY <2>1, FirmSelf DEF Firm
<1>2. CASE ~u.marked /\ ~u.indexed
  <2> DEFINE e == [u EXCEPT !.marked = TRUE]
  <2>1. AddPendingSpend(u) = e
    BY <1>0, <1>2 DEF AddPendingSpend
  <2>2. e \in Cell /\ SameTotals(u, e)
    BY FlagEdits
  <2>3. e.known = u.known /\ e.spent = u.spent /\ ~e.indexed /\ e.marked
    BY <1>2 DEF Cell
  <2> HIDE DEF e
  <2> QED BY <2>1, <2>2, <2>3 DEF Effect, Drift, Excess, Loose, SameTotals, Spendable
<1>3. CASE ~u.marked /\ u.indexed
  <2>1. AddPendingSpend(u) = PendingOut(Confirmed([u EXCEPT !.marked = TRUE], -1), 1)
    BY <1>0, <1>3 DEF AddPendingSpend
  <2>2. Firm(u, PendingOut(Confirmed([u EXCEPT !.marked = TRUE], -1), 1))
    BY <1>0, <1>3, MarkMoves
  <2> QED BY <2>1, <2>2 DEF Firm
<1> QED BY <1>0, <1>1, <1>2, <1>3

LEMMA RemovePendingSpendFirm ==
  ASSUME NEW u \in Cell
  PROVE  Firm(u, RemovePendingSpend(u)) /\ ~RemovePendingSpend(u).marked
<1>0. u.indexed \in BOOLEAN /\ u.marked \in BOOLEAN
  BY DEF Cell
<1>1. CASE ~u.marked
  <2>1. RemovePendingSpend(u) = u
    BY <1>0, <1>1 DEF RemovePendingSpend
  <2> QED BY <1>1, <2>1, FirmSelf
<1>2. CASE u.marked /\ ~u.indexed
  <2> DEFINE e == [u EXCEPT !.marked = FALSE]
  <2>1. RemovePendingSpend(u) = e
    BY <1>0, <1>2 DEF RemovePendingSpend
  <2>2. e \in Cell /\ SameTotals(u, e)
    BY FlagEdits
  <2>3. e.known = u.known /\ e.spent = u.spent /\ ~e.marked
    BY <1>2 DEF Cell
  <2> HIDE DEF e
  <2> QED BY <1>2, <2>1, <2>2, <2>3 DEF Firm, Effect, Drift, Excess, Counted, Loose, SameTotals, Spendable
<1>3. CASE u.marked /\ u.indexed
  <2> DEFINE v == PendingOut(Confirmed([u EXCEPT !.marked = FALSE], 1), -1)
  <2>1. RemovePendingSpend(u) = v
    BY <1>0, <1>3 DEF RemovePendingSpend
  <2>2. Firm(u, v)
    BY <1>0, <1>3, MarkMoves
  <2>3. ~v.marked
    BY DEF PendingOut, Confirmed, Cell
  <2> QED BY <2>1, <2>2, <2>3
<1> QED BY <1>0, <1>1, <1>2, <1>3

(* DetachWallet erases the chain's maps of an address with its last watcher. *)
LEMMA DropSound ==
  ASSUME NEW u \in Cell
  PROVE  /\ DropUtxo(u) \in Cell /\ DropUtxo(u).notified = 0
         /\ Excess(DropUtxo(u)) = 0
         /\ Counted(u) => Counted(DropUtxo(u))
<1> DEFINE b == u.marked /\ ~u.indexed
           v == [NoCell EXCEPT !.marked = b]
<1>1. b \in BOOLEAN
  BY DEF Cell
<1> HIDE DEF b
<1>2. v \in Cell /\ SameTotals(NoCell, v)
  BY <1>1, NoCellSound, FlagEdits
<1>3. v.known = FALSE /\ v.marked = b /\ ~v.indexed
  BY DEF NoCell
<1>4. DropUtxo(u) = v
  BY DEF DropUtxo, b
<1> HIDE DEF v
<1>5. Excess(v) = 0
  BY <1>2, <1>3 DEF Excess, Bit, Spendable, SameTotals, NoCell
<1>6. Counted(u) => Counted(v)
  BY <1>2, <1>3 DEF Counted, Loose, Bit, SameTotals, NoCell, b
<1>7. v.notified = 0
  BY <1>2 DEF SameTotals, NoCell
<1> QED BY <1>2, <1>4, <1>5, <1>6, <1>7

-----------------------------------------------------------------------------
(* What a handler does to one output.                                      *)

LEMMA ApplyEventFirm ==
  ASSUME NEW u \in Cell, NEW c, NEW e
  PROVE  Firm(u, ApplyEvent(u, c, e))
<1>1. CASE c \in e.adds
  <2> DEFINE v == RemovePending(u)
  <2>1. Firm(u, v)
    BY PendingFirm
  <2> HIDE DEF v
  <2>2. Firm(v, AddUtxo(v))
    BY <2>1, AddFirm DEF Firm, Effect
  <2>3. Firm(u, AddUtxo(v))
    BY <2>1, <2>2, FirmTwice
  <2> QED BY <1>1, <2>3 DEF ApplyEvent, v
<1>2. CASE c \in e.spends \ e.adds
  <2> DEFINE v == RemovePendingSpend(u)
  <2>1. Firm(u, v) /\ ~v.marked
    BY RemovePendingSpendFirm
  <2> HIDE DEF v
  <2>2. Firm(v, SpendUtxo(v))
    BY <2>1, SpendEffect DEF Firm, Effect
  <2>3. Firm(u, SpendUtxo(v))
    BY <2>1, <2>2, FirmTwice
  <2>4. ApplyEvent(u, c, e) = SpendUtxo(RemovePendingSpend(u))
    BY <1>2 DEF ApplyEvent
  <2> QED BY <2>3, <2>4 DEF v
<1>3. CASE c \notin e.adds \union e.spends
  BY <1>3, FirmSelf DEF ApplyEvent
<1> QED BY <1>1, <1>2, <1>3

LEMMA RollbackEventEffect ==
  ASSUME NEW u \in Cell, NEW c, NEW e
  PROVE  Effect(u, RollbackEvent(u, c, e))
<1>1. CASE c \in e.adds
  BY <1>1, RemoveEffect DEF RollbackEvent
<1>2. CASE c \in e.spends \ e.adds
  <2>1. RollbackEvent(u, c, e) = UnspendUtxo(u)
    BY <1>2 DEF RollbackEvent
  <2> QED BY <2>1, UnspendFirm DEF Firm
<1>3. CASE c \notin e.adds \union e.spends
  BY <1>3, FirmSelf DEF RollbackEvent, Firm
<1> QED BY <1>1, <1>2, <1>3

LEMMA ReconcileEffect ==
  ASSUME NEW u \in Cell, NEW c, NEW C
  PROVE  Effect(u, ReconcileUtxo(u, c, C))
<1> DEFINE add == c \in OutsOf(C) /\ c \notin foreign /\ Known(c)
           in == IF c \in OutsOf(C) THEN IF add THEN AddPending(u) ELSE u
                                    ELSE RemovePending(u)
<1>1. Firm(u, in)
  BY PendingFirm, FirmSelf
<1>2. ReconcileUtxo(u, c, C) \in {in, AddPendingSpend(in), RemovePendingSpend(in)}
  <2>1. u.indexed \in BOOLEAN
    BY DEF Cell
  <2> QED BY <2>1 DEF ReconcileUtxo
<1> HIDE DEF in
<1>3. Effect(u, in) /\ in \in Cell
  BY <1>1 DEF Firm, Effect
<1>4. Effect(u, AddPendingSpend(in))
  BY <1>1, <1>3, AddPendingSpendEffect, FirmThen
<1>5. Effect(u, RemovePendingSpend(in))
  BY <1>1, <1>3, RemovePendingSpendFirm, FirmThen DEF Firm
<1> QED BY <1>2, <1>3, <1>4, <1>5

LEMMA BootstrapFirm ==
  ASSUME NEW u \in Cell, NEW c
  PROVE  Firm(u, BootstrapUtxo(u, c))
<1>1. CreatedBy(c, tip) \in BOOLEAN /\ SpentBy(c, tip) \in BOOLEAN
  BY DEF CreatedBy, SpentBy
<1>2. BootstrapUtxo(u, c) \in {u, AddUtxo(u), AddHistorical(u)}
  BY <1>1 DEF BootstrapUtxo, Unspent
<1> QED BY <1>2, FirmSelf, AddFirm, AddHistoricalFirm

-----------------------------------------------------------------------------
(* The invariant: what the theorems say of the cells and the balances,     *)
(* with nothing left to be delivered.                                      *)

CoinTypeOK ==
  /\ utxo \in [Coin -> Cell]
  /\ desync \in [Addr -> BOOLEAN]
  /\ balance \in [Wallet -> [Coin -> Int]]
  /\ loose \subseteq Coin

ChainTypeOK ==
  /\ nodeAt \in [Tx -> Nat] /\ nodeTip \in Nat /\ pool \subseteq Tx
  /\ at \in [Tx -> Nat] /\ tip \in Nat /\ fork \in Nat
  /\ ring \in Seq([adds : SUBSET Coin, spends : SUBSET Coin])
  /\ Len(ring) <= RollbackWindow
  /\ seen \subseteq Tx /\ cached \subseteq Tx /\ fetching \subseteq Tx
  /\ foreign \subseteq Coin
  /\ bound \in [Wallet -> Int]
  /\ sends \subseteq Send
  /\ since \in [Addr -> Int]

(* Of one output, which has nothing to deliver. *)
CellSound(c) ==
  /\ utxo[c].notified = 0
  /\ Excess(utxo[c]) = 0
  /\ c \notin loose => Counted(utxo[c])

CoinInv == CoinTypeOK /\ WalletBalance /\ \A c \in Coin : CellSound(c)
MwebInv == ChainTypeOK /\ CoinInv

LEMMA TypeSplit == TypeOK <=> ChainTypeOK /\ CoinTypeOK
  BY DEF TypeOK, ChainTypeOK, CoinTypeOK

(* Cells that change by helpers only, with their notifications delivered   *)
(* to the wallets that have derived the address.                           *)
LEMMA WriteInv ==
  ASSUME CoinInv, NEW n, \A c \in Coin : Effect(utxo[c], n[c]), Write(n), bound' = bound
  PROVE  CoinInv'
<1> USE MwebAssumption
<1>1. \A c \in Coin : /\ utxo[c] \in Cell /\ utxo[c].notified = 0
                      /\ utxo[c].confirmed_sat \in Int
                      /\ Excess(utxo[c]) = 0
                      /\ c \notin loose => Counted(utxo[c])
  BY DEF CoinInv, CoinTypeOK, CellSound, Cell
<1>2. \A c \in Coin : /\ n[c] \in Cell
                      /\ n[c].confirmed_sat \in Int /\ n[c].notified \in Int
                      /\ n[c].confirmed_sat = utxo[c].confirmed_sat + n[c].notified
                      /\ Excess(n[c]) = 0
  <2> TAKE c \in Coin
  <2>1. n[c] \in Cell /\ Drift(n[c]) = Drift(utxo[c]) /\ Excess(n[c]) = 0
    BY <1>1 DEF Effect
  <2>2. n[c].confirmed_sat \in Int /\ n[c].notified \in Int
    BY <2>1 DEF Cell
  <2>3. n[c].confirmed_sat - n[c].notified = utxo[c].confirmed_sat
    BY <1>1, <2>1 DEF Drift
  <2> QED BY <1>1, <2>1, <2>2, <2>3
<1>3. \A c \in Coin : /\ utxo'[c] \in Cell /\ SameFlags(n[c], utxo'[c])
                      /\ utxo'[c].notified = 0
                      /\ utxo'[c].confirmed_sat = n[c].confirmed_sat
                      /\ utxo'[c].pending_out_sat = n[c].pending_out_sat
  <2> TAKE c \in Coin
  <2>1. utxo'[c] = Settle(n[c])
    BY DEF Write
  <2> QED BY <1>2, <2>1, SettleSound
<1>4. CoinTypeOK'
  <2>1. utxo' \in [Coin -> Cell]
    <3>1. utxo' = [c \in Coin |-> utxo'[c]]
      BY DEF Write
    <3> QED BY <1>3, <3>1
  <2>2. balance' \in [Wallet -> [Coin -> Int]]
    BY <1>2 DEF Write, CoinInv, CoinTypeOK
  <2>3. desync' \in [Addr -> BOOLEAN] /\ loose' \subseteq Coin
    BY DEF Write, CoinInv, CoinTypeOK
  <2> QED BY <2>1, <2>2, <2>3 DEF CoinTypeOK
<1>5. WalletBalance'
  <2> SUFFICES ASSUME NEW w \in Wallet, NEW c \in Coin
               PROVE  balance'[w][c] = IF Owner[c] \in Bound(w) THEN utxo'[c].confirmed_sat ELSE 0
    BY DEF WalletBalance, Bound
  <2>1. balance[w][c] = IF Owner[c] \in Bound(w) THEN utxo[c].confirmed_sat ELSE 0
    BY DEF CoinInv, WalletBalance
  <2>2. balance'[w][c] = IF Owner[c] \in Bound(w) THEN balance[w][c] + n[c].notified
                                                  ELSE balance[w][c]
    BY DEF Write
  <2> QED BY <1>2, <1>3, <2>1, <2>2
<1>6. ASSUME NEW c \in Coin PROVE CellSound(c)'
  <2>1. Excess(utxo'[c]) = 0
    BY <1>2, <1>3 DEF Excess, Spendable, SameFlags
  <2>2. ASSUME c \notin loose' PROVE Counted(utxo'[c])
    <3>1. c \notin loose /\ ~Loose(n[c])
      BY <2>2 DEF Write, Loose
    <3>2. Counted(n[c])
      BY <1>1, <3>1 DEF Effect
    <3> QED BY <1>3, <3>2 DEF Counted, Loose, SameFlags
  <2>3. Excess(utxo[c])' = 0 /\ (c \notin loose' => Counted(utxo[c])')
    BY <2>1, <2>2 DEF Excess, Counted, Loose, Spendable, Bit
  <2> QED BY <1>3, <2>3 DEF CellSound
<1> QED BY <1>4, <1>5, <1>6 DEF CoinInv

(* A step that leaves the coins and the bindings alone. *)
LEMMA CoinUnchanged ==
  ASSUME CoinInv, UNCHANGED coinVars, bound' = bound PROVE CoinInv'
  BY DEF coinVars, CoinInv, CoinTypeOK, WalletBalance, Bound, CellSound, Excess, Counted,
         Loose, Spendable, Bit

(* With nothing on any output and nothing derived every sum is empty. *)
LEMMA CoinStart ==
  ASSUME utxo = [c \in Coin |-> NoCell], desync = [a \in Addr |-> FALSE],
         balance = [w \in Wallet |-> [c \in Coin |-> 0]], loose = {},
         bound = [w \in Wallet |-> Closed]
  PROVE  CoinInv
<1>1. CoinTypeOK
  BY NoCellSound DEF CoinTypeOK
<1>2. WalletBalance
  BY DEF WalletBalance, Bound, Closed, NoCell
<1>3. \A c \in Coin : CellSound(c)
  BY NoCellSound DEF CellSound
<1> QED BY <1>1, <1>2, <1>3 DEF CoinInv

LEMMA InitMweb == Init => MwebInv
<1> SUFFICES ASSUME Init PROVE MwebInv
  OBVIOUS
<1>1. CoinInv
  BY CoinStart DEF Init
<1>2. ChainTypeOK
  BY MwebAssumption DEF Init, ChainTypeOK, Closed, Unsure
<1> QED BY <1>1, <1>2 DEF MwebInv

-----------------------------------------------------------------------------
(* The steps.                                                              *)

LEMMA InvAfter == ASSUME ChainTypeOK', CoinInv' PROVE MwebInv'
  BY DEF MwebInv

(* The node moves without touching the engine. *)
LEMMA NodeStep == ASSUME MwebInv, NodeNext PROVE MwebInv'
<1>1. CoinInv'
  BY CoinUnchanged DEF MwebInv, NodeNext, NodeAccept, NodeEvict, NodeMine, NodeReorg
<1>2. ChainTypeOK
  BY DEF MwebInv
<1>3. ASSUME NEW t \in Tx, NodeAccept(t) PROVE ChainTypeOK'
  BY <1>2, <1>3 DEF ChainTypeOK, NodeAccept, chainVars, poolVars
<1>4. ASSUME NEW t \in Tx, NodeEvict(t) PROVE ChainTypeOK'
  <2>1. pool' \subseteq Tx
    BY <1>2, <1>4 DEF ChainTypeOK, NodeEvict, Survivors
  <2> QED BY <1>2, <1>4, <2>1 DEF ChainTypeOK, NodeEvict, chainVars, poolVars
<1>5. ASSUME NEW S \in SUBSET Tx, NodeMine(S) PROVE ChainTypeOK'
  <2>1. pool' \subseteq Tx
    BY <1>2, <1>5 DEF ChainTypeOK, NodeMine, Survivors
  <2>2. nodeAt' \in [Tx -> Nat] /\ nodeTip' \in Nat
    BY <1>2, <1>5 DEF ChainTypeOK, NodeMine
  <2>3. UNCHANGED <<fork, chainVars, poolVars, bound, sends, since>>
    BY <1>5 DEF NodeMine
  <2> QED BY <1>2, <2>1, <2>2, <2>3 DEF ChainTypeOK, chainVars, poolVars
<1>6. ASSUME NEW h \in 0..MaxHeight, NodeReorg(h) PROVE ChainTypeOK'
  <2>1. h \in Nat
    BY MwebAssumption
  <2>2. fork' \in Nat /\ nodeTip' \in Nat
    BY <1>2, <1>6, <2>1 DEF ChainTypeOK, NodeReorg, MinOf
  <2>3. nodeAt' \in [Tx -> Nat] /\ pool' \subseteq Tx
    BY <1>2, <1>6 DEF ChainTypeOK, NodeReorg
  <2>4. UNCHANGED <<chainVars, poolVars, bound, sends, since>>
    BY <1>6 DEF NodeReorg
  <2> QED BY <1>2, <2>2, <2>3, <2>4 DEF ChainTypeOK, chainVars, poolVars
<1>7. ChainTypeOK'
  BY <1>3, <1>4, <1>5, <1>6 DEF NodeNext
<1> QED BY <1>1, <1>7, InvAfter

LEMMA PopType ==
  ASSUME NEW S, NEW s \in Seq(S), s # <<>>, Len(s) <= RollbackWindow
  PROVE  /\ SubSeq(s, 1, Len(s) - 1) \in Seq(S)
         /\ Len(SubSeq(s, 1, Len(s) - 1)) <= RollbackWindow
<1> DEFINE n == Len(s) - 1
<1>1. n \in Nat /\ n < Len(s) /\ Len(s) \in Nat /\ RollbackWindow \in Nat
  BY MwebAssumption
<1>2. \A i \in 1..n : s[i] \in S
  BY <1>1
<1> HIDE DEF n
<1>3. SubSeq(s, 1, n) \in Seq(S) /\ Len(SubSeq(s, 1, n)) = IF 1 <= n THEN n - 1 + 1 ELSE 0
  BY <1>1, <1>2, SubSeqProperties
<1> QED BY <1>1, <1>3 DEF n

(* Blocks and rollbacks reach the outputs through the helpers only. *)
LEMMA SyncStep == ASSUME MwebInv, SyncNext PROVE MwebInv'
<1> USE MwebAssumption
<1>1. CoinInv /\ ChainTypeOK /\ \A c \in Coin : utxo[c] \in Cell
  BY DEF MwebInv, CoinInv, CoinTypeOK
<1>2. /\ ring \in Seq([adds : SUBSET Coin, spends : SUBSET Coin])
      /\ Len(ring) <= RollbackWindow /\ Len(ring) \in Nat
  BY <1>1 DEF ChainTypeOK
<1>3. CASE ApplyBlock
  <2> DEFINE e == Events({t \in Tx : nodeAt[t] = tip + 1})
             n == [c \in Coin |-> LET u == ApplyEvent(utxo[c], c, e)
                                 IN  IF c \in LeavesRing THEN GcUtxo(u) ELSE u]
  <2>1. Write(n) /\ bound' = bound
    BY <1>3 DEF ApplyBlock
  <2>2. ASSUME NEW c \in Coin PROVE Effect(utxo[c], n[c])
    <3> DEFINE u == ApplyEvent(utxo[c], c, e)
    <3>1. Firm(utxo[c], u) /\ u \in Cell
      BY <1>1, ApplyEventFirm DEF Firm, Effect
    <3> HIDE DEF u
    <3>2. Effect(u, GcUtxo(u))
      BY <3>1, UnindexEffect DEF GcUtxo
    <3>3. Effect(utxo[c], GcUtxo(u))
      BY <3>1, <3>2, FirmThen
    <3> QED BY <3>1, <3>3 DEF u, Firm
  <2>3. e \in [adds : SUBSET Coin, spends : SUBSET Coin] /\ e.adds \subseteq Coin
    BY DEF Events, OutsOf, InsOf
  <2>4. UNCHANGED <<nodeVars, seen, cached, fetching, bound, sends, since>>
    BY <1>3 DEF ApplyBlock
  <2>5. at' \in [Tx -> Nat] /\ tip' \in Nat /\ fork' \in Nat /\ foreign' \subseteq Coin
    BY <1>1, <1>3 DEF ApplyBlock, ChainTypeOK
  <2>6. ring' = Pushed(e)
    BY <1>3 DEF ApplyBlock
  <2> HIDE DEF n, e
  <2>7. CoinInv'
    BY <1>1, <2>1, <2>2, WriteInv
  <2>8. ring' \in Seq([adds : SUBSET Coin, spends : SUBSET Coin]) /\ Len(ring') <= RollbackWindow
    <3>1. CASE Len(ring) < RollbackWindow
      BY <1>2, <2>3, <2>6, <3>1 DEF Pushed
    <3>2. CASE ~(Len(ring) < RollbackWindow)
      <4>1. ring # <<>> /\ Len(ring) = RollbackWindow
        BY <1>2, <3>2
      <4>2. /\ Tail(ring) \in Seq([adds : SUBSET Coin, spends : SUBSET Coin])
            /\ Len(Tail(ring)) = Len(ring) - 1
        BY <1>2, <4>1
      <4> QED BY <1>2, <2>3, <2>6, <3>2, <4>1, <4>2 DEF Pushed
    <3> QED BY <3>1, <3>2
  <2>9. ChainTypeOK'
    BY <1>1, <2>4, <2>5, <2>8 DEF ChainTypeOK, nodeVars
  <2> QED BY <2>7, <2>9, InvAfter
<1>4. ASSUME PopTip
      PROVE  /\ bound' = bound /\ at' \in [Tx -> Nat] /\ tip' \in Nat
             /\ UNCHANGED <<nodeVars, fork, poolVars, bound, sends>>
  BY <1>1, <1>4 DEF PopTip, ChainTypeOK
<1>5. CASE RollbackTip
  <2> DEFINE n == [c \in Coin |-> RollbackEvent(utxo[c], c, ring[Len(ring)])]
  <2>1. Write(n) /\ PopTip
    BY <1>5 DEF RollbackTip
  <2>2. \A c \in Coin : Effect(utxo[c], n[c])
    BY <1>1, RollbackEventEffect
  <2> HIDE DEF n
  <2>3. CoinInv'
    BY <1>1, <1>4, <2>1, <2>2, WriteInv
  <2>4. ring' \in Seq([adds : SUBSET Coin, spends : SUBSET Coin]) /\ Len(ring') <= RollbackWindow
    <3>1. ring # <<>> /\ ring' = SubSeq(ring, 1, Len(ring) - 1)
      BY <1>5 DEF RollbackTip
    <3> HIDE DEF RollbackTip
    <3> QED BY <1>2, <3>1, PopType
  <2>5. since' \in [Addr -> Int]
    BY <1>1, <1>5 DEF RollbackTip, ChainTypeOK, Undercut
  <2>6. ChainTypeOK'
    BY <1>1, <1>4, <2>1, <2>4, <2>5 DEF ChainTypeOK, nodeVars, poolVars
  <2> QED BY <2>3, <2>6, InvAfter
<1>6. CASE RollbackBelowRing
  <2> DEFINE n == [c \in Coin |-> IF Known(c) THEN Missed(InvalidateUtxo(utxo[c]))
                                             ELSE Unindex(utxo[c])]
  <2>1. Write(n) /\ PopTip /\ UNCHANGED <<ring, since>>
    BY <1>6 DEF RollbackBelowRing
  <2>2. ASSUME NEW c \in Coin PROVE Effect(utxo[c], n[c])
    <3>1. Effect(utxo[c], Missed(InvalidateUtxo(utxo[c])))
      BY <1>1, InvalidateEffect, MissedEffect DEF Effect
    <3> QED BY <1>1, <3>1, UnindexEffect
  <2> HIDE DEF n
  <2>3. CoinInv'
    BY <1>1, <1>4, <2>1, <2>2, WriteInv
  <2>4. ChainTypeOK'
    BY <1>1, <1>4, <2>1 DEF ChainTypeOK, nodeVars, poolVars
  <2> QED BY <2>3, <2>4, InvAfter
<1> QED BY <1>3, <1>5, <1>6 DEF SyncNext

(* Reconciliation either reaches the outputs or leaves them alone. *)
LEMMA ReconcileInv ==
  ASSUME MwebInv, NEW C \in SUBSET Tx, bound' = bound, Reconcile(C)
  PROVE  CoinInv' /\ foreign' \subseteq Coin
<1> USE MwebAssumption
<1>1. CoinInv /\ foreign \subseteq Coin /\ \A c \in Coin : utxo[c] \in Cell
  BY DEF MwebInv, ChainTypeOK, CoinInv, CoinTypeOK
<1> DEFINE n == [c \in Coin |-> ReconcileUtxo(utxo[c], c, C)]
<1>2. CASE Write(n) /\ foreign' = Foreign(C)
  <2>1. \A c \in Coin : Effect(utxo[c], n[c])
    BY <1>1, ReconcileEffect
  <2> HIDE DEF n
  <2>2. CoinInv'
    BY <1>1, <1>2, <2>1, WriteInv
  <2>3. foreign' \subseteq Coin
    BY <1>2 DEF Foreign, OutsOf
  <2> QED BY <2>2, <2>3
<1>3. CASE UNCHANGED <<coinVars, foreign>>
  BY <1>1, <1>3, CoinUnchanged
<1> QED BY <1>2, <1>3 DEF Reconcile

LEMMA MempoolStep == ASSUME MwebInv, MempoolNext PROVE MwebInv'
<1>1. CoinInv /\ ChainTypeOK
  BY DEF MwebInv
<1>2. ASSUME NEW C \in SUBSET Tx, bound' = bound,
             Reconcile(C) \/ UNCHANGED <<coinVars, foreign>>
      PROVE  CoinInv' /\ foreign' \subseteq Coin
  BY <1>1, <1>2, ReconcileInv, CoinUnchanged DEF ChainTypeOK
<1>3. CASE MempoolList
  <2>1. /\ cached' \in SUBSET Tx /\ seen' \subseteq Tx /\ fetching' \subseteq Tx
        /\ UNCHANGED <<nodeVars, chainVars, fork, bound, sends, since>>
        /\ Reconcile(cached') \/ UNCHANGED <<coinVars, foreign>>
    BY <1>1, <1>3 DEF MempoolList, ChainTypeOK
  <2>2. PICK C \in SUBSET Tx : C = cached'
    BY <2>1
  <2>3. CoinInv' /\ foreign' \subseteq Coin
    BY <1>2, <2>1, <2>2
  <2>4. ChainTypeOK'
    BY <1>1, <2>1, <2>3 DEF ChainTypeOK, nodeVars, chainVars
  <2> QED BY <2>3, <2>4, InvAfter
<1>4. ASSUME NEW t \in Tx, MempoolFetch(t) PROVE MwebInv'
  <2>1. /\ cached' \in SUBSET Tx /\ seen' \subseteq Tx /\ fetching' \subseteq Tx
        /\ UNCHANGED <<nodeVars, chainVars, fork, bound, sends, since>>
        /\ Reconcile(cached') \/ UNCHANGED <<coinVars, foreign>>
    BY <1>1, <1>4 DEF MempoolFetch, ChainTypeOK
  <2>2. PICK C \in SUBSET Tx : C = cached'
    BY <2>1
  <2>3. CoinInv' /\ foreign' \subseteq Coin
    BY <1>2, <2>1, <2>2
  <2>4. ChainTypeOK'
    BY <1>1, <2>1, <2>3 DEF ChainTypeOK, nodeVars, chainVars
  <2> QED BY <2>3, <2>4, InvAfter
<1>5. CASE MempoolAbort
  <2>1. CoinInv'
    BY <1>1, <1>5, CoinUnchanged DEF MempoolAbort
  <2>2. ChainTypeOK'
    BY <1>1, <1>5 DEF MempoolAbort, ChainTypeOK, nodeVars, chainVars
  <2> QED BY <2>1, <2>2, InvAfter
<1> QED BY <1>3, <1>4, <1>5 DEF MempoolNext

(* A wallet takes and leaves whole addresses. *)
LEMMA OpenInv == ASSUME MwebInv, NEW w \in Wallet, OpenWallet(w) PROVE MwebInv'
<1>1. CoinInv /\ ChainTypeOK /\ bound[w] = Closed
  BY DEF MwebInv, OpenWallet
<1>2. \A v \in Wallet : Bound(v)' = Bound(v)
  <2>1. \A v \in Wallet : bound'[v] = IF v = w THEN 0 ELSE bound[v]
    BY <1>1 DEF OpenWallet, ChainTypeOK
  <2> QED BY <1>1, <2>1 DEF Bound, Closed
<1>3. CoinInv'
  <2>1. UNCHANGED coinVars
    BY DEF OpenWallet
  <2>2. WalletBalance'
    BY <1>1, <1>2, <2>1 DEF CoinInv, WalletBalance, coinVars
  <2>3. CoinTypeOK' /\ (\A c \in Coin : CellSound(c))'
    BY <1>1, <2>1 DEF coinVars, CoinInv, CoinTypeOK, CellSound, Excess, Counted, Loose,
                      Spendable, Bit
  <2> QED BY <2>2, <2>3 DEF CoinInv
<1>4. ChainTypeOK'
  <2>1. bound' \in [Wallet -> Int] /\ seen' \subseteq Tx
    BY <1>1 DEF OpenWallet, ChainTypeOK
  <2> QED BY <1>1, <2>1 DEF OpenWallet, ChainTypeOK, nodeVars, chainVars
<1> QED BY <1>3, <1>4, InvAfter

(* NewMwebAddress: an address already derived, by the wallet or another of *)
(* its seed, is not counted twice.                                         *)
LEMMA NewAddressInv == ASSUME MwebInv, NEW w \in Wallet, NewAddress(w) PROVE MwebInv'
<1> USE MwebAssumption
<1> DEFINE a == Book[w][bound[w] + 1]
<1>1. /\ CoinInv /\ ChainTypeOK
      /\ bound[w] \in 0..(Len(Book[w]) - 1)
      /\ Len(Book[w]) \in Nat
  BY DEF MwebInv, NewAddress
<1>2. /\ bound' = [bound EXCEPT ![w] = @ + 1]
      /\ UNCHANGED <<nodeVars, chainVars, fork, poolVars, utxo, desync, loose, sends, since>>
      /\ \A v \in Wallet, c \in Coin :
           balance'[v][c] = IF v = w
                            THEN balance[v][c] + IF Owner[c] = a /\ a \notin Bound(w)
                                                 THEN utxo[c].confirmed_sat ELSE 0
                            ELSE balance[v][c]
  BY <1>1 DEF NewAddress, CoinInv, CoinTypeOK
<1>3. \A v \in Wallet : bound'[v] = IF v = w THEN bound[w] + 1 ELSE bound[v]
  BY <1>1, <1>2 DEF ChainTypeOK
<1>4. \A v \in Wallet : Bound(v)' = IF v = w THEN Bound(v) \union {a} ELSE Bound(v)
  <2> TAKE v \in Wallet
  <2>1. CASE v # w
    BY <1>3, <2>1 DEF Bound
  <2>2. CASE v = w
    <3>1. /\ bound'[w] = bound[w] + 1 /\ bound[w] \in Nat
          /\ (IF bound'[w] > 0 THEN bound'[w] ELSE 0) = bound[w] + 1
          /\ (IF bound[w] > 0 THEN bound[w] ELSE 0) = bound[w]
      BY <1>1, <1>3
    <3>2. Bound(w)' = {Book[w][i] : i \in 1..(bound[w] + 1)}
      BY <3>1 DEF Bound
    <3>3. Bound(w) = {Book[w][i] : i \in 1..bound[w]}
      BY <3>1 DEF Bound
    <3>4. PICK k \in Nat : k = bound[w]
      BY <3>1
    <3>5. 1..(k + 1) = (1..k) \union {k + 1}
      OBVIOUS
    <3>6. {Book[w][i] : i \in 1..(k + 1)} = {Book[w][i] : i \in 1..k} \union {Book[w][k + 1]}
      BY <3>5
    <3> QED BY <2>2, <3>2, <3>3, <3>4, <3>6
  <2> QED BY <2>1, <2>2
<1> HIDE DEF a
<1>5. \A c \in Coin : utxo[c].confirmed_sat \in Int
  BY <1>1 DEF CoinInv, CoinTypeOK, Cell
<1>6. CoinInv'
  <2>1. balance' \in [Wallet -> [Coin -> Int]]
    <3>1. balance' = [balance EXCEPT ![w] = [c \in Coin |->
            @[c] + IF Owner[c] = a /\ a \notin Bound(w) THEN utxo[c].confirmed_sat ELSE 0]]
      BY DEF NewAddress, a
    <3>2. [c \in Coin |-> balance[w][c]
             + IF Owner[c] = a /\ a \notin Bound(w) THEN utxo[c].confirmed_sat ELSE 0]
          \in [Coin -> Int]
      BY <1>1, <1>5 DEF CoinInv, CoinTypeOK
    <3> QED BY <1>1, <3>1, <3>2 DEF CoinInv, CoinTypeOK
  <2>2. CoinTypeOK' /\ (\A c \in Coin : CellSound(c))'
    BY <1>1, <1>2, <2>1 DEF CoinInv, CoinTypeOK, CellSound, Excess, Counted, Loose,
                           Spendable, Bit
  <2>3. WalletBalance'
    <3> SUFFICES ASSUME NEW v \in Wallet, NEW c \in Coin
                 PROVE  balance'[v][c] = IF Owner[c] \in Bound(v)' THEN utxo'[c].confirmed_sat ELSE 0
      BY DEF WalletBalance
    <3>1. balance[v][c] = IF Owner[c] \in Bound(v) THEN utxo[c].confirmed_sat ELSE 0
      BY <1>1 DEF CoinInv, WalletBalance
    <3>2. utxo'[c].confirmed_sat = utxo[c].confirmed_sat
      BY <1>2
    <3> QED BY <1>2, <1>4, <1>5, <3>1, <3>2
  <2> QED BY <2>2, <2>3 DEF CoinInv
<1>7. ChainTypeOK'
  <2>1. bound' \in [Wallet -> Int]
    BY <1>1, <1>2 DEF ChainTypeOK
  <2> QED BY <1>1, <1>2, <2>1 DEF ChainTypeOK, nodeVars, chainVars, poolVars
<1> QED BY <1>6, <1>7, InvAfter

(* RunWalletBootstrap, over the outputs of the keychain. *)
LEMMA BootstrapInv == ASSUME MwebInv, NEW w \in Wallet, Bootstrap(w) PROVE MwebInv'
<1>1. CoinInv /\ ChainTypeOK /\ \A c \in Coin : utxo[c] \in Cell
  BY DEF MwebInv, CoinInv, CoinTypeOK
<1> DEFINE n == [c \in Coin |-> IF Owner[c] \in Keychain(w)
                               THEN BootstrapUtxo(utxo[c], c) ELSE utxo[c]]
<1>2. Write(n) /\ UNCHANGED <<nodeVars, chainVars, fork, poolVars, bound, sends>>
  BY DEF Bootstrap
<1>3. \A c \in Coin : Effect(utxo[c], n[c])
  BY <1>1, BootstrapFirm, FirmSelf DEF Firm
<1> HIDE DEF n
<1>4. CoinInv'
  BY <1>1, <1>2, <1>3, WriteInv
<1>5. since' \in [Addr -> Int]
  BY <1>1 DEF Bootstrap, ChainTypeOK
<1>6. ChainTypeOK'
  BY <1>1, <1>2, <1>5 DEF ChainTypeOK, nodeVars, chainVars, poolVars
<1> QED BY <1>4, <1>6, InvAfter

(* oyo_wallet_close leaves the outputs of addresses that others watch. *)
LEMMA CloseInv == ASSUME MwebInv, NEW w \in Wallet, CloseWallet(w) PROVE MwebInv'
<1> USE MwebAssumption
<1> DEFINE dropped == {a \in Addr : Watchers(a) = {w}}
<1>1. /\ CoinInv /\ ChainTypeOK
      /\ \A c \in Coin : utxo[c] \in Cell /\ CellSound(c)
  BY DEF MwebInv, CoinInv, CoinTypeOK
<1>2. /\ bound' = [bound EXCEPT ![w] = Closed]
      /\ balance' = [balance EXCEPT ![w] = [c \in Coin |-> 0]]
      /\ utxo' = [c \in Coin |-> IF Owner[c] \in dropped THEN DropUtxo(utxo[c]) ELSE utxo[c]]
      /\ desync' = [a \in Addr |-> desync[a] /\ a \notin dropped]
      /\ since' = [a \in Addr |-> IF a \in dropped THEN Unsure ELSE since[a]]
      /\ sends' \subseteq sends
      /\ UNCHANGED <<nodeVars, chainVars, fork, poolVars, loose>>
  BY DEF CloseWallet
<1>3. \A v \in Wallet : bound'[v] = IF v = w THEN Closed ELSE bound[v]
  BY <1>1, <1>2 DEF ChainTypeOK
<1>4. \A v \in Wallet : Bound(v)' = IF v = w THEN {} ELSE Bound(v)
  <2> TAKE v \in Wallet
  <2>1. CASE v # w
    BY <1>3, <2>1 DEF Bound
  <2>2. CASE v = w
    <3>1. (IF bound'[v] > 0 THEN bound'[v] ELSE 0) = 0 /\ 1..0 = {}
      BY <1>3, <2>2 DEF Closed
    <3> QED BY <2>2, <3>1 DEF Bound
  <2> QED BY <2>1, <2>2
<1>5. \A v \in Wallet, c \in Coin : v # w /\ Owner[c] \in Bound(v) => Owner[c] \notin dropped
  BY DEF Watchers
<1> HIDE DEF dropped
<1>6. \A c \in Coin : /\ DropUtxo(utxo[c]) \in Cell /\ DropUtxo(utxo[c]).notified = 0
                      /\ Excess(DropUtxo(utxo[c])) = 0
                      /\ Counted(utxo[c]) => Counted(DropUtxo(utxo[c]))
  BY <1>1, DropSound
<1>7. CoinTypeOK'
  BY <1>1, <1>2, <1>6 DEF CoinInv, CoinTypeOK
<1>8. ASSUME NEW c \in Coin PROVE CellSound(c)'
  <2>1. /\ utxo'[c].notified = 0
        /\ Excess(utxo'[c]) = 0
        /\ c \notin loose => Counted(utxo'[c])
    BY <1>1, <1>2, <1>6 DEF CellSound
  <2> QED BY <1>2, <2>1 DEF CellSound, Excess, Counted, Loose, Spendable, Bit
<1>9. WalletBalance'
  <2> SUFFICES ASSUME NEW v \in Wallet, NEW c \in Coin
               PROVE  balance'[v][c] = IF Owner[c] \in Bound(v)' THEN utxo'[c].confirmed_sat ELSE 0
    BY DEF WalletBalance
  <2>1. balance[v][c] = IF Owner[c] \in Bound(v) THEN utxo[c].confirmed_sat ELSE 0
    BY <1>1 DEF CoinInv, WalletBalance
  <2>2. balance'[v][c] = IF v = w THEN 0 ELSE balance[v][c]
    BY <1>1, <1>2 DEF CoinInv, CoinTypeOK
  <2>3. v # w /\ Owner[c] \in Bound(v) => utxo'[c] = utxo[c]
    BY <1>2, <1>5
  <2> QED BY <1>4, <2>1, <2>2, <2>3
<1>10. CoinInv'
  BY <1>7, <1>8, <1>9 DEF CoinInv
<1>11. ChainTypeOK'
  <2>1. bound' \in [Wallet -> Int] /\ since' \in [Addr -> Int] /\ sends' \subseteq Send
    BY <1>1, <1>2 DEF ChainTypeOK, Closed, Unsure
  <2> QED BY <1>1, <1>2, <2>1 DEF ChainTypeOK, nodeVars, chainVars, poolVars
<1> QED BY <1>10, <1>11, InvAfter

LEMMA SendBuildInv ==
  ASSUME MwebInv, NEW w \in Wallet, NEW t \in Tx, SendBuild(w, t) PROVE MwebInv'
<1>1. CoinInv /\ ChainTypeOK
  BY DEF MwebInv
<1>2. CoinInv'
  BY <1>1, CoinUnchanged DEF SendBuild
<1>3. sends' \subseteq Send
  <2>1. [tx |-> t, wallet |-> w, accepted |-> FALSE] \in Send
    BY DEF Send
  <2> QED BY <1>1, <2>1 DEF SendBuild, ChainTypeOK
<1>4. ChainTypeOK'
  BY <1>1, <1>3 DEF SendBuild, ChainTypeOK, nodeVars, chainVars, poolVars
<1> QED BY <1>2, <1>4, InvAfter

LEMMA WalletStep == ASSUME MwebInv, WalletNext PROVE MwebInv'
BY OpenInv, NewAddressInv, BootstrapInv, CloseInv, SendBuildInv DEF WalletNext

(* A send marks its inputs when it hears that the node has it. *)
LEMMA SendStep == ASSUME MwebInv, SendNext PROVE MwebInv'
<1>1. /\ CoinInv /\ ChainTypeOK /\ \A c \in Coin : utxo[c] \in Cell
  BY DEF MwebInv, CoinInv, CoinTypeOK
<1>2. ASSUME NEW s \in sends, SendBroadcast(s) PROVE MwebInv'
  <2>1. CoinInv'
    BY <1>1, <1>2, CoinUnchanged DEF SendBroadcast
  <2>2. s \in Send
    BY <1>1 DEF ChainTypeOK
  <2>3. sends' \subseteq Send /\ pool' \subseteq Tx
    BY <1>1, <1>2, <2>2 DEF SendBroadcast, ChainTypeOK, Send
  <2>4. ChainTypeOK'
    BY <1>1, <1>2, <2>3 DEF SendBroadcast, ChainTypeOK, chainVars, poolVars
  <2> QED BY <2>1, <2>4, InvAfter
<1>3. ASSUME NEW s \in sends, SendAnswer(s) PROVE MwebInv'
  <2> DEFINE n == [c \in Coin |-> IF c \in Ins[s.tx] THEN AddPendingSpend(utxo[c]) ELSE utxo[c]]
  <2>1. Write(n) /\ bound' = bound
    BY <1>3 DEF SendAnswer
  <2>2. \A c \in Coin : Effect(utxo[c], n[c])
    BY <1>1, AddPendingSpendEffect, FirmSelf DEF Firm
  <2> HIDE DEF n
  <2>3. CoinInv'
    BY <1>1, <2>1, <2>2, WriteInv
  <2>4. ChainTypeOK'
    BY <1>1, <1>3 DEF SendAnswer, ChainTypeOK, nodeVars, chainVars, poolVars
  <2> QED BY <2>3, <2>4, InvAfter
<1>4. ASSUME NEW s \in sends, SendFail(s) PROVE MwebInv'
  <2>1. CoinInv'
    BY <1>1, <1>4, CoinUnchanged DEF SendFail
  <2>2. ChainTypeOK'
    BY <1>1, <1>4 DEF SendFail, ChainTypeOK, nodeVars, chainVars, poolVars
  <2> QED BY <2>1, <2>2, InvAfter
<1> QED BY <1>2, <1>3, <1>4 DEF SendNext

(* A restarted process has no wallet open and nothing on any output. *)
LEMMA CrashStep == ASSUME MwebInv, Crash PROVE MwebInv'
<1>1. ChainTypeOK
  BY DEF MwebInv
<1>2. CoinTypeOK'
  BY NoCellSound DEF Crash, CoinTypeOK
<1>3. WalletBalance'
  BY DEF Crash, WalletBalance, Bound, Closed, NoCell
<1>4. ASSUME NEW c \in Coin PROVE CellSound(c)'
  <2>1. utxo'[c] = NoCell
    BY DEF Crash
  <2> QED BY <2>1, NoCellSound DEF CellSound, Excess, Counted, Loose, Spendable, Bit
<1>5. CoinInv'
  BY <1>2, <1>3, <1>4 DEF CoinInv
<1>6. ChainTypeOK'
  BY <1>1, MwebAssumption DEF Crash, ChainTypeOK, nodeVars, Closed, Unsure
<1> QED BY <1>5, <1>6, InvAfter

(* Nothing changes, nothing to show. *)
LEMMA StutterStep == ASSUME MwebInv, UNCHANGED vars PROVE MwebInv'
<1>1. CoinInv'
  BY CoinUnchanged DEF MwebInv, vars
<1>2. ChainTypeOK'
  BY DEF MwebInv, ChainTypeOK, vars, nodeVars, chainVars, poolVars
<1> QED BY <1>1, <1>2, InvAfter

LEMMA MwebInvariant == Spec => []MwebInv
<1>1. MwebInv /\ [Next]_vars => MwebInv'
  BY NodeStep, SyncStep, MempoolStep, WalletStep, SendStep, CrashStep, StutterStep DEF Next
<1> QED BY <1>1, InitMweb, PTL DEF Spec

-----------------------------------------------------------------------------
(* The theorems.                                                           *)

(* Every variable of the MWEB ledger keeps its type. *)
THEOREM MwebTyped == Spec => []TypeOK
<1>1. MwebInv => TypeOK
  BY TypeSplit DEF MwebInv, CoinInv
<1> QED BY <1>1, MwebInvariant, PTL

(* Whatever blocks, rollbacks, mempool passes, bootstraps, sends, closings *)
(* and restarts are interleaved, every wallet's mweb_balance_sat is the    *)
(* sum of confirmed_sat over the addresses it has derived, however many    *)
(* wallets share the seed.                                                 *)
THEOREM MwebBalanceCorrect == Spec => []WalletBalance
<1>1. MwebInv => WalletBalance
  BY DEF MwebInv, CoinInv
<1> QED BY <1>1, MwebInvariant, PTL

(* No helper adds or loses a satoshi: an output counts exactly once in     *)
(* confirmed_sat and pending_out_sat while it is there and unspent.        *)
THEOREM MwebConserved == Spec => []TotalsConserved
<1>1. MwebInv => TotalsConserved
  <2> SUFFICES ASSUME MwebInv, NEW c \in Coin
               PROVE  utxo[c].confirmed_sat + utxo[c].pending_out_sat = Bit(Spendable(utxo[c]))
    BY DEF TotalsConserved
  <2>1. Excess(utxo[c]) = 0 /\ utxo[c] \in Cell
    BY DEF MwebInv, CoinInv, CoinTypeOK, CellSound
  <2>2. /\ utxo[c].confirmed_sat \in Int /\ utxo[c].pending_out_sat \in Int
        /\ Bit(Spendable(utxo[c])) \in Int
    BY <2>1 DEF Cell, Bit
  <2>3. Excess(utxo[c]) = utxo[c].confirmed_sat + (utxo[c].pending_out_sat - Bit(Spendable(utxo[c])))
    BY DEF Excess
  <2> QED BY <2>1, <2>2, <2>3
<1> QED BY <1>1, MwebInvariant, PTL

(* pending_out_sat counts an output exactly as long as it is marked, while *)
(* no mark was ever separated from the index entry.                        *)
THEOREM MwebMarksCounted == Spec => []MarksCounted
<1>1. MwebInv => MarksCounted
  BY DEF MwebInv, CoinInv, CellSound, MarksCounted, Counted
<1> QED BY <1>1, MwebInvariant, PTL

-----------------------------------------------------------------------------
(* The outputs and the chain.  The two chains come first, then the ring,   *)
(* then what the flags of an output say of the applied chain.              *)

(* In a chain of heights h an input is created before it is spent, and     *)
(* spent once.                                                             *)
Ordered(h) ==
  \A t \in Tx : h[t] > 0 => \A c \in Ins[t] :
    /\ \E p \in Tx : c \in Outs[p] /\ h[p] > 0 /\ h[p] < h[t]
    /\ \A q \in Tx : h[q] > 0 /\ c \in Ins[q] => q = t

NodeInv ==
  /\ nodeTip <= MaxHeight
  /\ \A t \in Tx : nodeAt[t] <= nodeTip
  /\ Ordered(nodeAt)

(* Up to the fork the two chains are one. *)
AppliedInv ==
  /\ fork <= tip /\ fork <= nodeTip /\ tip <= MaxHeight
  /\ \A t \in Tx : at[t] <= tip
  /\ \A t \in Tx : at[t] \in 1..fork \/ nodeAt[t] \in 1..fork => at[t] = nodeAt[t]
  /\ Ordered(at)

MadeAt(c, f, h)  == \E t \in Tx : f[t] = h /\ c \in Outs[t]
TakenAt(c, f, h) == \E t \in Tx : f[t] = h /\ c \in Ins[t]

(* The ring's entry i is of the block at this height, and of nothing else. *)
RingHeight(i) == tip - Len(ring) + i

RingInv ==
  /\ Len(ring) <= tip
  /\ \A i \in 1..Len(ring), c \in Coin :
       /\ c \in ring[i].adds => MadeAt(c, at, RingHeight(i))
       /\ c \in ring[i].spends => TakenAt(c, at, RingHeight(i))

(* The index leads to outputs that are there, of addresses that are.       *)
Rooted(c) ==
  /\ utxo[c].indexed => utxo[c].known
  /\ utxo[c].known => Known(c)
  /\ since[Owner[c]] # Unsure => Known(c)

(* An address that is not flagged and has not been undercut. *)
Sound(c) == ~desync[Owner[c]] /\ since[Owner[c]] # Undercut

(* What its outputs say of the applied chain.                              *)
OfChain(c) ==
  /\ since[Owner[c]] \in {Unsure} \union 0..tip
  /\ utxo[c].known => CreatedBy(c, tip) /\ (utxo[c].spent <=> SpentBy(c, tip))
  /\ Spendable(utxo[c]) => utxo[c].indexed
  /\ since[Owner[c]] # Unsure /\ CreatedBy(c, tip) => utxo[c].known

(* A block younger than the bootstrap can be undone from its ring entry.   *)
Undoable(c) ==
  \A i \in 1..Len(ring) :
    utxo[c].known /\ since[Owner[c]] < RingHeight(i) =>
      /\ MadeAt(c, at, RingHeight(i)) => c \in ring[i].adds
      /\ TakenAt(c, at, RingHeight(i)) => c \in ring[i].spends /\ utxo[c].indexed

RowInv(c) == Rooted(c) /\ (Sound(c) => OfChain(c) /\ Undoable(c))

MwebChainInv == NodeInv /\ AppliedInv /\ RingInv /\ \A c \in Coin : RowInv(c)

-----------------------------------------------------------------------------
(* The chains.                                                             *)

(* What is left of a chain up to a height. *)
LEMMA OrderedCut ==
  ASSUME NEW h \in [Tx -> Nat], NEW n \in Nat, Ordered(h)
  PROVE Ordered([t \in Tx |-> IF h[t] > n THEN 0 ELSE h[t]])
<1> DEFINE g == [t \in Tx |-> IF h[t] > n THEN 0 ELSE h[t]]
<1>1. \A t \in Tx : h[t] \in Nat /\ g[t] = IF h[t] > n THEN 0 ELSE h[t]
  OBVIOUS
<1> HIDE DEF g
<1> SUFFICES ASSUME NEW t \in Tx, g[t] > 0, NEW c \in Ins[t]
             PROVE /\ \E p \in Tx : c \in Outs[p] /\ g[p] > 0 /\ g[p] < g[t]
                   /\ \A q \in Tx : g[q] > 0 /\ c \in Ins[q] => q = t
  BY DEF Ordered, g
<1>2. h[t] > 0 /\ h[t] <= n /\ g[t] = h[t]
  BY <1>1
<1>3. PICK p \in Tx : c \in Outs[p] /\ h[p] > 0 /\ h[p] < h[t]
  BY <1>2 DEF Ordered
<1>4. g[p] = h[p]
  BY <1>1, <1>2, <1>3
<1>5. \A q \in Tx : g[q] > 0 => h[q] > 0
  BY <1>1
<1> QED BY <1>2, <1>3, <1>4, <1>5 DEF Ordered

Heights == nodeAt \in [Tx -> Nat] /\ at \in [Tx -> Nat]
           /\ nodeTip \in Nat /\ tip \in Nat /\ fork \in Nat

LEMMA MineChains ==
  ASSUME Heights, NodeInv, AppliedInv, NEW S \in SUBSET Tx, NodeMine(S)
  PROVE  NodeInv' /\ AppliedInv'
<1>1. /\ nodeTip < MaxHeight
      /\ S \cap NodeChain = {} /\ Consistent(NodeChain \union S)
      /\ \A s, t \in S : Outs[s] \cap Ins[t] = {}
      /\ nodeTip' = nodeTip + 1
      /\ nodeAt' = [t \in Tx |-> IF t \in S THEN nodeTip + 1 ELSE nodeAt[t]]
      /\ UNCHANGED <<fork, at, tip>>
  BY DEF NodeMine, chainVars
<1>2. /\ nodeTip \in Nat /\ fork \in Nat /\ MaxHeight \in Nat
      /\ \A t \in Tx : nodeAt[t] \in Nat /\ at[t] \in Nat
      /\ \A t \in Tx : nodeAt'[t] = IF t \in S THEN nodeTip + 1 ELSE nodeAt[t]
  BY <1>1, MwebAssumption DEF Heights
<1>3. NodeChain' = NodeChain \union S
  BY <1>1, <1>2 DEF NodeChain
<1>4. \A t \in S : nodeAt[t] = 0
  BY <1>1, <1>2 DEF NodeChain
<1>5. Ordered(nodeAt')
  <2> SUFFICES ASSUME NEW t \in Tx, nodeAt'[t] > 0, NEW c \in Ins[t]
               PROVE /\ \E p \in Tx : c \in Outs[p] /\ nodeAt'[p] > 0 /\ nodeAt'[p] < nodeAt'[t]
                     /\ \A q \in Tx : nodeAt'[q] > 0 /\ c \in Ins[q] => q = t
    BY DEF Ordered
  <2>1. t \in NodeChain \union S /\ \A q \in Tx : nodeAt'[q] > 0 => q \in NodeChain \union S
    BY <1>3 DEF NodeChain
  <2>2. \A q \in Tx : nodeAt'[q] > 0 /\ c \in Ins[q] => q = t
    BY <1>1, <2>1 DEF Consistent
  <2>3. CASE t \in S
    <3>1. PICK p \in NodeChain \union S : c \in Outs[p]
      BY <1>1, <2>1 DEF Consistent
    <3>2. p \in Tx /\ p \notin S /\ nodeAt[p] > 0
      BY <1>1, <2>3, <3>1 DEF NodeChain
    <3>3. nodeAt'[p] > 0 /\ nodeAt'[p] < nodeAt'[t]
      BY <1>2, <2>3, <3>2 DEF NodeInv
    <3> QED BY <2>2, <3>1, <3>2, <3>3
  <2>4. CASE t \notin S
    <3>1. nodeAt[t] > 0 /\ nodeAt'[t] = nodeAt[t]
      BY <1>2, <2>4
    <3>2. PICK p \in Tx : c \in Outs[p] /\ nodeAt[p] > 0 /\ nodeAt[p] < nodeAt[t]
      BY <3>1 DEF NodeInv, Ordered
    <3>3. nodeAt'[p] = nodeAt[p]
      BY <1>2, <1>4, <3>2
    <3> QED BY <2>2, <3>1, <3>2, <3>3
  <2> QED BY <2>3, <2>4
<1>6. NodeInv'
  <2>1. \A t \in Tx : nodeAt'[t] <= nodeTip'
    BY <1>1, <1>2 DEF NodeInv
  <2> QED BY <1>1, <1>2, <1>5, <2>1 DEF NodeInv, Ordered
<1>7. AppliedInv'
  <2>1. fork <= nodeTip'
    BY <1>1, <1>2 DEF AppliedInv
  <2>2. ASSUME NEW t \in Tx, at[t] \in 1..fork \/ nodeAt'[t] \in 1..fork PROVE at[t] = nodeAt'[t]
    BY <2>2, <1>2, <1>4 DEF AppliedInv
  <2> QED BY <1>1, <2>1, <2>2 DEF AppliedInv, Ordered
<1> QED BY <1>6, <1>7

LEMMA ReorgChains ==
  ASSUME Heights, NodeInv, AppliedInv, NEW h \in 0..MaxHeight, NodeReorg(h)
  PROVE  NodeInv' /\ AppliedInv'
<1>1. /\ h < nodeTip /\ nodeTip' = h /\ fork' = MinOf(fork, h)
      /\ nodeAt' = [t \in Tx |-> IF nodeAt[t] > h THEN 0 ELSE nodeAt[t]]
      /\ UNCHANGED <<at, tip>>
  BY DEF NodeReorg, chainVars
<1>2. /\ h \in Nat /\ fork \in Nat /\ tip \in Nat /\ nodeTip \in Nat /\ MaxHeight \in Nat
      /\ nodeAt \in [Tx -> Nat]
      /\ \A t \in Tx : nodeAt[t] \in Nat /\ at[t] \in Nat
      /\ \A t \in Tx : nodeAt'[t] = IF nodeAt[t] > h THEN 0 ELSE nodeAt[t]
  BY <1>1, MwebAssumption DEF Heights
<1>3. Ordered(nodeAt')
  BY <1>1, <1>2, OrderedCut DEF NodeInv
<1>4. NodeInv'
  <2>1. nodeTip' <= MaxHeight /\ \A t \in Tx : nodeAt'[t] <= nodeTip'
    BY <1>1, <1>2
  <2> QED BY <1>3, <2>1 DEF NodeInv, Ordered
<1>5. fork' \in Nat /\ fork' <= fork /\ fork' <= h
  BY <1>1, <1>2 DEF MinOf
<1>6. AppliedInv'
  <2>1. ASSUME NEW t \in Tx, at[t] \in 1..fork' \/ nodeAt'[t] \in 1..fork'
        PROVE at[t] = nodeAt'[t]
    BY <2>1, <1>2, <1>5 DEF AppliedInv
  <2>2. fork' <= tip /\ fork' <= nodeTip'
    BY <1>1, <1>2, <1>5 DEF AppliedInv
  <2> QED BY <1>1, <2>1, <2>2 DEF AppliedInv, Ordered
<1> QED BY <1>4, <1>6

LEMMA ApplyChains ==
  ASSUME Heights, NodeInv, AppliedInv, ApplyBlock
  PROVE  NodeInv' /\ AppliedInv'
<1> DEFINE B == {t \in Tx : nodeAt[t] = tip + 1}
<1>1. /\ fork = tip /\ tip < nodeTip
      /\ at' = [t \in Tx |-> IF t \in B THEN tip + 1 ELSE at[t]]
      /\ tip' = tip + 1 /\ fork' = tip + 1
      /\ nodeAt' = nodeAt /\ nodeTip' = nodeTip
  BY DEF ApplyBlock, nodeVars
<1>2. /\ tip \in Nat /\ nodeTip \in Nat /\ nodeAt \in [Tx -> Nat] /\ MaxHeight \in Nat
      /\ \A t \in Tx : at[t] \in Nat /\ nodeAt[t] \in Nat
  BY MwebAssumption DEF Heights
<1>3. ASSUME NEW t \in Tx
      PROVE (IF t \in B THEN tip + 1 ELSE at[t]) = (IF nodeAt[t] > tip + 1 THEN 0 ELSE nodeAt[t])
  <2>1. at[t] <= tip /\ (at[t] \in 1..tip \/ nodeAt[t] \in 1..tip => at[t] = nodeAt[t])
    BY <1>1 DEF AppliedInv
  <2> QED BY <1>2, <2>1
<1>4. at' = [t \in Tx |-> IF nodeAt[t] > tip + 1 THEN 0 ELSE nodeAt[t]]
  BY <1>1, <1>3
<1>5. Ordered(at')
  BY <1>2, <1>4, OrderedCut DEF NodeInv
<1>6. \A t \in Tx : at'[t] = IF nodeAt[t] > tip + 1 THEN 0 ELSE nodeAt[t]
  BY <1>4
<1>7. NodeInv'
  BY <1>1 DEF NodeInv, Ordered
<1>8. AppliedInv'
  <2>1. \A t \in Tx : at'[t] <= tip'
    BY <1>1, <1>2, <1>6
  <2>2. \A t \in Tx : at'[t] \in 1..fork' \/ nodeAt'[t] \in 1..fork' => at'[t] = nodeAt'[t]
    BY <1>1, <1>2, <1>6
  <2>3. fork' <= tip' /\ fork' <= nodeTip' /\ tip' <= MaxHeight
    BY <1>1, <1>2 DEF AppliedInv, NodeInv
  <2> QED BY <1>5, <2>1, <2>2, <2>3 DEF AppliedInv, Ordered
<1> QED BY <1>7, <1>8

LEMMA PopChains ==
  ASSUME Heights, NodeInv, AppliedInv, PopTip
  PROVE  NodeInv' /\ AppliedInv'
<1>1. /\ fork < tip
      /\ at' = [t \in Tx |-> IF at[t] = tip THEN 0 ELSE at[t]]
      /\ tip' = tip - 1 /\ fork' = fork /\ nodeAt' = nodeAt /\ nodeTip' = nodeTip
  BY DEF PopTip, nodeVars
<1>2. /\ tip \in Nat /\ fork \in Nat /\ tip - 1 \in Nat /\ fork <= tip - 1 /\ MaxHeight \in Nat
      /\ \A t \in Tx : at[t] \in Nat /\ nodeAt[t] \in Nat
      /\ at \in [Tx -> Nat] /\ nodeTip \in Nat
  BY <1>1, MwebAssumption DEF Heights
<1>3. ASSUME NEW t \in Tx
      PROVE (IF at[t] = tip THEN 0 ELSE at[t]) = (IF at[t] > tip - 1 THEN 0 ELSE at[t])
  BY <1>2 DEF AppliedInv
<1>4. at' = [t \in Tx |-> IF at[t] > tip - 1 THEN 0 ELSE at[t]]
  BY <1>1, <1>3
<1>5. Ordered(at')
  BY <1>2, <1>4, OrderedCut DEF AppliedInv
<1>6. \A t \in Tx : at'[t] = IF at[t] > tip - 1 THEN 0 ELSE at[t]
  BY <1>4
<1>7. NodeInv'
  BY <1>1 DEF NodeInv, Ordered
<1>8. AppliedInv'
  <2>1. \A t \in Tx : at'[t] <= tip'
    BY <1>1, <1>2, <1>6
  <2>2. ASSUME NEW t \in Tx, at'[t] \in 1..fork \/ nodeAt[t] \in 1..fork PROVE at'[t] = nodeAt[t]
    <3>1. at[t] \in 1..fork \/ nodeAt[t] \in 1..fork
      BY <1>2, <1>6, <2>2
    <3>2. at[t] = nodeAt[t] /\ at[t] <= tip - 1
      BY <1>2, <3>1 DEF AppliedInv
    <3> QED BY <1>2, <1>6, <3>2
  <2>3. fork' <= tip' /\ fork' <= nodeTip' /\ tip' <= MaxHeight
    BY <1>1, <1>2 DEF AppliedInv
  <2> QED BY <1>1, <1>5, <2>1, <2>2, <2>3 DEF AppliedInv, Ordered
<1> QED BY <1>7, <1>8

(* A step of a wallet, of the mempool or of a send moves neither chain.    *)
LEMMA ChainsKept ==
  ASSUME NodeInv, AppliedInv, UNCHANGED <<nodeAt, nodeTip, at, tip, fork>>
  PROVE  NodeInv' /\ AppliedInv'
BY DEF NodeInv, AppliedInv, Ordered

-----------------------------------------------------------------------------
(* The heights at which an output is created and spent.                    *)

LEMMA Once ==
  ASSUME NEW f \in [Tx -> Nat], Ordered(f), NEW c \in Coin,
         NEW g \in Nat, NEW h \in Nat, g > 0, h > 0
  PROVE  /\ MadeAt(c, f, g) /\ MadeAt(c, f, h) => g = h
         /\ TakenAt(c, f, g) /\ TakenAt(c, f, h) => g = h
         /\ MadeAt(c, f, g) /\ TakenAt(c, f, h) => g < h
<1>1. \A s, t \in Tx : c \in Outs[s] /\ c \in Outs[t] => s = t
  BY MwebAssumption
<1>2. MadeAt(c, f, g) /\ MadeAt(c, f, h) => g = h
  BY <1>1 DEF MadeAt
<1>3. TakenAt(c, f, g) /\ TakenAt(c, f, h) => g = h
  BY DEF TakenAt, Ordered
<1>4. ASSUME MadeAt(c, f, g), TakenAt(c, f, h) PROVE g < h
  <2>1. PICK t \in Tx : f[t] = h /\ c \in Ins[t]
    BY <1>4 DEF TakenAt
  <2>2. PICK p \in Tx : c \in Outs[p] /\ f[p] < f[t]
    BY <2>1 DEF Ordered
  <2>3. f[p] = g
    BY <1>1, <1>4, <2>2 DEF MadeAt
  <2> QED BY <2>1, <2>2, <2>3
<1> QED BY <1>2, <1>3, <1>4

(* A spent output was created. *)
LEMMA SpentWasCreated ==
  ASSUME Heights, AppliedInv, NEW c \in Coin, SpentBy(c, tip)
  PROVE  CreatedBy(c, tip)
<1>1. PICK t \in Tx : at[t] \in 1..tip /\ c \in Ins[t]
  BY DEF SpentBy
<1>2. PICK p \in Tx : c \in Outs[p] /\ at[p] > 0 /\ at[p] < at[t]
  BY <1>1 DEF AppliedInv, Ordered, Heights
<1>3. at[p] \in 1..tip
  BY <1>1, <1>2 DEF Heights
<1> QED BY <1>2, <1>3 DEF CreatedBy

LEMMA ByHeight ==
  ASSUME NEW c \in Coin
  PROVE  /\ \A h \in 1..tip : MadeAt(c, at, h) => CreatedBy(c, tip)
         /\ \A h \in 1..tip : TakenAt(c, at, h) => SpentBy(c, tip)
         /\ CreatedBy(c, tip) => \E h \in 1..tip : MadeAt(c, at, h)
         /\ SpentBy(c, tip) => \E h \in 1..tip : TakenAt(c, at, h)
BY DEF MadeAt, TakenAt, CreatedBy, SpentBy

NextBlock == {t \in Tx : nodeAt[t] = tip + 1}

(* A block adds its own outputs and inputs to those of the chain, all of   *)
(* them new.                                                               *)
LEMMA ApplyHeights ==
  ASSUME Heights, NodeInv, AppliedInv, ApplyBlock, NEW c \in Coin
  PROVE  /\ \A h \in 1..tip : /\ MadeAt(c, at', h) <=> MadeAt(c, at, h)
                              /\ TakenAt(c, at', h) <=> TakenAt(c, at, h)
         /\ MadeAt(c, at', tip + 1) <=> c \in OutsOf(NextBlock)
         /\ TakenAt(c, at', tip + 1) <=> c \in InsOf(NextBlock)
         /\ CreatedBy(c, tip)' <=> CreatedBy(c, tip) \/ c \in OutsOf(NextBlock)
         /\ SpentBy(c, tip)' <=> SpentBy(c, tip) \/ c \in InsOf(NextBlock)
         /\ c \in OutsOf(NextBlock) =>
              ~CreatedBy(c, tip) /\ ~SpentBy(c, tip) /\ c \notin InsOf(NextBlock)
         /\ c \in InsOf(NextBlock) => ~SpentBy(c, tip)
<1> USE DEF Heights
<1>1. /\ at' = [t \in Tx |-> IF t \in NextBlock THEN tip + 1 ELSE at[t]]
      /\ tip' = tip + 1 /\ fork = tip
  BY DEF ApplyBlock, NextBlock
<1>2. /\ \A t \in Tx : /\ at[t] \in Nat /\ at[t] <= tip
                       /\ at'[t] = IF t \in NextBlock THEN tip + 1 ELSE at[t]
      /\ at' \in [Tx -> Nat] /\ tip \in Nat
  BY <1>1 DEF AppliedInv
<1>3. \A t \in NextBlock : t \in Tx /\ at[t] \notin 1..tip
  <2> TAKE t \in NextBlock
  <2>1. t \in Tx /\ nodeAt[t] = tip + 1
    BY DEF NextBlock
  <2>2. at[t] \in 1..fork => at[t] = nodeAt[t]
    BY <2>1 DEF AppliedInv
  <2> QED BY <1>1, <1>2, <2>1, <2>2
<1>4. \A h \in 1..tip : \A t \in Tx : at'[t] = h <=> at[t] = h
  BY <1>2, <1>3
<1>5. \A t \in Tx : at'[t] = tip + 1 <=> t \in NextBlock
  BY <1>2
<1>6. /\ \A h \in 1..tip : /\ MadeAt(c, at', h) <=> MadeAt(c, at, h)
                           /\ TakenAt(c, at', h) <=> TakenAt(c, at, h)
      /\ MadeAt(c, at', tip + 1) <=> c \in OutsOf(NextBlock)
      /\ TakenAt(c, at', tip + 1) <=> c \in InsOf(NextBlock)
  BY <1>3, <1>4, <1>5 DEF MadeAt, TakenAt, OutsOf, InsOf
<1>7. \A t \in Tx : at'[t] \in 1..(tip + 1) <=> at[t] \in 1..tip \/ t \in NextBlock
  BY <1>2
<1>8. /\ CreatedBy(c, tip)' <=> CreatedBy(c, tip) \/ c \in OutsOf(NextBlock)
      /\ SpentBy(c, tip)' <=> SpentBy(c, tip) \/ c \in InsOf(NextBlock)
  BY <1>1, <1>3, <1>7 DEF CreatedBy, SpentBy, OutsOf, InsOf
<1>9. Ordered(at')
  BY ApplyChains DEF AppliedInv, Ordered
<1>10. \A h \in 1..tip : h \in Nat /\ h > 0 /\ h < tip + 1
  BY <1>2
<1>11. ASSUME c \in OutsOf(NextBlock)
       PROVE  ~CreatedBy(c, tip) /\ ~SpentBy(c, tip) /\ c \notin InsOf(NextBlock)
  <2>1. MadeAt(c, at', tip + 1) /\ tip + 1 \in Nat /\ tip + 1 > 0
    BY <1>2, <1>6, <1>11
  <2>2. c \notin InsOf(NextBlock)
    <3>1. ~TakenAt(c, at', tip + 1)
      BY <1>2, <1>9, <2>1, Once
    <3> QED BY <1>6, <3>1
  <2>3. ~CreatedBy(c, tip)
    <3> SUFFICES ASSUME NEW h \in 1..tip, MadeAt(c, at, h) PROVE FALSE
      BY ByHeight
    <3>1. MadeAt(c, at', h)
      BY <1>6
    <3>2. h = tip + 1
      BY <1>2, <1>9, <1>10, <2>1, <3>1, Once
    <3> QED BY <1>10, <3>2
  <2> QED BY <2>2, <2>3, SpentWasCreated
<1>12. ASSUME c \in InsOf(NextBlock) PROVE ~SpentBy(c, tip)
  <2>1. TakenAt(c, at', tip + 1) /\ tip + 1 \in Nat /\ tip + 1 > 0
    BY <1>2, <1>6, <1>12
  <2> SUFFICES ASSUME NEW h \in 1..tip, TakenAt(c, at, h) PROVE FALSE
    BY ByHeight
  <2>2. TakenAt(c, at', h)
    BY <1>6
  <2>3. h = tip + 1
    BY <1>2, <1>9, <1>10, <2>1, <2>2, Once
  <2> QED BY <1>10, <2>3
<1> QED BY <1>6, <1>8, <1>11, <1>12

(* What is left when the tip is undone.                                    *)
LEMMA PopHeights ==
  ASSUME Heights, NodeInv, AppliedInv, PopTip, NEW c \in Coin
  PROVE  /\ tip > 0
         /\ \A h \in 1..(tip - 1) : /\ MadeAt(c, at', h) <=> MadeAt(c, at, h)
                                    /\ TakenAt(c, at', h) <=> TakenAt(c, at, h)
         /\ CreatedBy(c, tip)' <=> CreatedBy(c, tip) /\ ~MadeAt(c, at, tip)
         /\ SpentBy(c, tip)' <=> SpentBy(c, tip) /\ ~TakenAt(c, at, tip)
         /\ MadeAt(c, at, tip) => ~SpentBy(c, tip)
<1> USE DEF Heights
<1>1. /\ at' = [t \in Tx |-> IF at[t] = tip THEN 0 ELSE at[t]]
      /\ tip' = tip - 1 /\ fork < tip
  BY DEF PopTip
<1>2. /\ \A t \in Tx : /\ at[t] \in Nat /\ at[t] <= tip
                       /\ at'[t] = IF at[t] = tip THEN 0 ELSE at[t]
      /\ tip \in Nat /\ fork \in Nat /\ tip > 0
  BY <1>1 DEF AppliedInv
<1>3. \A h \in 1..(tip - 1) : \A t \in Tx : at'[t] = h <=> at[t] = h
  BY <1>2
<1>4. \A h \in 1..(tip - 1) : /\ MadeAt(c, at', h) <=> MadeAt(c, at, h)
                              /\ TakenAt(c, at', h) <=> TakenAt(c, at, h)
  BY <1>3 DEF MadeAt, TakenAt
<1>5. \A t \in Tx : at'[t] \in 1..(tip - 1) <=> at[t] \in 1..tip /\ at[t] # tip
  BY <1>2
<1>6. Ordered(at) /\ \A h \in 1..tip : h \in Nat /\ h > 0
  BY <1>2 DEF AppliedInv
<1>7. ASSUME CreatedBy(c, tip), ~MadeAt(c, at, tip) PROVE CreatedBy(c, tip)'
  BY <1>1, <1>5, <1>7 DEF CreatedBy, MadeAt
<1>8. ASSUME SpentBy(c, tip), ~TakenAt(c, at, tip) PROVE SpentBy(c, tip)'
  BY <1>1, <1>5, <1>8 DEF SpentBy, TakenAt
<1>9. ASSUME CreatedBy(c, tip)' PROVE CreatedBy(c, tip) /\ ~MadeAt(c, at, tip)
  <2>1. PICK t \in Tx : at[t] \in 1..tip /\ at[t] # tip /\ c \in Outs[t]
    BY <1>1, <1>5, <1>9 DEF CreatedBy
  <2>2. MadeAt(c, at, at[t])
    BY <2>1 DEF MadeAt
  <2> QED BY <1>2, <1>6, <2>1, <2>2, Once DEF CreatedBy
<1>10. ASSUME SpentBy(c, tip)' PROVE SpentBy(c, tip) /\ ~TakenAt(c, at, tip)
  <2>1. PICK t \in Tx : at[t] \in 1..tip /\ at[t] # tip /\ c \in Ins[t]
    BY <1>1, <1>5, <1>10 DEF SpentBy
  <2>2. TakenAt(c, at, at[t])
    BY <2>1 DEF TakenAt
  <2> QED BY <1>2, <1>6, <2>1, <2>2, Once DEF SpentBy
<1>11. ASSUME MadeAt(c, at, tip) PROVE ~SpentBy(c, tip)
  <2> SUFFICES ASSUME NEW h \in 1..tip, TakenAt(c, at, h) PROVE FALSE
    BY ByHeight
  <2>1. h \in Nat /\ h > 0 /\ h <= tip
    BY <1>2
  <2>2. tip < h
    BY <1>2, <1>6, <1>11, <2>1, Once
  <2> QED BY <1>2, <2>1, <2>2
<1> QED BY <1>2, <1>4, <1>7, <1>8, <1>9, <1>10, <1>11

-----------------------------------------------------------------------------
(* What the helpers do to an output's flags.                               *)

SameCoin(u, v) == v.known = u.known /\ v.spent = u.spent /\ v.indexed = u.indexed

LEMMA ConfirmedFlags ==
  ASSUME NEW u, NEW v \in Cell, NEW n \in Int, u = v
  PROVE  SameCoin(v, Confirmed(u, n))
BY DEF SameCoin, Confirmed, Cell

LEMMA PendingFlags ==
  ASSUME NEW u \in Cell
  PROVE  SameCoin(u, AddPending(u)) /\ SameCoin(u, RemovePending(u))
BY DEF SameCoin, AddPending, RemovePending, Cell

LEMMA PendingSpendFlags ==
  ASSUME NEW u \in Cell
  PROVE  SameCoin(u, AddPendingSpend(u)) /\ SameCoin(u, RemovePendingSpend(u))
<1>1. u.marked \in BOOLEAN /\ u.indexed \in BOOLEAN
  BY DEF Cell
<1>2. SameCoin(u, AddPendingSpend(u))
  BY <1>1 DEF SameCoin, AddPendingSpend, PendingOut, Confirmed, Cell
<1>3. SameCoin(u, RemovePendingSpend(u))
  BY <1>1 DEF SameCoin, RemovePendingSpend, PendingOut, Confirmed, Cell
<1> QED BY <1>2, <1>3

LEMMA AddFlags ==
  ASSUME NEW u \in Cell
  PROVE  /\ u.known => SameCoin(u, AddUtxo(u))
         /\ ~u.known => /\ AddUtxo(u).known /\ ~AddUtxo(u).spent
                        /\ AddUtxo(u).indexed
BY DEF SameCoin, AddUtxo, Confirmed, Cell

LEMMA AddHistoricalFlags ==
  ASSUME NEW u \in Cell
  PROVE  /\ u.known => SameCoin(u, AddHistorical(u))
         /\ ~u.known => /\ AddHistorical(u).known /\ AddHistorical(u).spent
                        /\ AddHistorical(u).indexed = u.indexed
BY DEF SameCoin, AddHistorical, Cell

LEMMA SpendFlags ==
  ASSUME NEW u \in Cell, u.indexed, u.known
  PROVE  SpendUtxo(u).known /\ SpendUtxo(u).indexed /\ SpendUtxo(u).spent
BY DEF SpendUtxo, Confirmed, Cell

LEMMA UnspendFlags ==
  ASSUME NEW u \in Cell
  PROVE  /\ UnspendUtxo(u).known = u.known /\ UnspendUtxo(u).indexed = u.indexed
         /\ u.indexed /\ u.known => ~UnspendUtxo(u).spent
BY DEF UnspendUtxo, Confirmed, Cell

LEMMA RemoveFlags ==
  ASSUME NEW u \in Cell
  PROVE  /\ ~RemoveUtxo(u).indexed
         /\ RemoveUtxo(u).known = (u.known /\ ~u.indexed)
<1>1. u.known \in BOOLEAN /\ u.indexed \in BOOLEAN /\ u.spent \in BOOLEAN
  BY DEF Cell
<1> QED BY <1>1 DEF RemoveUtxo, Unindex, Erase, Confirmed, Cell

LEMMA InvalidateFlags ==
  ASSUME NEW u \in Cell
  PROVE  ~InvalidateUtxo(u).indexed /\ ~InvalidateUtxo(u).known
<1>1. u.known \in BOOLEAN /\ u.marked \in BOOLEAN /\ u.spent \in BOOLEAN
  BY DEF Cell
<1> QED BY <1>1 DEF InvalidateUtxo, Unindex, Erase, Confirmed, PendingOut, Cell

LEMMA ReconcileFlags ==
  ASSUME NEW u \in Cell, NEW c, NEW C
  PROVE  SameCoin(u, ReconcileUtxo(u, c, C))
<1> DEFINE add == c \in OutsOf(C) /\ c \notin foreign /\ Known(c)
           in  == IF c \in OutsOf(C) THEN IF add THEN AddPending(u) ELSE u
                                     ELSE RemovePending(u)
<1>1. in \in Cell /\ SameCoin(u, in)
  BY PendingFlags DEF AddPending, RemovePending, Cell, SameCoin
<1>2. u.indexed \in BOOLEAN
  BY DEF Cell
<1>3. ReconcileUtxo(u, c, C) \in {in, AddPendingSpend(in), RemovePendingSpend(in)}
  BY <1>2 DEF ReconcileUtxo
<1> HIDE DEF in
<1> QED BY <1>1, <1>3, PendingSpendFlags DEF SameCoin

(* The flags of an output that a block creates, or spends, or neither.     *)
LEMMA ApplyEventFlags ==
  ASSUME NEW u \in Cell, NEW c, NEW e, u.indexed => u.known,
         ~(c \in e.adds /\ c \in e.spends), c \in e.spends => u.indexed
  PROVE  LET v == ApplyEvent(u, c, e) IN
         /\ v \in Cell
         /\ c \in e.adds /\ ~u.known => v.known /\ ~v.spent /\ v.indexed
         /\ c \in e.spends => v.known /\ v.spent /\ v.indexed
         /\ c \notin e.spends /\ (c \notin e.adds \/ u.known) => SameCoin(u, v)
<1>1. ApplyEvent(u, c, e) \in Cell
  BY ApplyEventFirm DEF Firm, Effect
<1>2. CASE c \in e.adds
  <2>1. ApplyEvent(u, c, e) = AddUtxo(RemovePending(u)) /\ c \notin e.spends
    BY <1>2 DEF ApplyEvent
  <2>2. RemovePending(u) \in Cell /\ SameCoin(u, RemovePending(u))
    BY PendingFlags DEF RemovePending, Cell
  <2> QED BY <1>1, <1>2, <2>1, <2>2, AddFlags DEF SameCoin
<1>3. CASE c \in e.spends
  <2>1. ApplyEvent(u, c, e) = SpendUtxo(RemovePendingSpend(u)) /\ c \notin e.adds
    BY <1>3 DEF ApplyEvent
  <2>2. RemovePendingSpend(u) \in Cell /\ SameCoin(u, RemovePendingSpend(u))
    BY PendingSpendFlags, RemovePendingSpendFirm DEF Firm, Effect
  <2>3. RemovePendingSpend(u).indexed /\ RemovePendingSpend(u).known
    BY <1>3, <2>2 DEF SameCoin
  <2> QED BY <1>1, <1>3, <2>1, <2>2, <2>3, SpendFlags
<1>4. CASE c \notin e.adds /\ c \notin e.spends
  BY <1>1, <1>4 DEF ApplyEvent, SameCoin
<1> QED BY <1>2, <1>3, <1>4

LEMMA RollbackEventFlags ==
  ASSUME NEW u \in Cell, NEW c, NEW e, ~(c \in e.adds /\ c \in e.spends)
  PROVE  LET v == RollbackEvent(u, c, e) IN
         /\ c \in e.adds => ~v.indexed /\ v.known = (u.known /\ ~u.indexed)
         /\ c \in e.spends => /\ v.known = u.known /\ v.indexed = u.indexed
                              /\ u.indexed /\ u.known => ~v.spent
         /\ c \notin e.adds \union e.spends => SameCoin(u, v)
BY RemoveFlags, UnspendFlags DEF RollbackEvent, SameCoin

(* What is written to an output, and to the flag of its address.           *)
LEMMA WriteFlags ==
  ASSUME NEW n, Write(n), NEW c \in Coin, n[c] \in Cell
  PROVE  /\ SameCoin(n[c], utxo'[c])
         /\ ~desync'[Owner[c]] => ~desync[Owner[c]] /\ ~n[c].missed
<1>1. utxo'[c] = Settle(n[c])
  BY DEF Write
<1>2. Owner[c] \in Addr
  BY MwebAssumption
<1>3. SameCoin(n[c], Settle(n[c]))
  BY SettleSound DEF SameFlags, SameCoin
<1> QED BY <1>1, <1>2, <1>3 DEF Write

-----------------------------------------------------------------------------
(* The ring.                                                               *)

RingType == ring \in Seq([adds : SUBSET Coin, spends : SUBSET Coin])

(* The entries after a block: its own, and those that have not left, of    *)
(* the heights they were of.                                               *)
LEMMA PushEntries ==
  ASSUME RingType, tip \in Nat, NEW e, ring' = Pushed(e), tip' = tip + 1,
         e \in [adds : SUBSET Coin, spends : SUBSET Coin]
  PROVE  /\ Len(ring) <= tip => Len(ring') <= tip'
         /\ \A i \in 1..Len(ring') :
              \/ ring'[i] = e /\ RingHeight(i)' = tip + 1
              \/ \E j \in 1..Len(ring) :
                   /\ ring'[i] = ring[j] /\ RingHeight(i)' = RingHeight(j)
                   /\ LeavesRing # {} => j > 1
         /\ LeavesRing # {} => 1 \in 1..Len(ring) /\ LeavesRing = ring[1].spends
<1> DEFINE S == [adds : SUBSET Coin, spends : SUBSET Coin]
           L == Len(ring)
<1>1. ring \in Seq(S) /\ L \in Nat /\ RollbackWindow \in Nat \ {0} /\ e \in S
  BY MwebAssumption DEF RingType
<1> HIDE DEF S
<1>2. CASE L < RollbackWindow
  <2>1. ring' = Append(ring, e) /\ LeavesRing = {}
    BY <1>2 DEF Pushed, LeavesRing
  <2>2. /\ Len(ring') = L + 1 /\ ring'[L + 1] = e
        /\ \A i \in 1..L : ring'[i] = ring[i]
    BY <1>1, <2>1
  <2>3. ASSUME NEW i \in 1..Len(ring')
        PROVE  \/ ring'[i] = e /\ RingHeight(i)' = tip + 1
               \/ \E j \in 1..L : ring'[i] = ring[j] /\ RingHeight(i)' = RingHeight(j)
    <3>1. CASE i = L + 1
      BY <1>1, <2>2, <3>1 DEF RingHeight
    <3>2. CASE i # L + 1
      <4>1. i \in 1..L
        BY <1>1, <2>2, <3>2
      <4> QED BY <1>1, <2>2, <4>1 DEF RingHeight
    <3> QED BY <3>1, <3>2
  <2> QED BY <1>1, <2>1, <2>2, <2>3
<1>3. CASE ~(L < RollbackWindow)
  <2>1. /\ ring' = Append(Tail(ring), e) /\ LeavesRing = ring[1].spends /\ L > 0
        /\ ring # <<>>
    BY <1>1, <1>3 DEF Pushed, LeavesRing
  <2>2. /\ Tail(ring) \in Seq(S) /\ Len(Tail(ring)) = L - 1
        /\ \A i \in 1..(L - 1) : Tail(ring)[i] = ring[i + 1]
    BY <1>1, <2>1
  <2>3. /\ Len(ring') = L /\ ring'[L] = e
        /\ \A i \in 1..(L - 1) : ring'[i] = ring[i + 1]
    BY <1>1, <2>1, <2>2
  <2>4. ASSUME NEW i \in 1..Len(ring')
        PROVE  \/ ring'[i] = e /\ RingHeight(i)' = tip + 1
               \/ \E j \in 1..L : ring'[i] = ring[j] /\ RingHeight(i)' = RingHeight(j) /\ j > 1
    <3>1. CASE i = L
      BY <1>1, <2>3, <3>1 DEF RingHeight
    <3>2. CASE i # L
      <4>1. i \in 1..(L - 1) /\ i + 1 \in 1..L /\ i + 1 > 1
        BY <1>1, <2>3, <3>2
      <4>2. ring'[i] = ring[i + 1] /\ RingHeight(i)' = RingHeight(i + 1)
        BY <1>1, <2>3, <4>1 DEF RingHeight
      <4> QED BY <4>1, <4>2
    <3> QED BY <3>1, <3>2
  <2>5. Len(ring) <= tip => Len(ring') <= tip'
    BY <1>1, <2>3
  <2>6. 1 \in 1..Len(ring)
    BY <1>1, <2>1
  <2> HIDE DEF L
  <2> QED BY <2>1, <2>4, <2>5, <2>6 DEF L
<1> QED BY <1>2, <1>3

(* And after a rollback. *)
LEMMA PopEntries ==
  ASSUME RingType, tip \in Nat, RollbackTip
  PROVE  /\ Len(ring) \in 1..Len(ring) /\ RingHeight(Len(ring)) = tip
         /\ Len(ring') = Len(ring) - 1
         /\ \A i \in 1..Len(ring') :
              /\ ring'[i] = ring[i] /\ RingHeight(i)' = RingHeight(i)
              /\ i \in 1..Len(ring) /\ RingHeight(i) < tip
<1> DEFINE n == Len(ring) - 1
<1>1. ring # <<>> /\ ring' = SubSeq(ring, 1, n) /\ tip' = tip - 1
  BY DEF RollbackTip, PopTip
<1>2. Len(ring) \in Nat /\ n \in Nat /\ Len(ring) = n + 1
  BY <1>1 DEF RingType
<1> HIDE DEF n
<1>3. /\ Len(ring') = n /\ \A i \in 1..n : ring'[i] = ring[i]
  <2>1. \A i \in 1..n : ring[i] \in [adds : SUBSET Coin, spends : SUBSET Coin]
    <3>1. \A i \in 1..Len(ring) : ring[i] \in [adds : SUBSET Coin, spends : SUBSET Coin]
      BY ElementOfSeq DEF RingType
    <3>2. \A i \in 1..n : i \in 1..Len(ring)
      BY <1>2
    <3> QED BY <3>1, <3>2
  <2>2. Len(SubSeq(ring, 1, n)) = n
    BY <1>2, <2>1, SubSeqProperties
  <2>3. \A i \in 1..n : SubSeq(ring, 1, n)[i] = ring[i]
    BY <1>2, <2>1, SubSeqProperties
  <2> QED BY <1>1, <2>2, <2>3
<1>4. \A i \in 1..n : RingHeight(i)' = RingHeight(i) /\ RingHeight(i) < tip
  BY <1>1, <1>2, <1>3 DEF RingHeight
<1> QED BY <1>2, <1>3, <1>4 DEF RingHeight

LEMMA ApplyRing ==
  ASSUME ChainTypeOK, NodeInv, AppliedInv, RingInv, ApplyBlock
  PROVE  RingInv'
<1> DEFINE e == Events(NextBlock)
<1>1. /\ ring' = Pushed(e) /\ tip' = tip + 1
      /\ RingType /\ tip \in Nat /\ Heights
  BY DEF ApplyBlock, NextBlock, ChainTypeOK, RingType, Heights
<1>2. /\ e \in [adds : SUBSET Coin, spends : SUBSET Coin]
      /\ e.adds \subseteq OutsOf(NextBlock) /\ e.spends \subseteq InsOf(NextBlock)
  <2>1. OutsOf(NextBlock) \subseteq Coin /\ InsOf(NextBlock) \subseteq Coin
    BY MwebAssumption DEF OutsOf, InsOf, NextBlock
  <2> QED BY <2>1 DEF Events
<1> HIDE DEF e
<1>3. Len(ring') <= tip'
  BY <1>1, <1>2, PushEntries DEF RingInv
<1>4. ASSUME NEW i \in 1..Len(ring'), NEW c \in Coin
      PROVE  /\ c \in ring'[i].adds => MadeAt(c, at', RingHeight(i)')
             /\ c \in ring'[i].spends => TakenAt(c, at', RingHeight(i)')
  <2>1. CASE ring'[i] = e /\ RingHeight(i)' = tip + 1
    BY <1>1, <1>2, <2>1, ApplyHeights
  <2>2. ASSUME NEW j \in 1..Len(ring), ring'[i] = ring[j], RingHeight(i)' = RingHeight(j)
        PROVE  /\ c \in ring'[i].adds => MadeAt(c, at', RingHeight(i)')
               /\ c \in ring'[i].spends => TakenAt(c, at', RingHeight(i)')
    <3>1. RingHeight(j) \in 1..tip
      BY <1>1 DEF RingHeight, RingInv, RingType
    <3>2. /\ c \in ring[j].adds => MadeAt(c, at, RingHeight(j))
          /\ c \in ring[j].spends => TakenAt(c, at, RingHeight(j))
      BY DEF RingInv
    <3> QED BY <1>1, <2>2, <3>1, <3>2, ApplyHeights
  <2> QED BY <1>1, <1>2, <2>1, <2>2, PushEntries
<1>5. \A i \in 1..Len(ring'), c \in Coin :
        /\ c \in ring'[i].adds => MadeAt(c, at', RingHeight(i)')
        /\ c \in ring'[i].spends => TakenAt(c, at', RingHeight(i)')
  BY <1>4
<1> QED BY <1>3, <1>5 DEF RingInv, MadeAt, TakenAt

LEMMA RollbackRing ==
  ASSUME ChainTypeOK, NodeInv, AppliedInv, RingInv, RollbackTip
  PROVE  RingInv'
<1>1. PopTip /\ RingType /\ Heights /\ tip \in Nat /\ tip' = tip - 1 /\ Len(ring) \in Nat
  BY DEF RollbackTip, PopTip, ChainTypeOK, RingType, Heights
<1>2. Len(ring') <= tip'
  BY <1>1, PopEntries DEF RingInv
<1>3. ASSUME NEW i \in 1..Len(ring'), NEW c \in Coin
      PROVE  /\ c \in ring'[i].adds => MadeAt(c, at', RingHeight(i)')
             /\ c \in ring'[i].spends => TakenAt(c, at', RingHeight(i)')
  <2>1. /\ ring'[i] = ring[i] /\ RingHeight(i)' = RingHeight(i)
        /\ i \in 1..Len(ring) /\ RingHeight(i) < tip
    BY <1>1, PopEntries
  <2>2. RingHeight(i) \in 1..(tip - 1)
    BY <1>1, <2>1 DEF RingHeight, RingInv
  <2>3. /\ c \in ring[i].adds => MadeAt(c, at, RingHeight(i))
        /\ c \in ring[i].spends => TakenAt(c, at, RingHeight(i))
    BY <2>1 DEF RingInv
  <2> QED BY <1>1, <2>1, <2>2, <2>3, PopHeights
<1>4. \A i \in 1..Len(ring'), c \in Coin :
        /\ c \in ring'[i].adds => MadeAt(c, at', RingHeight(i)')
        /\ c \in ring'[i].spends => TakenAt(c, at', RingHeight(i)')
  BY <1>3
<1> QED BY <1>2, <1>4 DEF RingInv, MadeAt, TakenAt

-----------------------------------------------------------------------------
(* The steps of the engine.                                                *)

ChainsInv == NodeInv /\ AppliedInv /\ RingInv

(* An output keeps its row if its flags stay, nothing of the chain moves,  *)
(* and no address is given up.                                             *)
LEMMA RowKept ==
  ASSUME NEW c \in Coin, RowInv(c), SameCoin(utxo[c], utxo'[c]),
         ~desync'[Owner[c]] => ~desync[Owner[c]],
         since'[Owner[c]] = since[Owner[c]],
         Known(c) => Known(c)',
         UNCHANGED <<at, tip, ring>>
  PROVE  RowInv(c)'
<1>1. Rooted(c)'
  BY DEF RowInv, Rooted, SameCoin
<1>2. ASSUME Sound(c)' PROVE OfChain(c)'
  <2>1. OfChain(c)
    BY <1>2 DEF RowInv, Sound, Undercut
  <2> QED BY <2>1 DEF OfChain, SameCoin, Spendable, CreatedBy, SpentBy
<1>3. ASSUME Sound(c)' PROVE Undoable(c)'
  <2>1. Undoable(c)
    BY <1>3 DEF RowInv, Sound, Undercut
  <2> QED BY <2>1 DEF Undoable, SameCoin, MadeAt, TakenAt, RingHeight
<1> QED BY <1>1, <1>2, <1>3 DEF RowInv

LEMMA Kinds ==
  ASSUME MwebInv
  PROVE  /\ Heights /\ RingType /\ ChainTypeOK
         /\ \A c \in Coin : /\ utxo[c] \in Cell
                            /\ utxo[c].known \in BOOLEAN /\ utxo[c].spent \in BOOLEAN
                            /\ utxo[c].indexed \in BOOLEAN
                            /\ Owner[c] \in Addr /\ since[Owner[c]] \in Int
         /\ MaxHeight \in Nat /\ Len(ring) \in Nat
<1> USE MwebAssumption
<1>1. ChainTypeOK /\ utxo \in [Coin -> Cell]
  BY DEF MwebInv, CoinInv, CoinTypeOK
<1>2. Heights /\ RingType
  BY <1>1 DEF ChainTypeOK, Heights, RingType
<1>3. Len(ring) \in Nat
  BY <1>2 DEF RingType
<1>4. \A c \in Coin : Owner[c] \in Addr /\ since[Owner[c]] \in Int
  BY <1>1 DEF ChainTypeOK
<1>5. \A u \in Cell : u.known \in BOOLEAN /\ u.spent \in BOOLEAN /\ u.indexed \in BOOLEAN
  BY DEF Cell
<1> QED BY <1>1, <1>2, <1>3, <1>4, <1>5

(* A block: what it creates for a known address becomes known, and what    *)
(* the index has of what it spends becomes spent.                          *)
LEMMA ApplyRow ==
  ASSUME MwebInv, ChainsInv, ApplyBlock, NEW c \in Coin, RowInv(c)
  PROVE  RowInv(c)'
<1> DEFINE e == Events(NextBlock)
           v == ApplyEvent(utxo[c], c, e)
           n == [d \in Coin |-> LET u == ApplyEvent(utxo[d], d, e)
                               IN  IF d \in LeavesRing THEN GcUtxo(u) ELSE u]
           u == utxo[c]
           a == Owner[c]
           D == c \in OutsOf(NextBlock)
           S == c \in InsOf(NextBlock)
<1> USE DEF ChainsInv
<1>1. /\ Write(n) /\ ring' = Pushed(e) /\ tip' = tip + 1
      /\ UNCHANGED <<bound, since>>
  BY DEF ApplyBlock, NextBlock
<1>2. /\ Heights /\ RingType /\ u \in Cell
      /\ u.known \in BOOLEAN /\ u.spent \in BOOLEAN /\ u.indexed \in BOOLEAN
      /\ a \in Addr /\ since[a] \in Int /\ MaxHeight \in Nat /\ tip \in Nat
      /\ Len(ring) \in Nat
  BY Kinds DEF Heights
<1>3. e \in [adds : SUBSET Coin, spends : SUBSET Coin]
  <2>1. OutsOf(NextBlock) \subseteq Coin /\ InsOf(NextBlock) \subseteq Coin
    BY MwebAssumption DEF OutsOf, InsOf, NextBlock
  <2> QED BY <2>1 DEF Events
<1>4. /\ c \in e.adds <=> D /\ Known(c)
      /\ c \in e.spends <=> S /\ u.indexed
  BY DEF Events, OutsOf, InsOf
<1>5. /\ \A h \in 1..tip : /\ MadeAt(c, at', h) <=> MadeAt(c, at, h)
                           /\ TakenAt(c, at', h) <=> TakenAt(c, at, h)
      /\ MadeAt(c, at', tip + 1) <=> D
      /\ TakenAt(c, at', tip + 1) <=> S
      /\ CreatedBy(c, tip)' <=> CreatedBy(c, tip) \/ D
      /\ SpentBy(c, tip)' <=> SpentBy(c, tip) \/ S
      /\ D => ~CreatedBy(c, tip) /\ ~SpentBy(c, tip) /\ ~S
      /\ S => ~SpentBy(c, tip)
  BY <1>2, ApplyHeights
<1>6. /\ u.indexed => u.known
      /\ u.known => Known(c)
      /\ since[a] # Unsure => Known(c)
  BY DEF RowInv, Rooted
<1>7. /\ v \in Cell
      /\ c \in e.adds /\ ~u.known => v.known /\ ~v.spent /\ v.indexed
      /\ c \in e.spends => v.known /\ v.spent /\ v.indexed
      /\ c \notin e.spends /\ (c \notin e.adds \/ u.known) => SameCoin(u, v)
  <2> HIDE DEF D, S, e
  <2>1. ~(c \in e.adds /\ c \in e.spends) /\ (c \in e.spends => u.indexed)
    BY <1>4, <1>5
  <2> QED BY <1>2, <1>6, <2>1, ApplyEventFlags
<1>8. /\ n[c] \in Cell
      /\ n[c].known = v.known /\ n[c].spent = v.spent
      /\ n[c].indexed = (v.indexed /\ c \notin LeavesRing)
  <2>1. n[c] = IF c \in LeavesRing THEN GcUtxo(v) ELSE v
    OBVIOUS
  <2>2. v.indexed \in BOOLEAN
    BY <1>7 DEF Cell
  <2> HIDE DEF v, n
  <2> QED BY <1>7, <2>1, <2>2 DEF GcUtxo, Unindex, Cell
<1> HIDE DEF v, n, e, D, S
<1>9. /\ SameCoin(n[c], utxo'[c])
      /\ ~desync'[a] => ~desync[a]
  BY <1>1, <1>8, WriteFlags
<1>10. /\ utxo'[c].known = v.known /\ utxo'[c].spent = v.spent
       /\ utxo'[c].indexed = (v.indexed /\ c \notin LeavesRing)
  BY <1>8, <1>9 DEF SameCoin
<1>11. Known(c)' = Known(c) /\ since'[a] = since[a]
  BY <1>1 DEF Known, Registered, Watchers, Bound
<1>12. Rooted(c)'
  <2>1. v.indexed => v.known
    BY <1>6, <1>7 DEF SameCoin
  <2>2. v.known => Known(c)
    BY <1>4, <1>6, <1>7 DEF SameCoin
  <2> QED BY <1>6, <1>10, <1>11, <2>1, <2>2 DEF Rooted, Unsure
<1>13. ASSUME Sound(c)' PROVE OfChain(c)' /\ Undoable(c)'
  <2>1. OfChain(c) /\ Undoable(c)
    BY <1>9, <1>11, <1>13 DEF Sound, RowInv, Undercut
  <2>2. /\ since[a] \in {Unsure} \union 0..tip
        /\ u.known => CreatedBy(c, tip) /\ (u.spent <=> SpentBy(c, tip))
        /\ u.known /\ ~u.spent => u.indexed
        /\ since[a] # Unsure /\ CreatedBy(c, tip) => u.known
    BY <2>1 DEF OfChain, Spendable
  <2>3. D => ~u.known
    BY <1>5, <2>2
  <2>4. S /\ u.known => c \in e.spends
    BY <1>4, <1>5, <2>2
  <2>5. /\ v.known => (u.known \/ c \in e.adds)
        /\ u.known => v.known
        /\ v.known => ((CreatedBy(c, tip) \/ D) /\ (v.spent <=> (SpentBy(c, tip) \/ S)))
        /\ v.known /\ ~v.spent => v.indexed
    <3>1. CASE c \in e.spends
      BY <1>4, <1>6, <1>7, <2>2, <3>1
    <3>2. CASE c \in e.adds /\ c \notin e.spends
      BY <1>4, <1>5, <1>7, <2>3, <3>2
    <3>3. CASE c \notin e.adds /\ c \notin e.spends
      <4>1. v.known = u.known /\ v.spent = u.spent /\ v.indexed = u.indexed
        BY <1>7, <3>3 DEF SameCoin
      <4>2. u.known => ~D /\ ~S
        BY <2>3, <2>4, <3>3
      <4> QED BY <2>2, <4>1, <4>2
    <3> QED BY <3>1, <3>2, <3>3
  <2>6. ASSUME c \in LeavesRing
        PROVE  SpentBy(c, tip) /\ 1 \in 1..Len(ring) /\ TakenAt(c, at, RingHeight(1))
    <3>1. 1 \in 1..Len(ring) /\ c \in ring[1].spends
      BY <1>1, <1>2, <1>3, <2>6, PushEntries
    <3>2. TakenAt(c, at, RingHeight(1))
      BY <3>1 DEF RingInv
    <3>3. RingHeight(1) \in 1..tip
      BY <1>2, <3>1 DEF RingHeight, RingInv
    <3> QED BY <3>1, <3>2, <3>3, ByHeight
  <2>7. OfChain(c)'
    <3>1. since'[a] \in {Unsure} \union 0..tip'
      BY <1>1, <1>2, <1>11, <2>2
    <3>2. utxo'[c].known => CreatedBy(c, tip)' /\ (utxo'[c].spent <=> SpentBy(c, tip)')
      BY <1>5, <1>10, <2>5
    <3>3. utxo'[c].known /\ ~utxo'[c].spent => utxo'[c].indexed
      BY <1>10, <2>5, <2>6
    <3>4. since'[a] # Unsure /\ CreatedBy(c, tip)' => utxo'[c].known
      BY <1>4, <1>5, <1>6, <1>7, <1>10, <1>11, <2>2, <2>3, <2>5
    <3> QED BY <3>1, <3>2, <3>3, <3>4 DEF OfChain, Spendable, Unsure
  <2>8. ASSUME NEW i \in 1..Len(ring'), utxo'[c].known, since'[a] < RingHeight(i)'
        PROVE  /\ MadeAt(c, at', RingHeight(i)') => c \in ring'[i].adds
               /\ TakenAt(c, at', RingHeight(i)') => c \in ring'[i].spends /\ utxo'[c].indexed
    <3>1. CASE ring'[i] = e /\ RingHeight(i)' = tip + 1
      <4>1. ASSUME MadeAt(c, at', tip + 1) PROVE c \in e.adds
        BY <1>5, <1>10, <2>3, <2>5, <2>8, <4>1
      <4>2. ASSUME TakenAt(c, at', tip + 1) PROVE c \in e.spends /\ utxo'[c].indexed
        <5>1. S /\ ~D /\ u.known
          BY <1>4, <1>5, <1>10, <2>5, <2>8, <4>2
        <5>2. c \in e.spends /\ c \notin LeavesRing
          BY <1>5, <2>4, <2>6, <5>1
        <5> QED BY <1>7, <1>10, <5>2
      <4> QED BY <3>1, <4>1, <4>2
    <3>2. ASSUME NEW j \in 1..Len(ring), ring'[i] = ring[j], RingHeight(i)' = RingHeight(j),
                 LeavesRing # {} => j > 1
          PROVE  /\ MadeAt(c, at', RingHeight(i)') => c \in ring'[i].adds
                 /\ TakenAt(c, at', RingHeight(i)') => c \in ring'[i].spends /\ utxo'[c].indexed
      <4>1. PICK h \in 1..tip : h = RingHeight(j) /\ h \in Nat /\ h > 0
        BY <1>2 DEF RingHeight, RingInv
      <4>2. /\ MadeAt(c, at', h) <=> MadeAt(c, at, h)
            /\ TakenAt(c, at', h) <=> TakenAt(c, at, h)
        BY <1>5, <4>1
      <4>3. ASSUME MadeAt(c, at, h) \/ TakenAt(c, at, h) PROVE u.known
        <5>1. CreatedBy(c, tip) \/ SpentBy(c, tip)
          BY <4>1, <4>3, ByHeight
        <5> QED BY <1>4, <1>5, <1>10, <2>5, <2>8, <5>1
      <4>4. u.known =>
              /\ MadeAt(c, at, h) => c \in ring[j].adds
              /\ TakenAt(c, at, h) => c \in ring[j].spends /\ u.indexed
        <5>1. since[a] < RingHeight(j)
          BY <1>11, <2>8, <3>2
        <5> QED BY <2>1, <4>1, <5>1 DEF Undoable
      <4>5. ASSUME TakenAt(c, at, h) PROVE utxo'[c].indexed
        <5>1. u.known /\ u.indexed /\ SpentBy(c, tip)
          BY <4>1, <4>3, <4>4, <4>5, ByHeight
        <5>2. ~S /\ ~D
          BY <1>5, <5>1
        <5>3. v.indexed
          BY <1>4, <1>7, <5>1, <5>2 DEF SameCoin
        <5>4. c \notin LeavesRing
          <6> SUFFICES ASSUME c \in LeavesRing PROVE FALSE
            OBVIOUS
          <6>1. TakenAt(c, at, RingHeight(1)) /\ RingHeight(1) < h /\ RingHeight(1) > 0
                /\ RingHeight(1) \in Nat
            BY <1>2, <2>6, <3>2, <4>1 DEF RingHeight, RingInv
          <6> QED BY <1>2, <4>1, <4>5, <6>1, Once DEF Heights, AppliedInv
        <5> QED BY <1>10, <5>3, <5>4
      <4> QED BY <3>2, <4>1, <4>2, <4>3, <4>4, <4>5
    <3> QED BY <1>1, <1>2, <1>3, <3>1, <3>2, PushEntries
  <2>9. Undoable(c)'
    BY <2>8 DEF Undoable, MadeAt, TakenAt
  <2> QED BY <2>7, <2>9
<1> QED BY <1>12, <1>13 DEF RowInv

(* A rollback: of what the block created nothing is left, and what it      *)
(* spent is unspent, as its ring entry has both.                           *)
LEMMA RollbackRow ==
  ASSUME MwebInv, ChainsInv, RollbackTip, NEW c \in Coin, RowInv(c)
  PROVE  RowInv(c)'
<1> DEFINE L == Len(ring)
           e == ring[L]
           n == [d \in Coin |-> RollbackEvent(utxo[d], d, e)]
           u == utxo[c]
           a == Owner[c]
           D == MadeAt(c, at, tip)
           S == TakenAt(c, at, tip)
<1> USE DEF ChainsInv
<1>1. /\ Write(n) /\ PopTip /\ tip' = tip - 1 /\ bound' = bound
      /\ since' = [b \in Addr |-> IF since[b] >= tip THEN Undercut ELSE since[b]]
  BY DEF RollbackTip, PopTip
<1>2. /\ Heights /\ RingType /\ u \in Cell
      /\ u.known \in BOOLEAN /\ u.spent \in BOOLEAN /\ u.indexed \in BOOLEAN
      /\ a \in Addr /\ since[a] \in Int /\ MaxHeight \in Nat /\ tip \in Nat
      /\ tip <= MaxHeight
  BY Kinds DEF Heights, AppliedInv
<1>3. /\ L \in 1..L /\ RingHeight(L) = tip
      /\ Len(ring') = L - 1
      /\ \A i \in 1..Len(ring') :
           /\ ring'[i] = ring[i] /\ RingHeight(i)' = RingHeight(i)
           /\ i \in 1..L /\ RingHeight(i) < tip
  BY <1>2, PopEntries
<1>4. /\ tip > 0
      /\ \A h \in 1..(tip - 1) : /\ MadeAt(c, at', h) <=> MadeAt(c, at, h)
                                 /\ TakenAt(c, at', h) <=> TakenAt(c, at, h)
      /\ CreatedBy(c, tip)' <=> CreatedBy(c, tip) /\ ~D
      /\ SpentBy(c, tip)' <=> SpentBy(c, tip) /\ ~S
      /\ D => ~SpentBy(c, tip)
  BY <1>1, <1>2, PopHeights
<1>5. /\ c \in e.adds => D
      /\ c \in e.spends => S
  BY <1>3 DEF RingInv
<1>6. /\ D => CreatedBy(c, tip)
      /\ S => SpentBy(c, tip)
  <2>1. tip \in 1..tip
    BY <1>2, <1>4
  <2> QED BY <2>1, ByHeight
<1>7. /\ u.indexed => u.known
      /\ u.known => Known(c)
      /\ since[a] # Unsure => Known(c)
  BY DEF RowInv, Rooted
<1>8. /\ c \in e.adds => ~n[c].indexed /\ n[c].known = (u.known /\ ~u.indexed)
      /\ c \in e.spends => /\ n[c].known = u.known /\ n[c].indexed = u.indexed
                           /\ u.indexed /\ u.known => ~n[c].spent
      /\ c \notin e.adds \union e.spends => SameCoin(u, n[c])
  <2>1. ~(c \in e.adds /\ c \in e.spends)
    BY <1>4, <1>5, <1>6
  <2>2. n[c] = RollbackEvent(u, c, e)
    OBVIOUS
  <2> HIDE DEF n, e, u
  <2> QED BY <1>2, <2>1, <2>2, RollbackEventFlags
<1>9. n[c] \in Cell
  BY <1>2, RollbackEventEffect DEF Effect
<1> HIDE DEF n, e, D, S
<1>10. /\ utxo'[c].known = n[c].known /\ utxo'[c].spent = n[c].spent
       /\ utxo'[c].indexed = n[c].indexed
       /\ ~desync'[a] => ~desync[a]
  BY <1>1, <1>9, WriteFlags DEF SameCoin
<1>11. /\ Known(c)' = Known(c)
       /\ since'[a] = IF since[a] >= tip THEN Undercut ELSE since[a]
  BY <1>1, <1>2 DEF Known, Registered, Watchers, Bound
<1>12. Rooted(c)'
  <2>1. n[c].indexed => n[c].known
    BY <1>7, <1>8 DEF SameCoin
  <2>2. n[c].known => Known(c)
    BY <1>7, <1>8 DEF SameCoin
  <2>3. since'[a] # Unsure => Known(c)
    BY <1>2, <1>4, <1>7, <1>11 DEF Unsure
  <2> QED BY <1>10, <1>11, <2>1, <2>2, <2>3 DEF Rooted, Unsure
<1>13. ASSUME Sound(c)' PROVE OfChain(c)' /\ Undoable(c)'
  <2>1. since'[a] = since[a] /\ since[a] < tip /\ since[a] # Undercut
    BY <1>2, <1>11, <1>13 DEF Sound, Undercut
  <2>2. OfChain(c) /\ Undoable(c)
    BY <1>10, <1>13, <2>1 DEF Sound, RowInv
  <2>3. /\ since[a] \in {Unsure} \union 0..tip
        /\ u.known => CreatedBy(c, tip) /\ (u.spent <=> SpentBy(c, tip))
        /\ u.known /\ ~u.spent => u.indexed
        /\ since[a] # Unsure /\ CreatedBy(c, tip) => u.known
    BY <2>2 DEF OfChain, Spendable
  <2>4. u.known => /\ D => c \in e.adds
                   /\ S => c \in e.spends /\ u.indexed
    BY <1>3, <2>1, <2>2 DEF Undoable, D, S, e
  <2>5. n[c].known => u.known /\ ~D
    <3>1. u.known /\ D => u.indexed
      BY <1>4, <2>3
    <3>2. n[c].known => u.known
      BY <1>8 DEF SameCoin
    <3> QED BY <1>8, <2>4, <3>1, <3>2
  <2>6. u.known /\ ~D =>
          /\ n[c].known /\ n[c].indexed = u.indexed
          /\ S => ~n[c].spent
          /\ ~S => n[c].spent = u.spent
    BY <1>5, <1>8, <2>4 DEF SameCoin
  <2>7. OfChain(c)'
    <3>1. since'[a] \in {Unsure} \union 0..tip'
      BY <1>1, <1>2, <2>1, <2>3
    <3>2. utxo'[c].known => CreatedBy(c, tip)' /\ (utxo'[c].spent <=> SpentBy(c, tip)')
      BY <1>4, <1>10, <2>3, <2>5, <2>6
    <3>3. utxo'[c].known /\ ~utxo'[c].spent => utxo'[c].indexed
      BY <1>10, <2>3, <2>4, <2>5, <2>6
    <3>4. since'[a] # Unsure /\ CreatedBy(c, tip)' => utxo'[c].known
      BY <1>4, <1>10, <2>1, <2>3, <2>6
    <3> QED BY <3>1, <3>2, <3>3, <3>4 DEF OfChain, Spendable, Unsure
  <2>8. ASSUME NEW i \in 1..Len(ring'), utxo'[c].known, since'[a] < RingHeight(i)'
        PROVE  /\ MadeAt(c, at', RingHeight(i)') => c \in ring'[i].adds
               /\ TakenAt(c, at', RingHeight(i)') => c \in ring'[i].spends /\ utxo'[c].indexed
    <3>1. /\ ring'[i] = ring[i] /\ RingHeight(i)' = RingHeight(i) /\ i \in 1..L
          /\ RingHeight(i) < tip /\ since[a] < RingHeight(i)
      BY <1>3, <2>1, <2>8
    <3>2. RingHeight(i) \in 1..(tip - 1)
      BY <1>2, <1>3, <3>1 DEF RingHeight, RingInv
    <3>3. u.known /\ ~D /\ utxo'[c].indexed = u.indexed
      BY <1>10, <2>5, <2>6, <2>8
    <3>4. /\ MadeAt(c, at, RingHeight(i)) => c \in ring[i].adds
          /\ TakenAt(c, at, RingHeight(i)) => c \in ring[i].spends /\ u.indexed
      BY <2>2, <3>1, <3>3 DEF Undoable
    <3> QED BY <1>4, <3>1, <3>2, <3>3, <3>4
  <2>9. Undoable(c)'
    BY <2>8 DEF Undoable, MadeAt, TakenAt
  <2> QED BY <2>7, <2>9
<1> QED BY <1>12, <1>13 DEF RowInv

(* Below the ring every known address is flagged. *)
LEMMA BelowRow ==
  ASSUME MwebInv, ChainsInv, RollbackBelowRing, NEW c \in Coin, RowInv(c)
  PROVE  RowInv(c)'
<1> DEFINE n == [d \in Coin |-> IF Known(d) THEN Missed(InvalidateUtxo(utxo[d]))
                                            ELSE Unindex(utxo[d])]
           u == utxo[c]
           a == Owner[c]
<1>1. Write(n) /\ ring' = <<>> /\ UNCHANGED <<bound, since>>
  BY DEF RollbackBelowRing, PopTip
<1>2. u \in Cell /\ u.known \in BOOLEAN /\ a \in Addr
  BY Kinds
<1>3. /\ u.known => Known(c)
      /\ since[a] # Unsure => Known(c)
  BY DEF RowInv, Rooted
<1>4. /\ n[c] \in Cell /\ ~n[c].indexed /\ ~n[c].known
      /\ Known(c) => n[c].missed
  <2>1. CASE Known(c)
    <3>1. InvalidateUtxo(u) \in Cell /\ ~InvalidateUtxo(u).indexed /\ ~InvalidateUtxo(u).known
      BY <1>2, InvalidateFlags, InvalidateEffect DEF Effect
    <3>2. n[c] = Missed(InvalidateUtxo(u))
      BY <2>1
    <3> HIDE DEF n
    <3> QED BY <3>1, <3>2 DEF Missed, Cell
  <2>2. CASE ~Known(c)
    <3>1. n[c] = Unindex(u)
      BY <2>2
    <3> HIDE DEF n
    <3> QED BY <1>2, <1>3, <2>2, <3>1 DEF Unindex, Cell
  <2> QED BY <2>1, <2>2
<1> HIDE DEF n
<1>5. /\ ~utxo'[c].known /\ ~utxo'[c].indexed
      /\ ~desync'[a] => ~n[c].missed
  BY <1>1, <1>4, WriteFlags DEF SameCoin
<1>6. Known(c)' = Known(c)
  BY <1>1 DEF Known, Registered, Watchers, Bound
<1>7. Sound(c)' => since'[a] = Unsure
  BY <1>1, <1>3, <1>4, <1>5 DEF Sound
<1>8. Rooted(c)'
  BY <1>1, <1>3, <1>5, <1>6 DEF Rooted, Unsure
<1>9. Sound(c)' => OfChain(c)'
  BY <1>5, <1>7 DEF OfChain, Spendable, Unsure
<1>10. Undoable(c)'
  BY <1>5 DEF Undoable
<1> QED BY <1>8, <1>9, <1>10 DEF RowInv

(* A bootstrap reads the whole chain. *)
LEMMA BootstrapRow ==
  ASSUME MwebInv, ChainsInv, NEW w \in Wallet, Bootstrap(w), NEW c \in Coin, RowInv(c)
  PROVE  RowInv(c)'
<1> DEFINE n == [d \in Coin |-> IF Owner[d] \in Keychain(w)
                               THEN BootstrapUtxo(utxo[d], d) ELSE utxo[d]]
           u == utxo[c]
           v == BootstrapUtxo(u, c)
           a == Owner[c]
<1> USE DEF ChainsInv
<1>1. /\ Write(n)
      /\ since' = [b \in Addr |-> IF b \in Keychain(w) /\ since[b] # Undercut
                                  THEN tip ELSE since[b]]
      /\ UNCHANGED <<at, tip, ring, bound>>
  BY DEF Bootstrap, chainVars
<1>2. /\ Heights /\ RingType /\ u \in Cell
      /\ u.known \in BOOLEAN /\ u.spent \in BOOLEAN /\ u.indexed \in BOOLEAN
      /\ a \in Addr /\ since[a] \in Int /\ tip \in Nat /\ MaxHeight \in Nat
      /\ tip <= MaxHeight /\ Len(ring) \in Nat
  BY Kinds DEF Heights, AppliedInv
<1>3. /\ u.indexed => u.known
      /\ u.known => Known(c)
      /\ since[a] # Unsure => Known(c)
  BY DEF RowInv, Rooted
<1>4. Known(c)' = Known(c)
  BY <1>1 DEF Known, Registered, Watchers, Bound
<1>5. CASE a \notin Keychain(w)
  <2>1. n[c] = u /\ since'[a] = since[a]
    BY <1>1, <1>2, <1>5
  <2> HIDE DEF n
  <2>2. SameCoin(u, utxo'[c]) /\ (~desync'[a] => ~desync[a])
    BY <1>1, <1>2, <2>1, WriteFlags DEF SameCoin
  <2> QED BY <1>1, <1>4, <2>1, <2>2, RowKept
<1>6. CASE a \in Keychain(w)
  <2>1. Known(c)
    BY <1>6 DEF Keychain, Known
  <2>2. n[c] = v /\ v \in Cell
    BY <1>2, <1>6, BootstrapFirm DEF Firm, Effect
  <2>3. /\ ~CreatedBy(c, tip) => v = u
        /\ CreatedBy(c, tip) /\ ~SpentBy(c, tip) => v = AddUtxo(u)
        /\ CreatedBy(c, tip) /\ SpentBy(c, tip) => v = AddHistorical(u)
    BY DEF BootstrapUtxo, Unspent
  <2> HIDE DEF n, v
  <2>4. /\ utxo'[c].known = v.known /\ utxo'[c].spent = v.spent
        /\ utxo'[c].indexed = v.indexed
        /\ ~desync'[a] => ~desync[a]
    BY <1>1, <2>2, WriteFlags DEF SameCoin
  <2>5. v = u \/ v = AddUtxo(u) \/ v = AddHistorical(u)
    BY <2>3
  <2>6. v.indexed => v.known
    BY <1>2, <1>3, <2>5, AddFlags, AddHistoricalFlags DEF SameCoin
  <2>7. Rooted(c)'
    BY <1>4, <2>1, <2>4, <2>6 DEF Rooted
  <2>8. ASSUME Sound(c)' PROVE OfChain(c)' /\ Undoable(c)'
    <3>1. since[a] # Undercut /\ since'[a] = tip
      BY <1>1, <1>2, <1>6, <2>8 DEF Sound, Undercut
    <3>2. OfChain(c)
      BY <2>4, <2>8, <3>1 DEF Sound, RowInv
    <3>3. /\ u.known => CreatedBy(c, tip) /\ (u.spent <=> SpentBy(c, tip))
          /\ u.known /\ ~u.spent => u.indexed
      BY <3>2 DEF OfChain, Spendable
    <3>4. /\ v.known <=> CreatedBy(c, tip)
          /\ v.known => (v.spent <=> SpentBy(c, tip))
          /\ v.known /\ ~v.spent => v.indexed
      <4>1. CASE ~CreatedBy(c, tip)
        BY <2>3, <3>3, <4>1
      <4>2. CASE CreatedBy(c, tip) /\ ~SpentBy(c, tip)
        <5>1. v = AddUtxo(u)
          BY <2>3, <4>2
        <5> QED BY <1>2, <3>3, <4>2, <5>1, AddFlags DEF SameCoin
      <4>3. CASE CreatedBy(c, tip) /\ SpentBy(c, tip)
        <5>1. v = AddHistorical(u)
          BY <2>3, <4>3
        <5> QED BY <1>2, <3>3, <4>3, <5>1, AddHistoricalFlags DEF SameCoin
      <4> QED BY <4>1, <4>2, <4>3
    <3>5. CreatedBy(c, tip)' = CreatedBy(c, tip) /\ SpentBy(c, tip)' = SpentBy(c, tip)
      BY <1>1 DEF CreatedBy, SpentBy
    <3>6. OfChain(c)'
      <4>1. since'[a] \in {Unsure} \union 0..tip'
        BY <1>1, <1>2, <3>1
      <4> QED BY <2>4, <3>4, <3>5, <4>1 DEF OfChain, Spendable, Unsure
    <3>7. \A i \in 1..Len(ring') : ~(since'[a] < RingHeight(i)')
      BY <1>1, <1>2, <3>1 DEF RingHeight
    <3> QED BY <3>6, <3>7 DEF Undoable
  <2> QED BY <2>7, <2>8 DEF RowInv
<1> QED BY <1>5, <1>6

(* Reconciliation and answers mark outputs, and leave their rows.          *)
LEMMA MarkRow ==
  ASSUME NEW n, Write(n), NEW c \in Coin, RowInv(c), n[c] \in Cell, SameCoin(utxo[c], n[c]),
         UNCHANGED <<at, tip, ring, bound, since>>
  PROVE  RowInv(c)'
<1>1. SameCoin(utxo[c], utxo'[c]) /\ (~desync'[Owner[c]] => ~desync[Owner[c]])
  BY WriteFlags DEF SameCoin
<1>2. Known(c)' = Known(c)
  BY DEF Known, Registered, Watchers, Bound
<1> QED BY <1>1, <1>2, RowKept

LEMMA ReconcileRow ==
  ASSUME MwebInv, NEW C, Reconcile(C) \/ UNCHANGED <<coinVars, foreign>>,
         UNCHANGED <<at, tip, ring, bound, since>>, NEW c \in Coin, RowInv(c)
  PROVE  RowInv(c)'
<1> DEFINE n == [d \in Coin |-> ReconcileUtxo(utxo[d], d, C)]
<1>1. CASE Write(n)
  <2>1. n[c] \in Cell /\ SameCoin(utxo[c], n[c])
    BY Kinds, ReconcileEffect, ReconcileFlags DEF Effect
  <2> HIDE DEF n
  <2> QED BY <1>1, <2>1, MarkRow
<1>2. CASE UNCHANGED coinVars
  <2>1. Known(c)' = Known(c)
    BY DEF Known, Registered, Watchers, Bound
  <2> QED BY <1>2, <2>1, RowKept DEF coinVars, SameCoin
<1> QED BY <1>1, <1>2 DEF Reconcile

LEMMA AnswerRow ==
  ASSUME MwebInv, NEW s \in sends, SendAnswer(s), NEW c \in Coin, RowInv(c)
  PROVE  RowInv(c)'
<1> DEFINE n == [d \in Coin |-> IF d \in Ins[s.tx] THEN AddPendingSpend(utxo[d]) ELSE utxo[d]]
<1>1. Write(n) /\ UNCHANGED <<at, tip, ring, bound, since>>
  BY DEF SendAnswer, chainVars
<1>2. n[c] \in Cell /\ SameCoin(utxo[c], n[c])
  BY Kinds, AddPendingSpendEffect, PendingSpendFlags DEF Effect, SameCoin
<1> HIDE DEF n
<1> QED BY <1>1, <1>2, MarkRow

LEMMA OpenRow ==
  ASSUME MwebInv, NEW w \in Wallet, OpenWallet(w) \/ NewAddress(w), NEW c \in Coin, RowInv(c)
  PROVE  RowInv(c)'
<1>1. /\ UNCHANGED <<at, tip, ring, since, utxo, desync>>
      /\ bound \in [Wallet -> Int]
  BY Kinds DEF OpenWallet, NewAddress, chainVars, coinVars, ChainTypeOK
<1>2. \A v \in Wallet : bound'[v] = bound[v] \/ (v = w /\ bound[v] <= 0)
                        \/ (v = w /\ bound'[v] = bound[v] + 1)
  BY <1>1 DEF OpenWallet, NewAddress, Closed
<1>3. \A v \in Wallet : Bound(v) \subseteq Bound(v)'
  <2> SUFFICES ASSUME NEW v \in Wallet, NEW b \in Bound(v) PROVE b \in Bound(v)'
    OBVIOUS
  <2>1. PICK i \in 1..(IF bound[v] > 0 THEN bound[v] ELSE 0) : b = Book[v][i]
    BY DEF Bound
  <2>2. bound[v] \in Int
    BY <1>1
  <2>3. i \in 1..(IF bound'[v] > 0 THEN bound'[v] ELSE 0)
    BY <1>2, <2>1, <2>2
  <2> QED BY <2>1, <2>3 DEF Bound
<1>4. Known(c) => Known(c)'
  BY <1>3 DEF Known, Registered, Watchers
<1> QED BY <1>1, <1>4, RowKept DEF SameCoin

(* An address goes with its last watcher, and with it all of its outputs.  *)
LEMMA CloseRow ==
  ASSUME MwebInv, NEW w \in Wallet, CloseWallet(w), NEW c \in Coin, RowInv(c)
  PROVE  RowInv(c)'
<1> DEFINE dropped == {b \in Addr : Watchers(b) = {w}}
           a == Owner[c]
<1>1. /\ bound' = [bound EXCEPT ![w] = Closed]
      /\ utxo' = [d \in Coin |-> IF Owner[d] \in dropped THEN DropUtxo(utxo[d]) ELSE utxo[d]]
      /\ desync' = [b \in Addr |-> desync[b] /\ b \notin dropped]
      /\ since' = [b \in Addr |-> IF b \in dropped THEN Unsure ELSE since[b]]
      /\ UNCHANGED <<at, tip, ring>>
  BY DEF CloseWallet, chainVars
<1>2. a \in Addr /\ bound \in [Wallet -> Int]
  BY Kinds DEF ChainTypeOK
<1>3. CASE a \in dropped
  <2>1. ~utxo'[c].known /\ ~utxo'[c].indexed
    BY <1>1, <1>3 DEF DropUtxo, NoCell
  <2>2. since'[a] = Unsure
    BY <1>1, <1>2, <1>3
  <2> QED BY <2>1, <2>2 DEF RowInv, Rooted, OfChain, Undoable, Spendable, Unsure
<1>4. CASE a \notin dropped
  <2>1. utxo'[c] = utxo[c] /\ desync'[a] = desync[a] /\ since'[a] = since[a]
    <3>1. desync[a] \in BOOLEAN
      BY <1>2 DEF MwebInv, CoinInv, CoinTypeOK
    <3> QED BY <1>1, <1>2, <1>4, <3>1
  <2>2. ASSUME Known(c) PROVE Known(c)'
    <3>1. PICK v \in Watchers(a) : v # w
      BY <1>2, <1>4, <2>2 DEF Known, Registered, Watchers
    <3>2. v \in Wallet /\ a \in Bound(v) /\ bound'[v] = bound[v]
      BY <1>1, <1>2, <3>1 DEF Watchers
    <3>3. Bound(v)' = Bound(v)
      BY <3>2 DEF Bound
    <3> QED BY <3>2, <3>3 DEF Known, Registered, Watchers
  <2> QED BY <1>1, <2>1, <2>2, RowKept DEF SameCoin
<1> QED BY <1>3, <1>4

LEMMA CrashChain ==
  ASSUME MwebInv, ChainsInv, Crash
  PROVE  RingInv' /\ \A c \in Coin : RowInv(c)'
<1>1. /\ ring' = <<>> /\ tip' = tip /\ tip \in Nat
      /\ utxo' = [c \in Coin |-> NoCell] /\ since' = [b \in Addr |-> Unsure]
  BY Kinds DEF Crash, Heights
<1>2. RingInv'
  BY <1>1 DEF RingInv
<1>3. ASSUME NEW c \in Coin PROVE RowInv(c)'
  <2>1. ~utxo'[c].known /\ ~utxo'[c].indexed /\ since'[Owner[c]] = Unsure
    BY <1>1, Kinds DEF NoCell
  <2> QED BY <2>1 DEF RowInv, Rooted, OfChain, Undoable, Spendable, Unsure
<1> QED BY <1>2, <1>3

-----------------------------------------------------------------------------
(* The invariant.                                                          *)

LEMMA InitMwebChain == Init => MwebChainInv
<1> SUFFICES ASSUME Init PROVE MwebChainInv
  OBVIOUS
<1> USE DEF Init
<1>1. NodeInv /\ AppliedInv
  BY MwebAssumption DEF NodeInv, AppliedInv, Ordered
<1>2. RingInv
  BY DEF RingInv
<1>3. ASSUME NEW c \in Coin PROVE RowInv(c)
  <2>1. ~utxo[c].known /\ ~utxo[c].indexed /\ since[Owner[c]] = Unsure
    BY MwebAssumption DEF NoCell
  <2> QED BY <2>1 DEF RowInv, Rooted, OfChain, Undoable, Spendable, Unsure, CreatedBy
<1> QED BY <1>1, <1>2, <1>3 DEF MwebChainInv

(* A step that moves no chain, and keeps the row of every output. *)
LEMMA RowsSuffice ==
  ASSUME MwebChainInv, UNCHANGED <<nodeAt, nodeTip, at, tip, fork, ring>>,
         \A c \in Coin : RowInv(c)'
  PROVE  MwebChainInv'
<1>1. NodeInv' /\ AppliedInv'
  BY ChainsKept DEF MwebChainInv
<1>2. RingInv'
  BY DEF MwebChainInv, RingInv, MadeAt, TakenAt, RingHeight
<1> QED BY <1>1, <1>2 DEF MwebChainInv

LEMMA NodeMwebChain == ASSUME MwebInv, MwebChainInv, NodeNext PROVE MwebChainInv'
<1> USE DEF MwebChainInv
<1>1. UNCHANGED <<chainVars, coinVars, bound, since>>
  BY DEF NodeNext, NodeAccept, NodeEvict, NodeMine, NodeReorg
<1>2. RingInv'
  BY <1>1 DEF RingInv, MadeAt, TakenAt, RingHeight, chainVars
<1>3. ASSUME NEW c \in Coin PROVE RowInv(c)'
  <2>1. Known(c)' = Known(c)
    BY <1>1 DEF Known, Registered, Watchers, Bound
  <2> QED BY <1>1, <2>1, RowKept DEF chainVars, coinVars, SameCoin
<1>4. NodeInv' /\ AppliedInv'
  <2>1. ASSUME NEW t \in Tx, NodeAccept(t) \/ NodeEvict(t) PROVE NodeInv' /\ AppliedInv'
    BY <2>1, ChainsKept DEF NodeAccept, NodeEvict, chainVars
  <2> QED BY <2>1, Kinds, MineChains, ReorgChains DEF NodeNext
<1> QED BY <1>2, <1>3, <1>4

LEMMA SyncMwebChain == ASSUME MwebInv, MwebChainInv, SyncNext PROVE MwebChainInv'
<1>1. ChainsInv /\ NodeInv /\ AppliedInv /\ RingInv /\ \A c \in Coin : RowInv(c)
  BY DEF MwebChainInv, ChainsInv
<1>2. CASE ApplyBlock
  BY <1>1, <1>2, Kinds, ApplyChains, ApplyRing, ApplyRow DEF MwebChainInv
<1>3. CASE RollbackTip
  <2>1. PopTip
    BY <1>3 DEF RollbackTip
  <2> QED BY <1>1, <1>3, <2>1, Kinds, PopChains, RollbackRing, RollbackRow DEF MwebChainInv
<1>4. CASE RollbackBelowRing
  <2>1. PopTip /\ ring' = <<>>
    BY <1>4 DEF RollbackBelowRing
  <2>2. NodeInv' /\ AppliedInv'
    BY <1>1, <2>1, Kinds, PopChains
  <2>3. RingInv'
    <3>1. tip' \in Nat
      BY <2>1, Kinds DEF PopTip, Heights, ChainTypeOK
    <3> QED BY <2>1, <3>1 DEF RingInv
  <2> QED BY <1>1, <1>4, <2>2, <2>3, BelowRow DEF MwebChainInv
<1> QED BY <1>2, <1>3, <1>4 DEF SyncNext

LEMMA OtherMwebChain ==
  ASSUME MwebInv, MwebChainInv, MempoolNext \/ WalletNext \/ SendNext
  PROVE  MwebChainInv'
<1>1. UNCHANGED <<nodeAt, nodeTip, at, tip, fork, ring>>
  BY DEF MempoolNext, MempoolList, MempoolFetch, MempoolAbort, WalletNext, OpenWallet,
         NewAddress, Bootstrap, CloseWallet, SendBuild, SendNext, SendBroadcast, SendAnswer,
         SendFail, nodeVars, chainVars
<1>2. ASSUME NEW c \in Coin PROVE RowInv(c)'
  <2>1. RowInv(c) /\ ChainsInv
    BY DEF MwebChainInv, ChainsInv
  <2>2. CASE MempoolNext
    <3>1. /\ UNCHANGED <<at, tip, ring, bound, since>>
          /\ \E C : Reconcile(C) \/ UNCHANGED <<coinVars, foreign>>
      BY <1>1, <2>2 DEF MempoolNext, MempoolList, MempoolFetch, MempoolAbort
    <3> QED BY <2>1, <3>1, ReconcileRow
  <2>3. ASSUME UNCHANGED <<at, tip, ring, coinVars, bound, since>> PROVE RowInv(c)'
    <3>1. Known(c)' = Known(c)
      BY <2>3 DEF Known, Registered, Watchers, Bound
    <3> QED BY <2>1, <2>3, <3>1, RowKept DEF coinVars, SameCoin
  <2>4. CASE WalletNext
    <3>1. ASSUME NEW w \in Wallet, NEW t \in Tx, SendBuild(w, t) PROVE RowInv(c)'
      BY <1>1, <2>3, <3>1 DEF SendBuild
    <3> QED BY <2>1, <2>4, <3>1, OpenRow, BootstrapRow, CloseRow DEF WalletNext
  <2>5. CASE SendNext
    <3>1. ASSUME NEW s \in sends, SendBroadcast(s) \/ SendFail(s) PROVE RowInv(c)'
      BY <1>1, <2>3, <3>1 DEF SendBroadcast, SendFail
    <3> QED BY <2>1, <2>5, <3>1, AnswerRow DEF SendNext
  <2> QED BY <2>2, <2>4, <2>5
<1> QED BY <1>1, <1>2, RowsSuffice

LEMMA MwebChainStep == ASSUME MwebInv, MwebChainInv, [Next]_vars PROVE MwebChainInv'
<1>1. CASE Crash
  <2>1. ChainsInv /\ NodeInv /\ AppliedInv
    BY DEF MwebChainInv, ChainsInv
  <2>2. UNCHANGED <<nodeAt, nodeTip, at, tip, fork>>
    BY <1>1 DEF Crash, nodeVars
  <2> QED BY <1>1, <2>1, <2>2, CrashChain, ChainsKept DEF MwebChainInv
<1>2. CASE UNCHANGED vars
  <2>1. UNCHANGED <<nodeAt, nodeTip, at, tip, fork, ring, utxo, desync, bound, since>>
    BY <1>2 DEF vars, nodeVars, chainVars, coinVars
  <2>2. ASSUME NEW c \in Coin PROVE RowInv(c)'
    <3>1. Known(c)' = Known(c)
      BY <2>1 DEF Known, Registered, Watchers, Bound
    <3>2. RowInv(c)
      BY DEF MwebChainInv
    <3> QED BY <2>1, <3>1, <3>2, RowKept DEF SameCoin
  <2> QED BY <2>1, <2>2, RowsSuffice
<1> QED BY <1>1, <1>2, NodeMwebChain, SyncMwebChain, OtherMwebChain DEF Next

(* An address that is not flagged has exactly the unspent outputs of the   *)
(* node's chain, once it was bootstrapped and unless a block older than    *)
(* that was undone from the ring: whatever blocks, rollbacks, bootstraps,  *)
(* closings, sends and restarts are interleaved, and however long the      *)
(* ring is.                                                                *)
THEOREM MwebCoinsCorrect == Spec => []CoinsMatchChain
<1>1. MwebInv /\ MwebChainInv => CoinsMatchChain
  <2> SUFFICES ASSUME MwebInv, MwebChainInv, NEW c \in Coin, Known(c),
                      ~desync[Owner[c]], since[Owner[c]] \in 0..tip
               PROVE  Spendable(utxo[c]) <=> Unspent(c, tip)
    BY DEF CoinsMatchChain
  <2>1. /\ utxo[c].known \in BOOLEAN /\ utxo[c].spent \in BOOLEAN
        /\ tip \in Nat /\ tip <= MaxHeight /\ MaxHeight \in Nat
    BY Kinds DEF Heights, MwebChainInv, AppliedInv
  <2>2. since[Owner[c]] # Undercut /\ since[Owner[c]] # Unsure
    BY <2>1 DEF Undercut, Unsure
  <2>3. OfChain(c)
    BY <2>2 DEF MwebChainInv, RowInv, Sound
  <2> QED BY <2>1, <2>2, <2>3 DEF OfChain, Spendable, Unspent
<1>2. MwebInv /\ MwebChainInv /\ [Next]_vars => MwebChainInv'
  BY MwebChainStep
<1> QED BY <1>1, <1>2, InitMwebChain, MwebInvariant, PTL DEF Spec

=============================================================================
