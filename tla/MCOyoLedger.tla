---------------------------- MODULE MCOyoLedger ----------------------------
(* Small instances of OyoLedger for TLC.  `fund' pays k1 to the wallet,    *)
(* `child' spends k1 and pays k2 back as change.                           *)
EXTENDS OyoLedger, TLC

CONSTANTS
  a1, a2,      \* scripts
  seeded,      \* a wallet that holds a seed
  watcher,     \* a watch-only wallet
  k1, k2,      \* outpoints
  fund, child, rival \* transactions

ChainOuts == fund :> {k1} @@ child :> {k2}
ChainIns  == fund :> {} @@ child :> {k1}

(* `rival' spends k1 too. *)
RivalOuts == fund :> {k1} @@ child :> {k2} @@ rival :> {}
RivalIns  == fund :> {} @@ child :> {k1} @@ rival :> {k1}

OneOwner == k1 :> a1 @@ k2 :> a1
TwoOwners == k1 :> a1 @@ k2 :> a2

SeededBook == seeded :> {a1}
NoLater == seeded :> {}

SharedBook == seeded :> {a1} @@ watcher :> {a1}
SharedLater == seeded :> {a2} @@ watcher :> {}

=============================================================================
