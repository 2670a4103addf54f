----------------------------- MODULE MCOyoMweb -----------------------------
(***************************************************************************)
(* Instances of OyoMweb for TLC.  `fund' pays c1 to the wallet, `child'    *)
(* spends c1 and pays c2 back, `rival' spends c1 too.                      *)
(***************************************************************************)
EXTENDS OyoMweb, TLC

CONSTANTS a1, a2, first, second, c1, c2, fund, child, rival

Outputs == fund :> {c1} @@ child :> {c2}
Inputs  == fund :> {} @@ child :> {c1}
Owners  == c1 :> a1 @@ c2 :> a1

Single  == first :> <<a1>>

(* Two wallets on one seed; the change is on its second address. *)
Twins   == first :> <<a1, a2>> @@ second :> <<a1, a2>>
Change  == c1 :> a1 @@ c2 :> a2
=============================================================================
