------------------------------ MODULE MCOyoSync ------------------------------
(***************************************************************************)
(* Instances of OyoSync for TLC.                                           *)
(***************************************************************************)
EXTENDS OyoSync, TLC

CONSTANTS red, blue, first

Branches == Permutations({red, blue})
=============================================================================
