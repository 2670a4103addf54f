----------------------------- MODULE MCOyoQueue -----------------------------
(***************************************************************************)
(* Instances of OyoQueue for TLC.                                          *)
(***************************************************************************)
EXTENDS OyoQueue, TLC

CONSTANTS t1, t2, r1, r2, savings

TaskSymmetry == Permutations({t1, t2})
=============================================================================
