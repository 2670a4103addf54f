--------------------------- MODULE MCOyoRegistry ---------------------------
(* Instances of OyoRegistry for TLC. *)
EXTENDS OyoRegistry, TLC

CONSTANTS w1, r1, r2, t1, t2

(* Requests are alike, and so are tailers. *)
Alike == Permutations(Request) \union Permutations(Tailer)
=============================================================================
