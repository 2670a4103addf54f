---------------------------- MODULE MCOyoPrefetch ----------------------------
(***************************************************************************)
(* Instances of OyoPrefetch for TLC.                                       *)
(***************************************************************************)
EXTENDS OyoPrefetch

CONSTANTS w1, w2
=============================================================================
