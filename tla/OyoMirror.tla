------------------------------ MODULE OyoMirror ------------------------------
(***************************************************************************)
(* What the persistent mirror promises its readers, at every moment and    *)
(* through process ends: it holds the rows of a chain of blocks, of all of *)
(* them and of no other, and that chain changes at its top only: blocks    *)
(* are put on it, or the last one is taken off.                            *)
(***************************************************************************)
EXTENDS Naturals, Sequences

VARIABLES
  stack,  \* the blocks, by height
  rows    \* the blocks whose outputs and spends a reader finds

vars == <<stack, rows>>

Content(s) == {s[i] : i \in 1..Len(s)}

Init == stack = <<>> /\ rows = {}

Push ==
  /\ Len(stack') > Len(stack)
  /\ SubSeq(stack', 1, Len(stack)) = stack
  /\ rows' = Content(stack')

Pop ==
  /\ stack # <<>>
  /\ stack' = SubSeq(stack, 1, Len(stack) - 1)
  /\ rows' = Content(stack')

Next == Push \/ Pop

Spec == Init /\ [][Next]_vars

=============================================================================
