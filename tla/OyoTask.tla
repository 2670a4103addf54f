------------------------------ MODULE OyoTask ------------------------------
(***************************************************************************)
(* What the send queue promises of a task, whoever runs it: it waits until *)
(* it is taken up or called off; it is taken up once; and while it is      *)
(* taken, and only then, at most one transaction is sent for it.           *)
(***************************************************************************)
EXTENDS Naturals

CONSTANT Task

VARIABLES
  phase,  \* of each task
  sent    \* how many transactions were sent for it

vars == <<phase, sent>>

Phase == {"unborn", "waiting", "taken", "over"}

Init ==
  /\ phase = [t \in Task |-> "unborn"]
  /\ sent = [t \in Task |-> 0]

Move(t, from, to) ==
  /\ phase[t] = from
  /\ phase' = [phase EXCEPT ![t] = to]
  /\ UNCHANGED sent

Add(t)  == Move(t, "unborn", "waiting")
Take(t) == Move(t, "waiting", "taken")
End(t)  == Move(t, "taken", "over")

Send(t) ==
  /\ phase[t] = "taken"
  /\ sent[t] = 0
  /\ sent' = [sent EXCEPT ![t] = 1]
  /\ UNCHANGED phase

(* Deleting a wallet calls off all its tasks at once. *)
CallOff(S) ==
  /\ \A t \in S : phase[t] = "waiting"
  /\ phase' = [t \in Task |-> IF t \in S THEN "over" ELSE phase[t]]
  /\ UNCHANGED sent

Next ==
  \/ \E t \in Task : Add(t) \/ Take(t) \/ Send(t) \/ End(t)
  \/ \E S \in SUBSET Task : CallOff(S)

Spec == Init /\ [][Next]_vars

=============================================================================
