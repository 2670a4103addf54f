--------------------------- MODULE OyoQueueProofs ---------------------------
(***************************************************************************)
(* What holds of OyoQueue for any tasks, wallets and number of requests    *)
(* served at once: no task is sent twice, one reported done was sent and   *)
(* stays reported so, and the queue implements OyoTask.                    *)
(***************************************************************************)
EXTENDS OyoQueue, TLAPS

(* A runner that executes a task is the only one, and the task shows as    *)
(* running, or as failed if its wallet has been deleted meanwhile.         *)
Exclusive ==
  \A r, s \in Runner :
    step[r] \in Executing /\ step[s] \in Executing /\ job[r] = job[s] => r = s

Held == \A r \in Runner : step[r] \in Executing => status[job[r]] \in {"running", "failed"}

(* How far a runner is tells how often its task was sent. *)
Counted ==
  \A r \in Runner :
    /\ step[r] \in {"lookup", "open", "op", "request"} => sends[job[r]] = 0
    /\ step[r] \in {"answer", "sent"} => sends[job[r]] = 1

Fresh == \A t \in Task : status[t] \in {"none", "pending"} => sends[t] = 0

(* A task between its check and its insertion is in one request's hands. *)
Adding ==
  \A r \in Runner :
    step[r] = "adding" =>
      /\ status[job[r]] = "none"
      /\ \A s \in Runner : step[s] = "adding" /\ job[s] = job[r] => s = r

RunInv == Exclusive /\ Held /\ Counted /\ Fresh /\ Adding
SendInv == AtMostOnce /\ DoneMeansSent
QueueInv == TypeOK /\ RunInv /\ SendInv

(* At first there is no task and every runner is idle. *)
LEMMA InitQueue == Init => QueueInv
<1> SUFFICES ASSUME Init PROVE QueueInv
  OBVIOUS
<1> USE QueueAssumption DEF Init
<1>1. TypeOK
  BY DEF TypeOK, Status, Step, None
<1>2. RunInv
  BY DEF RunInv, Exclusive, Held, Counted, Fresh, Adding, Executing
<1>3. SendInv
  BY DEF SendInv, AtMostOnce, DoneMeansSent
<1> QED BY <1>1, <1>2, <1>3 DEF QueueInv

(* Requests on the queue. *)
LEMMA QueueStep == ASSUME QueueInv, QueueNext PROVE QueueInv'
<1> USE QueueAssumption DEF QueueInv, Runner, GoTo, taskVars, runVars, walletVars
<1>1. ASSUME NEW r \in Request, NEW t \in Task, NEW n \in Name,
             NEW when \in 0..MaxNow \union {Manual}, AddCheck(r, t, n, when)
      PROVE  QueueInv'
  <2>1. TypeOK'
    BY <1>1 DEF AddCheck, TypeOK, Step
  <2>2. RunInv'
    BY <1>1 DEF AddCheck, TypeOK, RunInv, Exclusive, Held, Counted, Fresh, Adding, Executing
  <2>3. SendInv'
    BY <1>1 DEF AddCheck, SendInv, AtMostOnce, DoneMeansSent
  <2> QED BY <2>1, <2>2, <2>3
<1>2. ASSUME NEW r \in Request, Add(r) PROVE QueueInv'
  <2>1. TypeOK'
    BY <1>2 DEF Add, TypeOK, Step, Status
  <2>2. RunInv'
    BY <1>2 DEF Add, TypeOK, RunInv, Exclusive, Held, Counted, Fresh, Adding, Executing
  <2>3. SendInv'
    BY <1>2 DEF Add, TypeOK, SendInv, AtMostOnce, DoneMeansSent
  <2> QED BY <2>1, <2>2, <2>3
<1>3. ASSUME NEW r \in Request, NEW t \in Task, RunNow(r, t) PROVE QueueInv'
  <2>1. TypeOK'
    BY <1>3 DEF RunNow, TypeOK, Step
  <2>2. RunInv'
    BY <1>3 DEF RunNow, TypeOK, RunInv, Exclusive, Held, Counted, Fresh, Adding, Executing
  <2>3. SendInv'
    BY <1>3 DEF RunNow, SendInv, AtMostOnce, DoneMeansSent
  <2> QED BY <2>1, <2>2, <2>3
<1>4. ASSUME NEW t \in Task, Remove(t) PROVE QueueInv'
  BY <1>4 DEF Remove, TypeOK, RunInv, Exclusive, Held, Counted, Fresh, Adding, SendInv,
              AtMostOnce, DoneMeansSent
<1>5. ASSUME NEW r \in Request, FailWalletTasks(r) PROVE QueueInv'
  <2>1. TypeOK'
    BY <1>5 DEF FailWalletTasks, TypeOK, Step, Status
  <2>2. RunInv'
    BY <1>5 DEF FailWalletTasks, TypeOK, RunInv, Exclusive, Held, Counted, Fresh, Adding, Executing
  <2>3. SendInv'
    BY <1>5 DEF FailWalletTasks, TypeOK, SendInv, AtMostOnce, DoneMeansSent
  <2> QED BY <2>1, <2>2, <2>3
<1> QED BY <1>1, <1>2, <1>3, <1>4, <1>5 DEF QueueNext

(* The clock and the ticker's choice of tasks. *)
LEMMA TickerStep == ASSUME QueueInv, TickerNext PROVE QueueInv'
<1> USE QueueAssumption DEF QueueInv, Runner, GoTo, taskVars, runVars, walletVars
<1>1. ASSUME Clock \/ Tick PROVE QueueInv'
  BY <1>1 DEF Clock, Tick, TypeOK, RunInv, Exclusive, Held, Counted, Fresh, Adding, SendInv,
              AtMostOnce, DoneMeansSent
<1>2. ASSUME NEW t \in Task, TakeDue(t) PROVE QueueInv'
  <2>1. TypeOK'
    BY <1>2 DEF TakeDue, TypeOK, Step
  <2>2. RunInv'
    BY <1>2 DEF TakeDue, TypeOK, RunInv, Exclusive, Held, Counted, Fresh, Adding, Executing
  <2>3. SendInv'
    BY <1>2 DEF TakeDue, SendInv, AtMostOnce, DoneMeansSent
  <2> QED BY <2>1, <2>2, <2>3
<1> QED BY <1>1, <1>2 DEF TickerNext

(* A task is claimed only while pending, which is when nobody executes it  *)
(* and nothing has been sent for it; only the one who claimed it goes on.  *)
LEMMA RunStep == ASSUME QueueInv, NEW r \in Runner, RunTask(r) PROVE QueueInv'
<1> USE QueueAssumption DEF QueueInv, GoTo, taskVars, runVars, walletVars
<1>1. CASE Claim(r)
  <2>1. TypeOK'
    BY <1>1 DEF Claim, TypeOK, Step, Executing, Status
  <2>2. RunInv'
    BY <1>1 DEF Claim, TypeOK, RunInv, Exclusive, Held, Counted, Fresh, Adding, Executing
  <2>3. SendInv'
    BY <1>1 DEF Claim, TypeOK, SendInv, AtMostOnce, DoneMeansSent
  <2> QED BY <2>1, <2>2, <2>3
<1>2. CASE Lookup(r)
  <2>1. TypeOK'
    BY <1>2 DEF Lookup, TypeOK, Step, Executing
  <2>2. RunInv'
    BY <1>2 DEF Lookup, TypeOK, RunInv, Exclusive, Held, Counted, Fresh, Adding, Executing
  <2>3. SendInv'
    BY <1>2 DEF Lookup, SendInv, AtMostOnce, DoneMeansSent
  <2> QED BY <2>1, <2>2, <2>3
<1>3. CASE OpenOp(r) \/ Build(r) \/ NodeRefuses(r) \/ Hear(r)
  <2>1. TypeOK'
    BY <1>3 DEF OpenOp, Build, NodeRefuses, Hear, TypeOK, Step, Executing
  <2>2. RunInv'
    BY <1>3 DEF OpenOp, Build, NodeRefuses, Hear, TypeOK, RunInv, Exclusive, Held, Counted,
                Fresh, Adding, Executing
  <2>3. SendInv'
    BY <1>3 DEF OpenOp, Build, NodeRefuses, Hear, SendInv, AtMostOnce, DoneMeansSent
  <2> QED BY <2>1, <2>2, <2>3
<1>4. CASE NodeTakes(r)
  <2>1. TypeOK'
    BY <1>4 DEF NodeTakes, TypeOK, Step, Executing
  <2>2. RunInv'
    BY <1>4 DEF NodeTakes, TypeOK, RunInv, Exclusive, Held, Counted, Fresh, Adding, Executing
  <2>3. SendInv'
    BY <1>4 DEF NodeTakes, TypeOK, RunInv, Held, Counted, Executing, SendInv, AtMostOnce,
                DoneMeansSent
  <2> QED BY <2>1, <2>2, <2>3
<1>5. CASE Finish(r)
  <2>1. TypeOK'
    BY <1>5 DEF Finish, Return, TypeOK, Step, Status, None
  <2>2. RunInv'
    BY <1>5 DEF Finish, Return, TypeOK, RunInv, Exclusive, Held, Counted, Fresh, Adding, Executing
  <2>3. SendInv'
    BY <1>5 DEF Finish, Return, TypeOK, RunInv, Counted, SendInv, AtMostOnce, DoneMeansSent
  <2> QED BY <2>1, <2>2, <2>3
<1> QED BY <1>1, <1>2, <1>3, <1>4, <1>5 DEF RunTask

(* Wallets come and go without touching a task. *)
LEMMA WalletStep == ASSUME QueueInv, WalletNext PROVE QueueInv'
<1> USE QueueAssumption DEF QueueInv, Runner, GoTo, taskVars, runVars, walletVars
<1>1. ASSUME NEW n \in Name, Create(n) \/ Load(n) PROVE QueueInv'
  <2>1. TypeOK'
    <3>1. CASE Create(n)
      <4>1. lives + 1 \in Life
        BY <3>1 DEF Create, TypeOK, Life
      <4> QED BY <3>1, <4>1 DEF Create, TypeOK
    <3>2. CASE Load(n)
      BY <3>2 DEF Load, TypeOK
    <3> QED BY <1>1, <3>1, <3>2
  <2>2. RunInv' /\ SendInv'
    BY <1>1 DEF Create, Load, RunInv, Exclusive, Held, Counted, Fresh, Adding, SendInv,
                AtMostOnce, DoneMeansSent
  <2> QED BY <2>1, <2>2
<1>2. ASSUME NEW n \in Name, Unload(n) PROVE QueueInv'
  <2>1. TypeOK'
    BY <1>2 DEF Unload, Close, TypeOK
  <2>2. RunInv' /\ SendInv'
    BY <1>2 DEF Unload, Close, RunInv, Exclusive, Held, Counted, Fresh, Adding, SendInv,
                AtMostOnce, DoneMeansSent
  <2> QED BY <2>1, <2>2
<1>3. ASSUME NEW r \in Request, NEW n \in Name, Delete(r, n) PROVE QueueInv'
  <2>1. TypeOK'
    BY <1>3 DEF Delete, Close, TypeOK, Step
  <2>2. RunInv'
    BY <1>3 DEF Delete, Close, TypeOK, RunInv, Exclusive, Held, Counted, Fresh, Adding, Executing
  <2>3. SendInv'
    BY <1>3 DEF Delete, Close, SendInv, AtMostOnce, DoneMeansSent
  <2> QED BY <2>1, <2>2, <2>3
<1>4. ASSUME NEW r \in Request, NEW n \in Name, DeleteNodeWallet(r, n) PROVE QueueInv'
  <2>1. TypeOK'
    BY <1>4 DEF DeleteNodeWallet, TypeOK, Step
  <2>2. RunInv'
    BY <1>4 DEF DeleteNodeWallet, TypeOK, RunInv, Exclusive, Held, Counted, Fresh, Adding, Executing
  <2>3. SendInv'
    BY <1>4 DEF DeleteNodeWallet, SendInv, AtMostOnce, DoneMeansSent
  <2> QED BY <2>1, <2>2, <2>3
<1> QED BY <1>1, <1>2, <1>3, <1>4 DEF WalletNext

(* Nothing changes, nothing to show. *)
LEMMA QueueStutter == ASSUME QueueInv, UNCHANGED vars PROVE QueueInv'
  BY DEF vars, taskVars, runVars, walletVars, QueueInv, TypeOK, RunInv, Exclusive, Held,
         Counted, Fresh, Adding, SendInv, AtMostOnce, DoneMeansSent

(* The inductive invariant behind the theorems. *)
LEMMA QueueInvariant == Spec => []QueueInv
<1>1. QueueInv /\ [Next]_vars => QueueInv'
  BY QueueStep, TickerStep, RunStep, WalletStep, QueueStutter DEF Next
<1> QED BY <1>1, InitQueue, PTL DEF Spec

(* Every variable of the queue keeps its type. *)
THEOREM QueueTypes == Spec => []TypeOK
<1>1. QueueInv => TypeOK
  BY DEF QueueInv
<1> QED BY <1>1, QueueInvariant, PTL

(* Whatever the ticker, requests to run, removals and deletions of wallets *)
(* do at the same time, no task is sent more than once.                    *)
THEOREM SentOnce == Spec => []AtMostOnce
<1>1. QueueInv => AtMostOnce
  BY DEF QueueInv, SendInv
<1> QED BY <1>1, QueueInvariant, PTL

(* A task reported done was sent. *)
THEOREM DoneWasSent == Spec => []DoneMeansSent
<1>1. QueueInv => DoneMeansSent
  BY DEF QueueInv, SendInv
<1> QED BY <1>1, QueueInvariant, PTL

(* A task that is done is in nobody's hands, so nobody writes its status,  *)
(* and the deletion of its wallet passes it over.                          *)
LEMMA DoneStep ==
  ASSUME QueueInv, [Next]_vars, NEW t \in Task, status[t] = "done"
  PROVE  status'[t] = "done"
<1> USE DEF QueueInv
<1>1. ASSUME NEW r \in Request, Add(r) PROVE status'[t] = "done"
  BY <1>1 DEF Add, TypeOK, Runner, RunInv, Adding
<1>2. ASSUME NEW r \in Request, FailWalletTasks(r) PROVE status'[t] = "done"
  BY <1>2 DEF FailWalletTasks, TypeOK
<1>3. ASSUME NEW r \in Runner, Claim(r) PROVE status'[t] = "done"
  BY <1>3 DEF Claim, TypeOK
<1>4. ASSUME NEW r \in Runner, Finish(r) PROVE status'[t] = "done"
  BY <1>4 DEF Finish, TypeOK, RunInv, Held, Executing
<1>5. ASSUME status' = status PROVE status'[t] = "done"
  BY <1>5
<1> QED
  BY <1>1, <1>2, <1>3, <1>4, <1>5
     DEF Next, QueueNext, AddCheck, RunNow, Remove, TickerNext, Clock, Tick, TakeDue, RunTask,
         Lookup, OpenOp, Build, NodeTakes, NodeRefuses, Hear, WalletNext, Create, Load, Unload,
         Delete, DeleteNodeWallet, vars, taskVars

(* What is reported done stays reported so.                                *)
THEOREM DoneForGood == Spec => DoneStands
<1>1. QueueInv /\ [Next]_vars
      => [\A t \in Task : status[t] = "done" => status'[t] = "done"]_vars
  BY DoneStep
<1> QED BY <1>1, QueueInvariant, PTL DEF Spec, DoneStands

-----------------------------------------------------------------------------
(* The queue implements OyoTask.                                           *)

Phases == [t \in Task |-> PhaseOf(t)]

(* Nothing that the abstract task is made of moves.                        *)
LEMMA PhasesStay ==
  ASSUME \A t \in Task : Taken(t)' <=> Taken(t), status' = status
  PROVE  Phases' = Phases
  BY DEF Phases, PhaseOf

(* A runner that executes no task moves the task of none.                  *)
LEMMA BystanderStep ==
  ASSUME QueueInv,
         NEW r \in Runner, step[r] \notin Executing, step'[r] \notin Executing,
         \A s \in Runner \ {r} : step'[s] = step[s] /\ job'[s] = job[s]
  PROVE  \A t \in Task : Taken(t)' <=> Taken(t)
  BY DEF Taken

(* A runner on its way through a task keeps it.                            *)
LEMMA WorkerStep ==
  ASSUME QueueInv,
         NEW r \in Runner, step[r] \in Executing, step'[r] \in Executing, job' = job,
         \A s \in Runner \ {r} : step'[s] = step[s]
  PROVE  \A t \in Task : Taken(t)' <=> Taken(t)
  BY DEF Taken

(* Steps of a runner that the promise does not see.                        *)
LEMMA QuietStep ==
  ASSUME QueueInv,
         \/ \E r \in Request, t \in Task, n \in Name, when \in 0..MaxNow \union {Manual} :
              AddCheck(r, t, n, when)
         \/ \E r \in Request, t \in Task : RunNow(r, t)
         \/ \E t \in Task : Remove(t) \/ TakeDue(t)
         \/ Clock \/ Tick \/ WalletNext \/ UNCHANGED vars
         \/ \E r \in Runner : Lookup(r) \/ OpenOp(r) \/ Build(r) \/ NodeRefuses(r) \/ Hear(r)
  PROVE  UNCHANGED <<Phases, sends>>
<1> USE DEF QueueInv, GoTo, taskVars, runVars, walletVars
<1>1. ASSUME NEW r \in Request, NEW t \in Task, NEW n \in Name,
             NEW when \in 0..MaxNow \union {Manual}, AddCheck(r, t, n, when)
      PROVE  UNCHANGED <<Phases, sends>>
  BY <1>1, BystanderStep, PhasesStay DEF AddCheck, TypeOK, Runner, Executing
<1>2. ASSUME NEW r \in Request, NEW t \in Task, RunNow(r, t) PROVE UNCHANGED <<Phases, sends>>
  BY <1>2, BystanderStep, PhasesStay DEF RunNow, TypeOK, Runner, Executing
<1>3. ASSUME NEW t \in Task, TakeDue(t) PROVE UNCHANGED <<Phases, sends>>
  BY <1>3, BystanderStep, PhasesStay DEF TakeDue, TypeOK, Runner, Executing
<1>4. ASSUME NEW r \in Request, NEW n \in Name, Delete(r, n) \/ DeleteNodeWallet(r, n)
      PROVE  UNCHANGED <<Phases, sends>>
  BY <1>4, BystanderStep, PhasesStay DEF Delete, DeleteNodeWallet, TypeOK, Runner, Executing
<1>5. ASSUME NEW r \in Runner, Lookup(r) \/ OpenOp(r) \/ Build(r) \/ NodeRefuses(r) \/ Hear(r)
      PROVE  UNCHANGED <<Phases, sends>>
  <2>1. step[r] \in Executing /\ step'[r] \in Executing
    BY <1>5 DEF Lookup, OpenOp, Build, NodeRefuses, Hear, TypeOK, Executing
  <2>2. job' = job /\ status' = status /\ sends' = sends
    BY <1>5 DEF Lookup, OpenOp, Build, NodeRefuses, Hear
  <2>3. \A s \in Runner \ {r} : step'[s] = step[s]
    BY <1>5 DEF Lookup, OpenOp, Build, NodeRefuses, Hear, TypeOK
  <2> QED BY <2>1, <2>2, <2>3, WorkerStep, PhasesStay
<1>6. ASSUME status' = status, sends' = sends, step' = step, job' = job
      PROVE  UNCHANGED <<Phases, sends>>
  <2>1. \A t \in Task : Taken(t)' <=> Taken(t)
    BY <1>6 DEF Taken
  <2> QED BY <1>6, <2>1, PhasesStay
<1> QED
  BY <1>1, <1>2, <1>3, <1>4, <1>5, <1>6
     DEF Remove, Clock, Tick, WalletNext, Create, Load, Unload, vars

(* Each step of the queue is one of the abstract task's, or none.          *)
LEMMA PromiseStep ==
  ASSUME QueueInv, [Next]_vars PROVE [Promise!Next]_(Promise!vars)
<1> USE DEF QueueInv, GoTo
<1>1. ASSUME UNCHANGED <<Phases, sends>> PROVE [Promise!Next]_(Promise!vars)
  BY <1>1 DEF Promise!vars, Phases
<1>2. ASSUME NEW r \in Request, Add(r) PROVE [Promise!Next]_(Promise!vars)
  <2>1. PICK t \in Task : t = job[r] /\ r \in Runner
    BY DEF TypeOK, Runner
  <2>2. \A u \in Task : Taken(u)' <=> Taken(u)
    BY <1>2, <2>1, BystanderStep DEF Add, TypeOK, Executing
  <2>3. status[t] = "none" /\ ~Taken(t)
    BY <1>2, <2>1 DEF Add, RunInv, Adding, Held, Taken
  <2>4. status' = [status EXCEPT ![t] = "pending"] /\ sends' = sends
    BY <1>2, <2>1 DEF Add
  <2>5. PhaseOf(t) = "unborn" /\ PhaseOf(t)' = "waiting"
    BY <2>1, <2>2, <2>3, <2>4 DEF PhaseOf, TypeOK
  <2>6. \A u \in Task \ {t} : PhaseOf(u)' = PhaseOf(u)
    BY <2>1, <2>2, <2>4 DEF PhaseOf, TypeOK
  <2>7. Promise!Add(t)
    BY <2>1, <2>4, <2>5, <2>6 DEF Promise!Add, Promise!Move
  <2> QED BY <2>1, <2>7 DEF Promise!Next
<1>3. ASSUME NEW r \in Runner, Claim(r) PROVE [Promise!Next]_(Promise!vars)
  <2>1. PICK t \in Task : t = job[r]
    BY DEF TypeOK
  <2>2. CASE status[t] = "pending"
    <3>1. status' = [status EXCEPT ![t] = "running"] /\ sends' = sends
      BY <1>3, <2>1, <2>2 DEF Claim
    <3>2. job' = job /\ step[r] = "claim" /\ step' = [step EXCEPT ![r] = "lookup"]
      BY <1>3, <2>1, <2>2 DEF Claim
    <3>3. ~Taken(t)
      BY <2>2, <2>1 DEF RunInv, Held, Taken
    <3>4. Taken(t)'
      BY <2>1, <3>2 DEF TypeOK, Taken, Executing
    <3>5. \A u \in Task \ {t} : Taken(u)' <=> Taken(u)
      BY <2>1, <3>2 DEF TypeOK, Taken, Executing
    <3>6. PhaseOf(t) = "waiting" /\ PhaseOf(t)' = "taken"
      BY <2>2, <3>1, <3>3, <3>4 DEF PhaseOf
    <3>7. \A u \in Task \ {t} : PhaseOf(u)' = PhaseOf(u)
      BY <2>1, <3>1, <3>5 DEF PhaseOf, TypeOK
    <3>8. Promise!Take(t)
      BY <2>1, <3>1, <3>6, <3>7 DEF Promise!Take, Promise!Move
    <3> QED BY <2>1, <3>8 DEF Promise!Next
  <2>3. CASE status[t] # "pending"
    <3>1. status' = status /\ sends' = sends /\ step[r] \notin Executing
      BY <1>3, <2>1, <2>3 DEF Claim, Executing
    <3>2. step'[r] \notin Executing /\ \A s \in Runner \ {r} : step'[s] = step[s] /\ job'[s] = job[s]
      BY <1>3, <2>1, <2>3 DEF Claim, Executing, TypeOK
    <3> QED BY <1>1, <3>1, <3>2, BystanderStep, PhasesStay
  <2> QED BY <2>2, <2>3
<1>4. ASSUME NEW r \in Runner, NodeTakes(r) PROVE [Promise!Next]_(Promise!vars)
  <2>1. PICK t \in Task : t = job[r]
    BY DEF TypeOK
  <2>2. sends[t] = 0 /\ sends' = [sends EXCEPT ![t] = 1]
    <3>1. sends[t] = 0
      BY <1>4, <2>1 DEF NodeTakes, RunInv, Counted
    <3>2. sends' = [sends EXCEPT ![t] = @ + 1]
      BY <1>4, <2>1 DEF NodeTakes
    <3> QED BY <3>1, <3>2
  <2>3. step[r] \in Executing /\ step'[r] \in Executing
    BY <1>4 DEF NodeTakes, Executing, TypeOK
  <2>4. job' = job /\ status' = status /\ \A s \in Runner \ {r} : step'[s] = step[s]
    BY <1>4 DEF NodeTakes, taskVars, TypeOK
  <2>5. Phases' = Phases
    BY <2>3, <2>4, WorkerStep, PhasesStay
  <2>6. PhaseOf(t) = "taken"
    BY <2>1, <2>3 DEF PhaseOf, Taken
  <2>7. Promise!Send(t)
    BY <2>1, <2>2, <2>5, <2>6 DEF Promise!Send, Phases
  <2> QED BY <2>1, <2>7 DEF Promise!Next
<1>5. ASSUME NEW r \in Runner, Finish(r) PROVE [Promise!Next]_(Promise!vars)
  <2>1. PICK t \in Task : t = job[r]
    BY DEF TypeOK
  <2>2. step[r] \in Executing /\ step' = [step EXCEPT ![r] = "idle"] /\ job' = job /\ sends' = sends
    BY <1>5 DEF Finish, Return, Executing
  <2>3. PICK v \in {"done", "failed"} : status' = [status EXCEPT ![t] = v]
    BY <1>5, <2>1 DEF Finish
  <2>4. Taken(t) /\ ~Taken(t)'
    BY <2>1, <2>2 DEF Taken, TypeOK, Executing, RunInv, Exclusive
  <2>5. \A u \in Task \ {t} : Taken(u)' <=> Taken(u)
    BY <2>1, <2>2 DEF Taken, TypeOK, Executing
  <2>6. PhaseOf(t) = "taken" /\ PhaseOf(t)' = "over"
    BY <2>1, <2>3, <2>4 DEF PhaseOf, TypeOK
  <2>7. \A u \in Task \ {t} : PhaseOf(u)' = PhaseOf(u)
    BY <2>1, <2>3, <2>5 DEF PhaseOf, TypeOK
  <2>8. Promise!End(t)
    BY <2>1, <2>2, <2>6, <2>7 DEF Promise!End, Promise!Move
  <2> QED BY <2>1, <2>8 DEF Promise!Next
<1>6. ASSUME NEW r \in Request, FailWalletTasks(r) PROVE [Promise!Next]_(Promise!vars)
  <2> DEFINE S == {t \in Task : t \in listed /\ wallet[t] = name[r] /\ status[t] = "pending"}
  <2>1. r \in Runner /\ sends' = sends
    BY <1>6 DEF Runner, FailWalletTasks
  <2>2. \A t \in Task : Taken(t)' <=> Taken(t)
    BY <1>6, <2>1, BystanderStep DEF FailWalletTasks, TypeOK, Executing
  <2>3. \A t \in S : ~Taken(t)
    BY DEF RunInv, Held, Taken
  <2>4. \A t \in S : PhaseOf(t) = "waiting" /\ PhaseOf(t)' = "over"
    BY <1>6, <2>2, <2>3 DEF PhaseOf, FailWalletTasks
  <2>5. \A t \in Task \ S : PhaseOf(t)' = PhaseOf(t)
    BY <1>6, <2>2 DEF PhaseOf, FailWalletTasks
  <2>6. S \in SUBSET Task
    OBVIOUS
  <2> HIDE DEF S
  <2>7. Promise!CallOff(S)
    BY <2>1, <2>4, <2>5, <2>6 DEF Promise!CallOff
  <2> QED BY <2>6, <2>7 DEF Promise!Next
<1> QED
  BY <1>1, <1>2, <1>3, <1>4, <1>5, <1>6, QuietStep DEF Next, QueueNext, TickerNext, RunTask

(* The queue implements OyoTask: whatever meets whatever, each task waits, *)
(* is taken up at most once and sent at most once while it is.             *)
THEOREM QueueKeepsPromise == Spec => KeepsPromise
<1>1. Init => Promise!Init
  BY DEF Init, Promise!Init, PhaseOf, Taken, Executing
<1>2. QueueInv /\ [Next]_vars => [Promise!Next]_(Promise!vars)
  BY PromiseStep
<1> QED BY <1>1, <1>2, QueueInvariant, PTL DEF Spec, KeepsPromise, Promise!Spec

=============================================================================
