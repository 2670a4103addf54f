------------------------------ MODULE OyoQueue ------------------------------
(***************************************************************************)
(* The send queue of the server (queue.go, queue_api.go) with the wallet   *)
(* registry it looks wallets up in: tasks added, run by the ticker or on   *)
(* request, removed, and failed when their wallet is deleted; wallets      *)
(* created, unloaded, loaded and deleted in between.                       *)
(*                                                                         *)
(* A runner is the goroutine of the ticker or of a request.  Its step says *)
(* where it stands between two stretches that hold q.mu, the registry's    *)
(* mutex or the engine's.                                                  *)
(***************************************************************************)
EXTENDS Naturals

CONSTANTS
  Task,
  Name,        \* wallet names
  NodeWallet,  \* those the node has a wallet of at first
  Request,     \* goroutines serving requests
  Ticker,      \* the goroutine of runLoop
  Manual,      \* in place of a time, for a task without scheduled_at
  MaxNow,      \* bound on the clock
  MaxLife      \* bound on the wallets created

ASSUME QueueAssumption ==
  /\ NodeWallet \subseteq Name
  /\ Ticker \notin Request
  /\ Manual \notin Nat
  /\ MaxNow \in Nat /\ MaxLife \in Nat

Runner == Request \union {Ticker}
Life   == 1..MaxLife     \* the Wallet objects, numbered as they are made
None   == 0              \* no Wallet

VARIABLES
  now,
  status,   \* QueueTask.Status, "none" before Add
  wallet,   \* QueueTask.Wallet
  at,       \* QueueTask.ScheduledAt
  listed,   \* the tasks in q.tasks
  due,      \* what is left of the slice runDueTasks made
  step,     \* where each runner stands
  job,      \* the task it is at
  name,     \* the name of the wallet it deletes
  obj,      \* the Wallet it has looked up; None when it asks the node
  alive,    \* whether the engine still has that op
  reg,      \* registry: name -> Wallet
  opened,   \* Wallets whose engine handle is open
  lives,    \* Wallets made so far
  node,     \* names the node has a wallet of
  sends     \* node: transactions it took for each task

taskVars   == <<status, wallet, at, listed>>
runVars    == <<step, job, name, obj, alive>>
walletVars == <<reg, opened, lives, node>>
vars == <<now, due, taskVars, runVars, walletVars, sends>>

Status == {"none", "pending", "running", "done", "failed"}

(* Of a runner: nothing; a task checked but not added; a wallet deleted    *)
(* with its tasks not failed yet; about to enter runTask; then ExecuteRecipe. *)
Executing == {"lookup", "open", "op", "request", "answer", "sent", "refused"}
Step == {"idle", "adding", "deleted", "claim"} \union Executing

GoTo(r, s) == step' = [step EXCEPT ![r] = s]

-----------------------------------------------------------------------------
(* Requests on the queue.                                                  *)

(* The wallet is looked up before, and apart from, the task being added.   *)
AddCheck(r, t, n, when) ==
  /\ step[r] = "idle" /\ r # Ticker
  /\ status[t] = "none"
  /\ \A s \in Runner : step[s] = "adding" => job[s] # t
  /\ reg[n] # None \/ n \in node
  /\ GoTo(r, "adding")
  /\ job' = [job EXCEPT ![r] = t]
  /\ wallet' = [wallet EXCEPT ![t] = n]
  /\ at' = [at EXCEPT ![t] = when]
  /\ UNCHANGED <<now, due, status, listed, name, obj, alive, walletVars, sends>>

Add(r) ==
  /\ step[r] = "adding"
  /\ status' = [status EXCEPT ![job[r]] = "pending"]
  /\ listed' = listed \union {job[r]}
  /\ GoTo(r, "idle")
  /\ UNCHANGED <<now, due, wallet, at, job, name, obj, alive, walletVars, sends>>

(* A form that gives it a status nobody knows of. *)
RemoveMarks(t) ==
  /\ t \in listed
  /\ listed' = listed \ {t}
  /\ status' = [status EXCEPT ![t] = "cancelled"]
  /\ UNCHANGED <<now, due, wallet, at, runVars, walletVars, sends>>

(* Whoever holds the task keeps it, and its status stays what it was. *)
Remove(t) ==
  /\ t \in listed
  /\ listed' = listed \ {t}
  /\ UNCHANGED <<now, due, status, wallet, at, runVars, walletVars, sends>>

(* The checks are made under q.mu, which runTask then takes anew. *)
RunNow(r, t) ==
  /\ step[r] = "idle" /\ r # Ticker
  /\ t \in listed
  /\ status[t] = "pending"
  /\ GoTo(r, "claim")
  /\ job' = [job EXCEPT ![r] = t]
  /\ UNCHANGED <<now, due, taskVars, name, obj, alive, walletVars, sends>>

-----------------------------------------------------------------------------
(* The ticker.                                                             *)

Clock ==
  /\ now < MaxNow
  /\ now' = now + 1
  /\ UNCHANGED <<due, taskVars, runVars, walletVars, sends>>

Due(t) == t \in listed /\ status[t] = "pending" /\ at[t] # Manual /\ at[t] <= now

Tick ==
  /\ step[Ticker] = "idle" /\ due = {}
  /\ due' = {t \in Task : Due(t)}
  /\ due' # {}
  /\ UNCHANGED <<now, taskVars, runVars, walletVars, sends>>

(* The slice is sorted by time; the tasks in it may have moved on since. *)
TakeDue(t) ==
  /\ step[Ticker] = "idle"
  /\ t \in due
  /\ \A u \in due : at[t] <= at[u]
  /\ due' = due \ {t}
  /\ GoTo(Ticker, "claim")
  /\ job' = [job EXCEPT ![Ticker] = t]
  /\ UNCHANGED <<now, taskVars, name, obj, alive, walletVars, sends>>

-----------------------------------------------------------------------------
(* runTask and ExecuteRecipe.                                              *)

(* A form that trusts the check its caller made. *)
ClaimBlindly(r) ==
  /\ step[r] = "claim"
  /\ status' = [status EXCEPT ![job[r]] = "running"]
  /\ GoTo(r, "lookup")
  /\ UNCHANGED <<now, due, wallet, at, listed, job, name, obj, alive, walletVars, sends>>

Claim(r) ==
  /\ step[r] = "claim"
  /\ IF status[job[r]] = "pending"
     THEN status' = [status EXCEPT ![job[r]] = "running"] /\ GoTo(r, "lookup")
     ELSE GoTo(r, "idle") /\ UNCHANGED status
  /\ UNCHANGED <<now, due, wallet, at, listed, job, name, obj, alive, walletVars, sends>>

(* A name the registry does not have is taken for a wallet of the node,    *)
(* which is asked to send in one call.                                     *)
Lookup(r) ==
  /\ step[r] = "lookup"
  /\ LET o == reg[wallet[job[r]]] IN
     /\ obj' = [obj EXCEPT ![r] = o]
     /\ GoTo(r, IF o # None THEN "open" ELSE "request")
  /\ alive' = [alive EXCEPT ![r] = TRUE]
  /\ UNCHANGED <<now, due, taskVars, job, name, walletVars, sends>>

(* After a sync of the chain, the op is opened, unless the Wallet is not   *)
(* loaded or its handle has been closed by its deletion.                   *)
OpenOp(r) ==
  /\ step[r] = "open"
  /\ GoTo(r, IF obj[r] \in opened THEN "op" ELSE "refused")
  /\ UNCHANGED <<now, due, taskVars, job, name, obj, alive, walletVars, sends>>

(* Fees, selection and signing may fail; the engine then hands out the     *)
(* sendrawtransaction request.                                             *)
Build(r) ==
  /\ step[r] = "op"
  /\ GoTo(r, "refused") \/ (alive[r] /\ GoTo(r, "request"))
  /\ UNCHANGED <<now, due, taskVars, job, name, obj, alive, walletVars, sends>>

NodeTakes(r) ==
  LET t == job[r] IN
  /\ step[r] = "request"
  /\ obj[r] = None => wallet[t] \in node
  /\ sends' = [sends EXCEPT ![t] = @ + 1]
  /\ GoTo(r, "answer")
  /\ UNCHANGED <<now, due, taskVars, job, name, obj, alive, walletVars>>

(* A form that overlooks the error. *)
NodeRefusesUnseen(r) ==
  /\ step[r] = "request"
  /\ GoTo(r, "sent")
  /\ UNCHANGED <<now, due, taskVars, job, name, obj, alive, walletVars, sends>>

(* It refuses, or the call fails before it gets there. *)
NodeRefuses(r) ==
  /\ step[r] = "request"
  /\ GoTo(r, "refused")
  /\ UNCHANGED <<now, due, taskVars, job, name, obj, alive, walletVars, sends>>

(* The answer is lost, or the engine has no op to give it to. *)
Hear(r) ==
  /\ step[r] = "answer"
  /\ GoTo(r, "refused") \/ (alive[r] /\ GoTo(r, "sent"))
  /\ UNCHANGED <<now, due, taskVars, job, name, obj, alive, walletVars, sends>>

(* The locals of the call are gone. *)
Return(r) ==
  /\ GoTo(r, "idle")
  /\ obj' = [obj EXCEPT ![r] = None]
  /\ alive' = [alive EXCEPT ![r] = TRUE]
  /\ UNCHANGED <<now, due, wallet, at, listed, job, name, walletVars, sends>>

(* A form that puts a task back that could not be sent. *)
FinishRetries(r) ==
  /\ step[r] \in {"sent", "refused"}
  /\ status' = [status EXCEPT ![job[r]] = IF step[r] = "sent" THEN "done" ELSE "pending"]
  /\ Return(r)

(* A form that discards the result of a task no longer listed. *)
FinishListed(r) ==
  /\ step[r] \in {"sent", "refused"}
  /\ status' = [status EXCEPT ![job[r]] =
       IF job[r] \notin listed THEN @ ELSE IF step[r] = "sent" THEN "done" ELSE "failed"]
  /\ Return(r)

Finish(r) ==
  /\ step[r] \in {"sent", "refused"}
  /\ status' = [status EXCEPT ![job[r]] = IF step[r] = "sent" THEN "done" ELSE "failed"]
  /\ Return(r)

-----------------------------------------------------------------------------
(* Wallets.                                                                *)

Create(n) ==
  /\ reg[n] = None
  /\ lives < MaxLife
  /\ lives' = lives + 1
  /\ reg' = [reg EXCEPT ![n] = lives + 1]
  /\ opened' = opened \union {lives + 1}
  /\ UNCHANGED <<now, due, taskVars, runVars, node, sends>>

(* oyo_wallet_close, which erases the ops opened on the handle. *)
Close(o) ==
  /\ opened' = opened \ {o}
  /\ alive' = [r \in Runner |->
                 alive[r] /\ ~(obj[r] = o /\ step[r] \in {"op", "request", "answer"})]

Unload(n) ==
  /\ reg[n] \in opened
  /\ Close(reg[n])
  /\ UNCHANGED <<now, due, taskVars, step, job, name, obj, reg, lives, node, sends>>

Load(n) ==
  /\ reg[n] # None
  /\ reg[n] \notin opened
  /\ opened' = opened \union {reg[n]}
  /\ UNCHANGED <<now, due, taskVars, runVars, reg, lives, node, sends>>

(* The tasks are failed after the Wallet has left the registry. *)
Delete(r, n) ==
  /\ step[r] = "idle" /\ r # Ticker
  /\ reg[n] # None
  /\ Close(reg[n])
  /\ reg' = [reg EXCEPT ![n] = None]
  /\ GoTo(r, "deleted")
  /\ name' = [name EXCEPT ![r] = n]
  /\ UNCHANGED <<now, due, taskVars, job, obj, lives, node, sends>>

(* A name the registry does not have: the node deletes its wallet of it. *)
DeleteNodeWallet(r, n) ==
  /\ step[r] = "idle" /\ r # Ticker
  /\ reg[n] = None
  /\ n \in node
  /\ node' = node \ {n}
  /\ GoTo(r, "deleted")
  /\ name' = [name EXCEPT ![r] = n]
  /\ UNCHANGED <<now, due, taskVars, job, obj, alive, reg, opened, lives, sends>>

(* A form that fails every task of the wallet. *)
FailWalletTasksAll(r) ==
  /\ step[r] = "deleted"
  /\ status' = [t \in Task |->
       IF t \in listed /\ wallet[t] = name[r] THEN "failed" ELSE status[t]]
  /\ GoTo(r, "idle")
  /\ UNCHANGED <<now, due, wallet, at, listed, job, name, obj, alive, walletVars, sends>>

FailWalletTasks(r) ==
  /\ step[r] = "deleted"
  /\ status' = [t \in Task |->
       IF t \in listed /\ wallet[t] = name[r] /\ status[t] \in {"pending", "running"}
       THEN "failed" ELSE status[t]]
  /\ GoTo(r, "idle")
  /\ UNCHANGED <<now, due, wallet, at, listed, job, name, obj, alive, walletVars, sends>>

-----------------------------------------------------------------------------

Init ==
  /\ now = 0
  /\ status = [t \in Task |-> "none"]
  /\ wallet \in [Task -> Name]
  /\ at = [t \in Task |-> Manual]
  /\ listed = {}
  /\ due = {}
  /\ step = [r \in Runner |-> "idle"]
  /\ job \in [Runner -> Task]
  /\ name \in [Runner -> Name]
  /\ obj = [r \in Runner |-> None]
  /\ alive = [r \in Runner |-> TRUE]
  /\ reg = [n \in Name |-> None]
  /\ opened = {}
  /\ lives = 0
  /\ node = NodeWallet
  /\ sends = [t \in Task |-> 0]

QueueNext ==
  \/ \E r \in Request, t \in Task, n \in Name, when \in 0..MaxNow \union {Manual} :
       AddCheck(r, t, n, when)
  \/ \E r \in Request, t \in Task : RunNow(r, t)
  \/ \E t \in Task : Remove(t)
  \/ \E r \in Request : Add(r) \/ FailWalletTasks(r)

RunTask(r) ==
  \/ Claim(r) \/ Lookup(r) \/ OpenOp(r) \/ Build(r)
  \/ NodeTakes(r) \/ NodeRefuses(r) \/ Hear(r) \/ Finish(r)

TickerNext == Clock \/ Tick \/ \E t \in Task : TakeDue(t)

WalletNext ==
  \/ \E n \in Name : Create(n) \/ Load(n) \/ Unload(n)
  \/ \E r \in Request, n \in Name : Delete(r, n) \/ DeleteNodeWallet(r, n)

Next == QueueNext \/ TickerNext \/ WalletNext \/ \E r \in Runner : RunTask(r)

Spec == Init /\ [][Next]_vars

(* runLoop ticks for as long as the process lives, and what a runner has   *)
(* begun it goes on with: the RPC client gives up after two minutes.       *)
Fairness ==
  /\ WF_vars(Tick) /\ WF_vars(\E t \in Task : TakeDue(t))
  /\ \A r \in Runner : WF_vars(RunTask(r))

FairSpec == Spec /\ Fairness

-----------------------------------------------------------------------------
(* Properties.                                                             *)

(* Every variable keeps its type. *)
TypeOK ==
  /\ now \in Nat
  /\ status \in [Task -> Status]
  /\ wallet \in [Task -> Name]
  /\ at \in [Task -> Nat \union {Manual}]
  /\ listed \subseteq Task /\ due \subseteq Task
  /\ step \in [Runner -> Step]
  /\ job \in [Runner -> Task]
  /\ name \in [Runner -> Name]
  /\ obj \in [Runner -> Life \union {None}]
  /\ alive \in [Runner -> BOOLEAN]
  /\ reg \in [Name -> Life \union {None}]
  /\ opened \subseteq Life
  /\ lives \in Nat
  /\ node \subseteq Name
  /\ sends \in [Task -> Nat]

(* However the ticker, requests to run it, its removal and the deletion of *)
(* its wallet meet, no task is sent twice.                                 *)
AtMostOnce == \A t \in Task : sends[t] <= 1

(* A task reported done was sent. *)
DoneMeansSent == \A t \in Task : status[t] = "done" => sends[t] = 1

(* A task that is done stays so, also when its wallet is deleted: its      *)
(* outcome is the only record of the transaction.                          *)
DoneStands == [][\A t \in Task : status[t] = "done" => status'[t] = "done"]_vars

(* A task that was started ends as done or failed, and one that is due is  *)
(* started unless somebody takes it away.                                  *)
EveryTaskSettles ==
  \A t \in Task :
    /\ status[t] = "running" ~> status[t] \in {"done", "failed"}
    /\ Due(t) ~> t \notin listed \/ status[t] \in {"done", "failed"}

(* Who holds a task is what the status of it does not always say. *)
Taken(t) == \E r \in Runner : step[r] \in Executing /\ job[r] = t

PhaseOf(t) ==
  IF Taken(t) THEN "taken"
  ELSE IF status[t] = "none" THEN "unborn"
  ELSE IF status[t] = "pending" THEN "waiting" ELSE "over"

Promise == INSTANCE OyoTask WITH phase <- [t \in Task |-> PhaseOf(t)], sent <- sends

(* The queue keeps the promise of OyoTask. *)
KeepsPromise == Promise!Spec

=============================================================================
