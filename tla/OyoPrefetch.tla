----------------------------- MODULE OyoPrefetch -----------------------------
(***************************************************************************)
(* The prefetcher that SyncOnce puts between a sync operation and the      *)
(* node: workers fetch the hashes and blocks of the heights ahead, the     *)
(* operation waits for them, falls back on the node itself, and stops the  *)
(* workers when it ends.  One prefetcher serves one operation.             *)
(*                                                                         *)
(* A block is, as in OyoSync, the sequence of choices that leads to it     *)
(* from the first block.  Every block has one unit of bytes.               *)
(***************************************************************************)
EXTENDS Integers, Sequences, FiniteSets

CONSTANTS
  Worker,
  Start, Target,   \* the heights it was created for
  Ahead,           \* syncPrefetchAhead
  MaxBytes,        \* syncPrefetchMaxBytes
  MaxPerCall,      \* kMaxBlocksPerSyncCall
  MaxHeight,       \* bound on the chain length
  MaxReorgs        \* bound on the reorganisations during the operation

ASSUME PrefetchAssumption ==
  /\ Start \in Nat \ {0} /\ Target \in Nat /\ Start <= Target
  /\ Ahead \in Nat \ {0} /\ MaxBytes \in Nat \ {0} /\ MaxPerCall \in Nat \ {0}
  /\ MaxHeight \in Nat /\ Target <= MaxHeight /\ MaxReorgs \in Nat

Choice == {0, 1}
Height(b) == Len(b) - 1
Cut(b, h) == SubSeq(b, 1, h + 1)
Extends(b, a) == Len(a) <= Len(b) /\ SubSeq(b, 1, Len(a)) = a
NoBlock == <<>>

VARIABLES
  node,      \* node: the block at its tip
  been,      \* the blocks that were its tip since the operation began
  reorgs,    \* how often it has left a branch since then
  entry,     \* the syncPrefetchEntry of each height
  byHeight,  \* the heights that p.byHeight has an entry for
  byHash,    \* the heights whose entry p.byHash has, under its hash
  jobs,      \* p.jobs
  next,      \* p.nextHeight
  bytes,     \* p.bufferedBytes
  stop,      \* whether p.stop is closed
  work,      \* where each worker is, and the height it is at
  at,        \* where the operation is
  goal,      \* target_height of the operation
  walk,      \* the hash it has been given
  walked     \* the block it started from and those it has applied

nodeVars  == <<node, been, reorgs>>
cacheVars == <<entry, byHeight, byHash, jobs, next, bytes>>
opVars    == <<at, goal, walk, walked>>
vars == <<nodeVars, cacheVars, stop, work, opVars>>

-----------------------------------------------------------------------------
(* The node, which is followed as long as the operation runs.              *)

MoveNode(b) ==
  /\ at # "closed"
  /\ Height(b) <= MaxHeight
  /\ node' = b
  /\ been' = been \union {b}
  /\ UNCHANGED <<cacheVars, stop, work, opVars>>

(* The name of a block on a tip is free: only a reorganisation puts two on *)
(* one.                                                                    *)
NodeMine == MoveNode(Append(node, 0)) /\ UNCHANGED reorgs

NodeReorg ==
  \E h \in 0..(Height(node) - 1), c \in Choice :
    /\ c # node[h + 2]
    /\ reorgs < MaxReorgs
    /\ reorgs' = reorgs + 1
    /\ MoveNode(Append(Cut(node, h), c))

-----------------------------------------------------------------------------
(* The entries.  hash and block tell what was fetched, as far as it is     *)
(* still held; done is the closed channel.                                 *)

Entry == [hash |-> NoBlock, block |-> FALSE, err |-> FALSE, done |-> FALSE]

Room(held) == held < Ahead /\ (bytes < MaxBytes \/ held = 0)

(* A form that goes one height too far. *)
WithinPast(h) == h <= Target + 1
Within(h) == h <= Target

(* How many entries scheduleMore adds: as it goes only their number grows. *)
Added(held) ==
  LET fits(n) == Within(next + n - 1) /\ \A i \in 1..n : Room(held + i - 1)
  IN  CHOOSE n \in 0..(Ahead + 1) : fits(n) /\ ~fits(n + 1)

(* scheduleMore.  The channel has room for all of them, see NoneForgotten. *)
Schedule ==
  LET n == Added(Cardinality(byHeight)) IN
  /\ byHeight' = byHeight \union (next..(next + n - 1))
  /\ jobs' = jobs \o [i \in 1..n |-> next + i - 1]
  /\ next' = next + n

(* The bytes once a block has left the window, and a form that forgets to  *)
(* count it off.                                                           *)
ReleasedNot == bytes
Released == IF bytes > 0 THEN bytes - 1 ELSE 0

-----------------------------------------------------------------------------
(* The workers.                                                            *)

(* A form that stops only when it is given a job. *)
ExitOnJob(w) == FALSE /\ UNCHANGED vars
Exit(w) ==
  /\ work[w].pc = "idle"
  /\ stop
  /\ work' = [work EXCEPT ![w] = [pc |-> "exited", h |-> 0]]
  /\ UNCHANGED <<nodeVars, cacheVars, stop, opVars>>

(* A worker that gets a job when it is told to stop may take either; it    *)
(* then fails the job before it goes.                                      *)
TakeJob(w) ==
  /\ work[w].pc = "idle"
  /\ jobs # <<>>
  /\ jobs' = Tail(jobs)
  /\ LET h == Head(jobs) IN
     IF stop
     THEN /\ entry' = [entry EXCEPT ![h].err = TRUE, ![h].done = TRUE]
          /\ work' = [work EXCEPT ![w] = [pc |-> "exited", h |-> 0]]
     ELSE /\ work' = [work EXCEPT ![w] = [pc |-> "hash", h |-> h]]
          /\ UNCHANGED entry
  /\ UNCHANGED <<nodeVars, byHeight, byHash, next, bytes, stop, opVars>>

(* fetch returns: the channel of the entry is closed.  A form that leaves  *)
(* it open after an error.                                                 *)
ReturnOpen(w, e) ==
  /\ entry' = [entry EXCEPT ![work[w].h] = [e EXCEPT !.done = ~e.err]]
  /\ work' = [work EXCEPT ![w] = [pc |-> "idle", h |-> 0]]

Return(w, e) ==
  /\ entry' = [entry EXCEPT ![work[w].h] = [e EXCEPT !.done = TRUE]]
  /\ work' = [work EXCEPT ![w] = [pc |-> "idle", h |-> 0]]

(* A form that fetches the next height. *)
FetchedPast(h) == IF h < Height(node) THEN Cut(node, h + 1) ELSE Cut(node, h)
Fetched(h) == Cut(node, h)

FetchHash(w) ==
  LET h == work[w].h IN
  /\ work[w].pc = "hash"
  /\ h <= Height(node)
  /\ entry' = [entry EXCEPT ![h].hash = Fetched(h)]
  /\ byHash' = byHash \union {h}
  /\ work' = [work EXCEPT ![w].pc = "block"]
  /\ UNCHANGED <<nodeVars, byHeight, jobs, next, bytes, stop, opVars>>

FetchBlock(w) ==
  /\ work[w].pc = "block"
  /\ bytes' = bytes + 1
  /\ Return(w, [entry[work[w].h] EXCEPT !.block = TRUE])
  /\ UNCHANGED <<nodeVars, byHeight, byHash, jobs, next, stop, opVars>>

(* Either call fails, or the node has no block at that height. *)
FetchFails(w) ==
  /\ work[w].pc \in {"hash", "block"}
  /\ Return(w, [entry[work[w].h] EXCEPT !.err = TRUE])
  /\ UNCHANGED <<nodeVars, byHeight, byHash, jobs, next, bytes, stop, opVars>>

WorkerNext(w) ==
  Exit(w) \/ TakeJob(w) \/ FetchHash(w) \/ FetchBlock(w) \/ FetchFails(w)

-----------------------------------------------------------------------------
(* The operation, a goroutine of its own.                                  *)

Tip == walked[Len(walked)]
Upcoming == Height(Tip) + 1
Finished == Height(Tip) >= goal \/ Len(walked) > MaxPerCall

GoTo(pc) == at' = pc

(* What comes before the walk goes past the prefetcher: the operation      *)
(* reads the node's height, and undoes blocks until its tip is the node's. *)
Anchor ==
  /\ at = "anchor"
  /\ \E h \in 0..(Start - 1) :
       /\ h <= Height(node)
       /\ walked' = <<Cut(node, h)>>
  /\ goal' = Height(node)
  /\ GoTo("next")
  /\ UNCHANGED <<nodeVars, cacheVars, stop, work, walk>>

(* The deferred Close of SyncOnce: the operation is over, one way or the   *)
(* other.                                                                  *)
Close ==
  /\ GoTo("closed")
  /\ stop' = TRUE
  /\ UNCHANGED <<nodeVars, cacheVars, work, goal, walk, walked>>

Finish == at = "next" /\ Finished /\ Close

(* A call that the node itself was asked fails. *)
CallFails == at \in {"anchor", "askHash", "askBlock"} /\ Close

(* getblockhash of the next height. *)
RequestHash ==
  /\ at = "next"
  /\ ~Finished
  /\ GoTo(IF Upcoming \in byHeight THEN "waitHash" ELSE "askHash")
  /\ UNCHANGED <<nodeVars, cacheVars, stop, work, goal, walk, walked>>

HashReady(e) == e.done /\ ~e.err

Given(b) ==
  /\ walk' = b
  /\ GoTo("block")

(* waitHeight comes to its end, after two seconds if not before. *)
HashArrives ==
  /\ at = "waitHash"
  /\ HashReady(entry[Upcoming])
  /\ Given(entry[Upcoming].hash)
  /\ UNCHANGED <<nodeVars, cacheVars, stop, work, goal, walked>>

(* A form that asks for it once more. *)
HashMissedAgain ==
  /\ at = "waitHash"
  /\ GoTo("next")
  /\ UNCHANGED <<nodeVars, cacheVars, stop, work, goal, walk, walked>>

HashMissed ==
  /\ at = "waitHash"
  /\ GoTo("askHash")
  /\ UNCHANGED <<nodeVars, cacheVars, stop, work, goal, walk, walked>>

AskHash ==
  /\ at = "askHash"
  /\ Upcoming <= Height(node)
  /\ Given(Cut(node, Upcoming))
  /\ UNCHANGED <<nodeVars, cacheVars, stop, work, goal, walked>>

(* getblock of that hash. *)
Holding(b) == {h \in byHash : entry[h].hash = b}

RequestBlock ==
  /\ at = "block"
  /\ GoTo(IF Holding(walk) # {} THEN "waitBlock" ELSE "askBlock")
  /\ UNCHANGED <<nodeVars, cacheVars, stop, work, goal, walk, walked>>

(* SyncBlock of OyoSync, as far as it goes here. *)
Apply(pc) ==
  /\ walked' = Append(walked, walk)
  /\ GoTo(pc)

BlockArrives ==
  /\ at = "waitBlock"
  /\ \E h \in Holding(walk) :
       /\ entry[h].done /\ ~entry[h].err /\ entry[h].block
       /\ entry' = [entry EXCEPT ![h].hash = NoBlock, ![h].block = FALSE]
       /\ byHeight' = byHeight \ {h}
       /\ byHash' = byHash \ {h}
  /\ bytes' = Released
  /\ Apply("schedule")
  /\ UNCHANGED <<nodeVars, jobs, next, stop, work, goal, walk>>

ScheduleMore ==
  /\ at = "schedule"
  /\ Schedule
  /\ GoTo("next")
  /\ UNCHANGED <<nodeVars, entry, byHash, bytes, stop, work, goal, walk, walked>>

BlockMissed ==
  /\ at = "waitBlock"
  /\ GoTo("askBlock")
  /\ UNCHANGED <<nodeVars, cacheVars, stop, work, goal, walk, walked>>

AskBlock ==
  /\ at = "askBlock"
  /\ Apply("next")
  /\ UNCHANGED <<nodeVars, cacheVars, stop, work, goal, walk>>

OpNext ==
  \/ Anchor \/ Finish \/ CallFails
  \/ RequestHash \/ HashArrives \/ HashMissed \/ AskHash
  \/ RequestBlock \/ BlockArrives \/ ScheduleMore \/ BlockMissed \/ AskBlock

-----------------------------------------------------------------------------

(* The engine's tip is at Start - 1, the node's at Target; the first       *)
(* scheduleMore is done.                                                   *)
Window == IF Target - Start < Ahead THEN Target - Start + 1 ELSE Ahead
Trunk == [i \in 1..(Target + 1) |-> 0]

Init ==
  /\ node = Trunk /\ been = {Trunk} /\ reorgs = 0
  /\ entry = [h \in Start..Target |-> Entry]
  /\ byHash = {} /\ bytes = 0
  /\ byHeight = Start..(Start + Window - 1)
  /\ jobs = [i \in 1..Window |-> Start + i - 1]
  /\ next = Start + Window
  /\ stop = FALSE
  /\ work = [w \in Worker |-> [pc |-> "idle", h |-> 0]]
  /\ at = "anchor" /\ goal = -1 /\ walk = NoBlock /\ walked = <<>>

NodeNext == NodeMine \/ NodeReorg

Next == NodeNext \/ OpNext \/ \E w \in Worker : WorkerNext(w)

(* Every call returns or fails, and the runtime runs every goroutine that  *)
(* can go on.  That workers get on is not assumed where the operation      *)
(* waits: the wait is bounded.                                             *)
Fairness == WF_vars(OpNext) /\ \A w \in Worker : WF_vars(WorkerNext(w))

Spec == Init /\ [][Next]_vars /\ Fairness

-----------------------------------------------------------------------------
(* Properties.                                                             *)

Block == UNION {[1..n -> Choice] : n \in 1..(MaxHeight + 1)}
Pc == {"anchor", "next", "waitHash", "askHash", "block", "waitBlock", "askBlock",
       "schedule", "closed"}

(* Every variable keeps its type; bytes never go below zero. *)
TypeOK ==
  /\ node \in Block /\ been \subseteq Block /\ reorgs \in 0..MaxReorgs
  /\ entry \in [Start..Target ->
       [hash : Block \union {NoBlock}, block : BOOLEAN, err : BOOLEAN, done : BOOLEAN]]
  /\ byHeight \subseteq Start..Target /\ byHash \subseteq Start..Target
  /\ jobs \in Seq(Start..Target) /\ next \in Start..(Target + 1)
  /\ bytes \in Nat /\ stop \in BOOLEAN
  /\ work \in [Worker -> [pc : {"idle", "hash", "block", "exited"}, h : 0..Target]]
  /\ at \in Pc /\ goal \in Int
  /\ walk \in Block \union {NoBlock} /\ walked \in Seq(Block)

(* Whatever the workers fetch ahead, in whatever order, and whenever a     *)
(* wait ends: each block the operation applies is of the height it asked   *)
(* for, and of a chain that was the node's while the operation ran.        *)
AnswersAreNodes ==
  \A i \in 1..Len(walked) :
    /\ Height(walked[i]) = Height(walked[1]) + i - 1
    /\ \E b \in been : Extends(b, walked[i])

(* No height is forgotten or fetched twice: until its entry is done it is  *)
(* in the channel once, or with one worker.  The channel never has to hold *)
(* more than it can, so that scheduleMore does not block the operation.    *)
Queued(h) == {i \in 1..Len(jobs) : jobs[i] = h}
Carrying(h) == {w \in Worker : work[w].h = h}
NoneForgotten ==
  /\ \A h \in Start..Target :
       Cardinality(Queued(h)) + Cardinality(Carrying(h))
         = IF h < next /\ ~entry[h].done THEN 1 ELSE 0
  /\ Len(jobs) <= Ahead

(* The two indexes and the count of bytes agree, through timeouts, errors  *)
(* and blocks asked for directly, and the window keeps to its bound.       *)
WindowExact ==
  /\ byHash \subseteq byHeight
  /\ Cardinality(byHeight) <= Ahead
  /\ bytes = Cardinality({h \in byHeight : entry[h].block})

(* The operation ends, though calls time out or fail. *)
SyncEnds == <>(at = "closed")

(* No worker outlives the operation for good. *)
WorkersGo == <>(\A w \in Worker : work[w].pc = "exited")

=============================================================================
