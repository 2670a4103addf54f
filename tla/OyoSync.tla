------------------------------- MODULE OyoSync -------------------------------
(***************************************************************************)
(* The chain sync of the engine, RPC by RPC, on the persistent mirror:     *)
(* the walk to the node's tip, the batch it writes the mirror in, undoing  *)
(* blocks in the ring and below it, the journals an undo needs and their   *)
(* pruning, failing calls and writes, and the end of the process anywhere. *)
(*                                                                         *)
(* The hash of a block commits to its ancestors: a block is the sequence   *)
(* of choices that leads to it from the first block, and the empty         *)
(* sequence stands for no block at all.  What is in a block is left out:   *)
(* OyoLedger tells what applying and undoing it does to wallets.           *)
(***************************************************************************)
EXTENDS Integers, Sequences

CONSTANTS
  Choice,          \* what tells two blocks on the same block apart
  First,           \* the block every chain of this network begins with
  RollbackWindow,
  MaxReorgDepth,
  BatchBlocks,     \* kBootstrapBatchBlocks
  MaxPerCall,      \* kMaxBlocksPerSyncCall
  MaxHeight,       \* bound on the chain length
  Env              \* what may go wrong besides: "sink", "loss"

ASSUME SyncAssumption ==
  /\ RollbackWindow \in Nat \ {0} /\ MaxReorgDepth \in Nat \ {0}
  /\ BatchBlocks \in Nat \ {0} /\ MaxPerCall \in Nat \ {0}
  /\ MaxHeight \in Nat
  /\ Env \subseteq {"sink", "loss"}

Height(b) == Len(b) - 1
NoBlock == <<>>

Cut(b, h) == SubSeq(b, 1, h + 1)         \* the block at height h below b
Extends(b, a) == Len(a) <= Len(b) /\ SubSeq(b, 1, Len(a)) = a
Ancestors(b) == {Cut(b, h) : h \in 0..Height(b)}

VARIABLES
  node,    \* node: the block at its tip
  best,    \* node: the greatest height it has had
  raced,   \* whether it has left the chain an operation was walking on
  tip,     \* tip_height and tip_hash
  ring,    \* c.blocks
  hint,    \* node_tip_hint
  done,    \* bootstrap_done
  store,   \* the mirror as committed
  batch,   \* the write batch that is open
  phase,   \* of the sync operation in flight
  start,   \* rollback_start_height
  target,  \* target_height
  walk,    \* walk_hash
  applied  \* blocks_applied

nodeVars == <<node, best, raced>>
opVars   == <<start, target, walk, applied>>
vars == <<nodeVars, tip, ring, hint, done, store, batch, phase, opVars>>

Phase == {"idle", "info", "shrink", "anchor", "hash", "block"}

-----------------------------------------------------------------------------
(* The mirror.  trail: the block trail.  rows: the blocks whose address    *)
(* and spent indexes it has.  logs: those whose journals it has, by which  *)
(* a rollback finds the index rows to delete.  floor: regular_prune_floor. *)

Empty   == [trail |-> {}, rows |-> {}, logs |-> {}, floor |-> 0]
NoBatch == [trail |-> {}, logs |-> {}, floor |-> 0, count |-> 0]

(* BlockTrail::Tip: the highest key. *)
Top(trail) ==
  IF trail = {} THEN NoBlock
  ELSE CHOOSE b \in trail : \A c \in trail : Len(c) <= Len(b)

(* Blocks too deep to be undone get no journal, and journals that have     *)
(* become so are pruned.  The cap on the rows pruned per block is not      *)
(* reached.                                                                *)
Journalled(b) == hint < 0 \/ Height(b) >= hint - MaxReorgDepth

PruneFloor(b) ==
  LET keep == Height(b) - MaxReorgDepth IN
  IF keep > store.floor THEN keep ELSE batch.floor

Feed(b) ==
  [trail |-> batch.trail \union {b},
   logs  |-> IF Journalled(b) THEN batch.logs \union {b} ELSE batch.logs,
   floor |-> PruneFloor(b),
   count |-> batch.count + 1]

Written(s, bt) ==
  [trail |-> {b \in s.trail : \A c \in bt.trail : Len(c) # Len(b)} \union bt.trail,
   rows  |-> s.rows \union bt.trail,
   logs  |-> {b \in s.logs : Height(b) >= bt.floor} \union bt.logs,
   floor |-> IF bt.floor > 0 THEN bt.floor ELSE s.floor]

(* DeleteAbove of the three tables. *)
Truncated(s, h) ==
  [s EXCEPT !.trail = {b \in @ : Height(b) <= h},
            !.rows  = @ \ {b \in s.logs : Height(b) > h},
            !.logs  = {b \in @ : Height(b) <= h}]

BatchTarget == IF done THEN 1 ELSE BatchBlocks

(* A write that fails discards the open batch, with the blocks the tip     *)
(* has come to count while it was open; that there are such blocks needs   *)
(* "loss" in Env.                                                          *)
WriteFails ==
  /\ batch = NoBatch \/ "loss" \in Env
  /\ store' = store
  /\ batch' = NoBatch

-----------------------------------------------------------------------------
(* The node.                                                               *)

(* The block the walk stands on. *)
Stand == IF phase = "block" THEN walk ELSE tip

MoveNode(b) ==
  /\ Height(b) <= MaxHeight
  /\ node' = b
  /\ best' = IF Height(b) > best THEN Height(b) ELSE best
  /\ raced' = (raced \/ (phase \in {"hash", "block"} /\ ~Extends(b, Stand)))
  /\ UNCHANGED <<tip, ring, hint, done, store, batch, phase, opVars>>

NodeMine == \E c \in Choice : MoveNode(Append(node, c))

(* The first block of another branch; more are mined on it.  While the     *)
(* engine is behind, the node keeps to max_reorg_depth, unless "sink" is   *)
(* in Env: blocks deeper than that have been fed without a journal.        *)
NodeReorg ==
  \E h \in 0..(Height(node) - 1), c \in Choice :
    /\ c # node[h + 2]
    /\ "sink" \in Env \/ h >= best - MaxReorgDepth \/ Height(tip) = best
    /\ MoveNode(Append(Cut(node, h), c))

-----------------------------------------------------------------------------
(* The operation.                                                          *)

StartSync ==
  /\ phase = "idle"
  /\ phase' = "info"
  /\ start' = Height(tip)
  /\ applied' = 0
  /\ UNCHANGED <<nodeVars, tip, ring, hint, done, store, batch, target, walk>>

(* A call fails; an open batch stays open. *)
CallFails ==
  /\ phase \in {"info", "anchor", "hash", "block"}
  /\ phase' = "idle"
  /\ UNCHANGED <<nodeVars, tip, ring, hint, done, store, batch, opVars>>

Throw ==
  /\ phase' = "idle"
  /\ UNCHANGED <<tip, ring, hint, done>>

(* FinishSyncOk: the batch is flushed, and the state stamped when the walk  *)
(* first arrives.  Either write may fail.                                  *)
Finish(s, open, synced) ==
  /\ \/ /\ store' = Written(s, open)
        /\ done' = (done \/ synced)
     \/ /\ open = NoBatch \/ "loss" \in Env
        /\ store' = s
        /\ UNCHANGED done
  /\ batch' = NoBatch
  /\ phase' = "idle"

SyncBlockchainInfo ==
  /\ phase = "info"
  /\ target' = Height(node)
  /\ hint' = Height(node)
  /\ IF tip = NoBlock
     THEN phase' = "hash" /\ UNCHANGED <<store, batch, done>>
     ELSE IF tip = node
     THEN Finish(store, batch, TRUE)
     ELSE /\ phase' = IF Height(tip) <= Height(node) THEN "anchor"
                      ELSE IF Height(tip) - Height(node) > MaxReorgDepth THEN "idle"
                      ELSE "shrink"
          /\ UNCHANGED <<store, batch, done>>
  /\ UNCHANGED <<nodeVars, tip, ring, start, walk, applied>>

(* Where RollbackTip goes to. *)
Below == Height(IF ring = <<>> THEN Top(store.trail) ELSE ring[Len(ring)]) - 1

(* A form that goes on at once from whatever block is now the last. *)
AfterRollbackUnanchored(t) ==
  IF phase = "shrink" /\ Height(t) > target THEN "shrink" ELSE "hash"

AfterRollback(t) ==
  IF t = NoBlock THEN "hash"
  ELSE IF phase = "shrink" /\ Height(t) > target THEN "shrink" ELSE "anchor"

(* A form that forgets the open batch, and one without the floor. *)
FlushedNot == store
Flushed == Written(store, batch)

PrunedNever == FALSE
Pruned == Flushed.floor > 0 /\ Below + 1 < Flushed.floor

(* The batch is flushed, then the tip taken off the mirror, which is       *)
(* refused below the pruned journals, and then off the memory.  Either     *)
(* write may fail.                                                         *)
RollbackTip ==
  /\ \/ /\ WriteFails \/ (store' = Flushed /\ batch' = NoBatch)
        /\ Throw
     \/ /\ ~Pruned
        /\ store' = Truncated(Flushed, Below)
        /\ batch' = NoBatch
        /\ tip' = Top(store'.trail)
        /\ ring' = IF tip' = NoBlock THEN <<>> ELSE SubSeq(ring, 1, Len(ring) - 1)
        /\ phase' = AfterRollback(tip')
        /\ UNCHANGED <<hint, done>>
  /\ UNCHANGED <<nodeVars, opVars>>

SyncShrink == phase = "shrink" /\ RollbackTip

(* A form that stops one block too late. *)
TooDeepLate == start >= 0 /\ start - Height(tip) > MaxReorgDepth
TooDeep == start >= 0 /\ start - Height(tip) >= MaxReorgDepth

(* The node's hash at the height of the tip. *)
SyncAnchor ==
  /\ phase = "anchor"
  /\ Height(tip) <= Height(node)
  /\ \/ /\ Cut(node, Height(tip)) = tip
        /\ IF Height(tip) >= target
           THEN Finish(store, batch, TRUE)
           ELSE phase' = "hash" /\ UNCHANGED <<store, batch, done>>
        /\ UNCHANGED <<nodeVars, tip, ring, hint, opVars>>
     \/ /\ Cut(node, Height(tip)) # tip
        /\ TooDeep
        /\ Throw
        /\ UNCHANGED <<nodeVars, store, batch, opVars>>
     \/ /\ Cut(node, Height(tip)) # tip
        /\ ~TooDeep
        /\ RollbackTip

(* The hash at the next height, whatever is below it. *)
SyncNextHash ==
  /\ phase = "hash"
  /\ Height(tip) < Height(node)
  /\ walk' = Cut(node, Height(tip) + 1)
  /\ phase' = "block"
  /\ UNCHANGED <<nodeVars, tip, ring, hint, done, store, batch, start, target, applied>>

RingLate(b) ==
  LET r == Append(ring, b) IN
  IF Len(r) > RollbackWindow + 1 THEN SubSeq(r, 2, Len(r)) ELSE r

Ring(b) ==
  LET r == Append(ring, b) IN
  IF Len(r) > RollbackWindow THEN SubSeq(r, 2, Len(r)) ELSE r

(* ApplyBlock, and on with the walk.  A full batch is written before the   *)
(* block counts as applied: when that fails, or the feeding before it, the *)
(* tip stays.                                                              *)
SyncBlock ==
  LET bt    == Feed(walk)
      full  == bt.count >= BatchTarget
      saved == IF full THEN Written(store, bt) ELSE store
      open  == IF full THEN NoBatch ELSE bt
      last  == Height(walk) >= target
  IN
  /\ phase = "block"
  /\ \/ /\ WriteFails
        /\ Throw
        /\ UNCHANGED applied
     \/ /\ tip' = walk
        /\ ring' = Ring(walk)
        /\ applied' = applied + 1
        /\ IF last \/ applied' >= MaxPerCall
           THEN Finish(saved, open, last)
           ELSE /\ phase' = "hash"
                /\ store' = saved /\ batch' = open
                /\ UNCHANGED done
        /\ UNCHANGED hint
  /\ UNCHANGED <<nodeVars, start, target, walk>>

-----------------------------------------------------------------------------
(* The process.                                                            *)

(* oyo_chain_open on what is committed. *)
Restart(s) ==
  /\ store' = s
  /\ batch' = NoBatch
  /\ tip' = Top(s.trail)
  /\ ring' = <<>>
  /\ hint' = -1
  /\ phase' = "idle"
  /\ UNCHANGED <<nodeVars, done, opVars>>

Crash == Restart(store)

(* oyo_chain_close: the batch is flushed. *)
Shutdown == batch # NoBatch /\ Restart(Written(store, batch))

-----------------------------------------------------------------------------

Init ==
  /\ node = <<First>> /\ best = 0 /\ raced = FALSE
  /\ tip = NoBlock /\ ring = <<>> /\ hint = -1 /\ done = FALSE
  /\ store = Empty /\ batch = NoBatch
  /\ phase = "idle"
  /\ start = -1 /\ target = -1 /\ walk = NoBlock /\ applied = 0

NodeNext == NodeMine \/ NodeReorg

SyncNext ==
  \/ StartSync \/ CallFails
  \/ SyncBlockchainInfo \/ SyncShrink \/ SyncAnchor \/ SyncNextHash \/ SyncBlock

Next == NodeNext \/ SyncNext \/ Crash \/ Shutdown

Spec == Init /\ [][Next]_vars

-----------------------------------------------------------------------------
(* Properties.                                                             *)

Block == UNION {[1..n -> Choice \union {First}] : n \in 1..(MaxHeight + 1)}

(* Every variable keeps its type; an open batch is never full. *)
TypeOK ==
  /\ node \in Block
  /\ best \in 0..MaxHeight
  /\ raced \in BOOLEAN /\ done \in BOOLEAN
  /\ tip \in Block \union {NoBlock} /\ walk \in Block \union {NoBlock}
  /\ Len(ring) <= RollbackWindow /\ \A i \in 1..Len(ring) : ring[i] \in Block
  /\ hint \in Int /\ start \in Int /\ target \in Int
  /\ store.trail \subseteq Block /\ store.rows \subseteq Block /\ store.logs \subseteq Block
  /\ store.floor \in Nat
  /\ batch.trail \subseteq Block /\ batch.logs \subseteq batch.trail
  /\ batch.floor \in Nat
  /\ batch.count \in 0..(BatchBlocks - 1)
  /\ phase \in Phase
  /\ applied \in 0..MaxPerCall

(* What the mirror has, counting the open batch. *)
Trail == Written(store, batch).trail

(* Memory and mirror agree, through failing calls and writes, rollbacks    *)
(* and restarts: the mirror, with the open batch, has one block of each    *)
(* height up to the tip, the tip is the last of them, and the ring is its  *)
(* upper end.                                                              *)
StoresAgree ==
  /\ {Height(b) : b \in Trail} = 0..Height(tip)
  /\ \A b, c \in Trail : Len(b) = Len(c) => b = c
  /\ tip = Top(Trail)
  /\ \A i \in 1..Len(ring) :
       ring[i] \in Trail /\ Height(ring[i]) = Height(tip) - (Len(ring) - i)

(* The mirror is one branch, unless the node has left the branch that an   *)
(* operation was walking on.                                               *)
OneBranch == Trail = Ancestors(tip)
OneBranchUnlessRaced == raced \/ OneBranch

(* No operation undoes more than max_reorg_depth blocks. *)
DepthBounded == phase \in {"shrink", "anchor"} => start - Height(tip) <= MaxReorgDepth

(* The mirror keeps the promise of OyoMirror: what readers find in the     *)
(* address and spent indexes are the blocks of the trail, all of them and  *)
(* no other, however deep the node's reorganisations go and wherever the   *)
(* process ends.                                                           *)
AtHeight(h) == CHOOSE b \in store.trail : Height(b) = h
Mirror == INSTANCE OyoMirror WITH
  stack <- [i \in 1..Len(Top(store.trail)) |-> AtHeight(i - 1)],
  rows  <- store.rows
MirrorsAChain == Mirror!Spec

=============================================================================
