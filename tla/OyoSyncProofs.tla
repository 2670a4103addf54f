--------------------------- MODULE OyoSyncProofs ---------------------------
(***************************************************************************)
(* What holds of OyoSync for every network, window, depth, batch and       *)
(* length of chain: memory and mirror agree, no operation undoes more than *)
(* max_reorg_depth, and the mirror is one branch unless the node left the  *)
(* walk.  At the end, the rows its readers find.                           *)
(*                                                                         *)
(* Stacks of blocks come first, then what a write, a rollback and a block  *)
(* make of the mirror and its batch, then the operation.                   *)
(***************************************************************************)
EXTENDS OyoSync, SequenceTheorems, TLAPS

Item   == Choice \union {First}
Chain  == Block \union {NoBlock}

-----------------------------------------------------------------------------
(* Blocks.                                                                 *)

(* A block is a sequence, and its height one less than its length. *)
LEMMA BlockSeq ==
  /\ \A b \in Block : b \in Seq(Item) /\ Len(b) \in 1..(MaxHeight + 1)
  /\ \A b \in Seq(Item) : Len(b) \in 1..(MaxHeight + 1) => b \in Block
  /\ NoBlock \in Seq(Item) /\ Len(NoBlock) = 0
<1>1. ASSUME NEW b \in Block PROVE b \in Seq(Item) /\ Len(b) \in 1..(MaxHeight + 1)
  <2>1. PICK n \in 1..(MaxHeight + 1) : b \in [1..n -> Item]
    BY DEF Block, Item
  <2>2. n \in Nat
    BY SyncAssumption
  <2> QED BY <2>1, <2>2, SeqDef, LenProperties
<1>2. ASSUME NEW b \in Seq(Item), Len(b) \in 1..(MaxHeight + 1) PROVE b \in Block
  <2>1. b \in [1..Len(b) -> Item]
    BY LenProperties
  <2> QED BY <2>1, <1>2 DEF Block, Item
<1> QED BY <1>1, <1>2 DEF NoBlock

LEMMA ChainLen ==
  ASSUME NEW b \in Chain
  PROVE /\ b \in Seq(Item) /\ Len(b) \in Nat /\ Len(b) <= MaxHeight + 1
        /\ Len(b) = 0 <=> b = NoBlock
        /\ b \in Block <=> b # NoBlock
<1>1. b \in Seq(Item) /\ Len(b) \in Nat /\ Len(b) <= MaxHeight + 1
  <2>1. CASE b \in Block
    <3>1. b \in Seq(Item) /\ Len(b) \in 1..(MaxHeight + 1)
      BY <2>1, BlockSeq
    <3> QED BY <3>1, SyncAssumption
  <2>2. CASE b = NoBlock
    BY <2>2, BlockSeq, SyncAssumption
  <2> QED BY <2>1, <2>2 DEF Chain
<1>2. Len(b) = 0 <=> b = NoBlock
  BY <1>1, EmptySeq DEF NoBlock
<1>3. b \in Block <=> b # NoBlock
  BY <1>2, BlockSeq DEF Chain
<1> QED BY <1>1, <1>2, <1>3

(* The block at height h below b. *)
LEMMA CutBlock ==
  ASSUME NEW b \in Chain, NEW h \in 0..Height(b)
  PROVE Cut(b, h) \in Block /\ Len(Cut(b, h)) = h + 1 /\ Extends(b, Cut(b, h))
<1>1. b \in Seq(Item) /\ Len(b) \in Nat /\ Len(b) <= MaxHeight + 1 /\ h + 1 \in 1..Len(b)
  BY ChainLen DEF Height
<1>2. Cut(b, h) \in Seq(Item) /\ Len(Cut(b, h)) = h + 1
  <2>1. \A i \in 1..(h + 1) : b[i] \in Item
    BY <1>1, ElementOfSeq
  <2> QED BY <2>1, <1>1, SubSeqProperties, h \in Int DEF Cut
<1>3. Cut(b, h) \in Block
  <2>1. h + 1 \in 1..(MaxHeight + 1)
    BY <1>1, SyncAssumption
  <2> QED BY <1>2, <2>1, BlockSeq
<1> QED BY <1>1, <1>2, <1>3 DEF Extends, Cut

(* Extends by items, in place of SubSeq. *)
LEMMA ExtendsItems ==
  ASSUME NEW a \in Chain, NEW b \in Chain
  PROVE Extends(b, a) <=> Len(a) <= Len(b) /\ \A i \in 1..Len(a) : b[i] = a[i]
<1>1. a \in Seq(Item) /\ b \in Seq(Item) /\ Len(a) \in Nat /\ Len(b) \in Nat
  BY ChainLen
<1> SUFFICES ASSUME Len(a) <= Len(b)
             PROVE SubSeq(b, 1, Len(a)) = a <=> \A i \in 1..Len(a) : b[i] = a[i]
  BY DEF Extends
<1> DEFINE s == SubSeq(b, 1, Len(a))
<1>2. /\ s \in Seq(Item) /\ Len(s) = Len(a)
      /\ \A i \in 1..Len(a) : s[i] = b[i]
  <2>1. \A i \in 1..Len(a) : b[i] \in Item
    BY <1>1, ElementOfSeq
  <2>2. /\ s \in Seq(Item)
        /\ Len(s) = IF 1 <= Len(a) THEN Len(a) - 1 + 1 ELSE 0
        /\ \A i \in 1..(Len(a) - 1 + 1) : s[i] = b[1 + i - 1]
    BY <2>1, <1>1, SubSeqProperties, Len(a) \in Int
  <2>3. ASSUME NEW i \in 1..Len(a) PROVE s[i] = b[i]
    <3>1. 1 + i - 1 = i /\ i \in 1..(Len(a) - 1 + 1)
      BY <1>1
    <3> QED BY <3>1, <2>2
  <2> QED BY <2>2, <2>3, <1>1
<1>3. ASSUME \A i \in 1..Len(a) : b[i] = a[i] PROVE s = a
  <2>1. \A i \in 1..Len(s) : s[i] = a[i]
    BY <1>2, <1>3
  <2> QED BY <2>1, <1>1, <1>2, SeqEqual
<1>4. ASSUME s = a PROVE \A i \in 1..Len(a) : b[i] = a[i]
  BY <1>2, <1>4
<1> QED BY <1>3, <1>4

LEMMA ExtendsOrder ==
  ASSUME NEW a \in Chain, NEW b \in Chain, NEW c \in Chain
  PROVE /\ Extends(a, a)
        /\ Extends(a, b) /\ Extends(b, c) => Extends(a, c)
        /\ Extends(a, b) /\ Extends(a, c) /\ Len(c) <= Len(b) => Extends(b, c)
        /\ Extends(a, b) /\ Len(a) = Len(b) => a = b
        /\ Extends(a, b) => Len(b) <= Len(a)
<1>1. /\ a \in Seq(Item) /\ b \in Seq(Item) /\ c \in Seq(Item)
      /\ Len(a) \in Nat /\ Len(b) \in Nat /\ Len(c) \in Nat
  BY ChainLen
<1>2. Extends(a, a)
  BY ExtendsItems, <1>1
<1>3. Extends(a, b) /\ Extends(b, c) => Extends(a, c)
  BY ExtendsItems, <1>1
<1>4. Extends(a, b) /\ Extends(a, c) /\ Len(c) <= Len(b) => Extends(b, c)
  BY ExtendsItems, <1>1
<1>5. Extends(a, b) /\ Len(a) = Len(b) => a = b
  BY ExtendsItems, <1>1, SeqEqual
<1> QED BY <1>2, <1>3, <1>4, <1>5 DEF Extends

LEMMA ExtendsNothing == ASSUME NEW a \in Chain PROVE Extends(a, NoBlock)
<1>1. NoBlock \in Chain /\ Len(NoBlock) = 0 /\ Len(a) \in Nat
  BY ChainLen DEF Chain, NoBlock
<1> QED BY <1>1, ExtendsItems

(* One more block on b. *)
LEMMA AppendBlock ==
  ASSUME NEW b \in Block, NEW c \in Choice, Height(Append(b, c)) <= MaxHeight
  PROVE Append(b, c) \in Block /\ Len(Append(b, c)) = Len(b) + 1 /\ Extends(Append(b, c), b)
<1>1. b \in Seq(Item) /\ c \in Item /\ Len(b) \in Nat
  BY BlockSeq DEF Item
<1> DEFINE d == Append(b, c)
<1>2. /\ d \in Seq(Item) /\ Len(d) = Len(b) + 1
      /\ \A i \in 1..Len(b) : d[i] = b[i]
  BY <1>1, AppendProperties
<1>3. d \in Block
  <2>1. Len(d) \in 1..(MaxHeight + 1)
    BY <1>1, <1>2, SyncAssumption DEF Height
  <2> QED BY <1>2, <2>1, BlockSeq
<1>4. Extends(d, b)
  <2>1. d \in Chain /\ b \in Chain
    BY <1>3 DEF Chain
  <2>2. Len(b) <= Len(d) /\ \A i \in 1..Len(b) : d[i] = b[i]
    BY <1>1, <1>2
  <2> HIDE DEF d
  <2> QED BY <2>1, <2>2, ExtendsItems
<1> QED BY <1>2, <1>3, <1>4

-----------------------------------------------------------------------------
(* Stacks: one block of each length.                                       *)

Stack(T, lo, hi) ==
  /\ T \subseteq Block
  /\ \A b \in T : Len(b) \in lo..hi
  /\ \A n \in lo..hi : \E b \in T : Len(b) = n
  /\ \A b, c \in T : Len(b) = Len(c) => b = c

LEMMA StackTop ==
  ASSUME NEW T, NEW n \in Nat, Stack(T, 1, n)
  PROVE /\ Top(T) \in Chain /\ Len(Top(T)) = n
        /\ n > 0 => Top(T) \in T
        /\ \A b \in T : Len(b) <= n /\ (Len(b) = n => b = Top(T))
        /\ n = 0 => T = {}
<1>1. CASE n = 0
  <2>1. T = {}
    BY <1>1 DEF Stack
  <2> QED BY <1>1, <2>1, ChainLen DEF Top, Chain
<1>2. CASE n > 0
  <2>1. PICK b \in T : Len(b) = n
    BY <1>2 DEF Stack
  <2>2. \A c \in T : Len(c) \in Nat /\ Len(c) <= n
    BY DEF Stack
  <2>3. \A c \in T : Len(c) <= Len(b)
    BY <2>1, <2>2
  <2>4. Top(T) \in T /\ \A c \in T : Len(c) <= Len(Top(T))
    BY <2>1, <2>3 DEF Top
  <2>5. Len(Top(T)) = n
    BY <2>1, <2>2, <2>4
  <2> QED BY <1>2, <2>2, <2>4, <2>5 DEF Stack, Chain
<1> QED BY <1>1, <1>2

LEMMA StackNone == ASSUME NEW n \in Nat PROVE Stack({}, n + 1, n)
BY DEF Stack

LEMMA StackUnion ==
  ASSUME NEW S, NEW T, NEW m \in Nat, NEW n \in Nat, m <= n,
         Stack(S, 1, m), Stack(T, m + 1, n)
  PROVE Stack(S \union T, 1, n)
<1>1. \A b \in S : Len(b) \in 1..m
  BY DEF Stack
<1>2. \A b \in T : Len(b) \in (m + 1)..n
  BY DEF Stack
<1>3. \A k \in 1..n : \E b \in S \union T : Len(b) = k
  <2> SUFFICES ASSUME NEW k \in 1..n PROVE \E b \in S \union T : Len(b) = k
    OBVIOUS
  <2>1. CASE k <= m
    BY <2>1 DEF Stack
  <2>2. CASE k > m
    BY <2>2 DEF Stack
  <2> QED BY <2>1, <2>2
<1>4. \A b \in S \union T : Len(b) \in 1..n
  BY <1>1, <1>2
<1>5. \A b, c \in S \union T : Len(b) = Len(c) => b = c
  BY <1>1, <1>2 DEF Stack
<1> QED BY <1>3, <1>4, <1>5 DEF Stack

LEMMA StackAdd ==
  ASSUME NEW T, NEW m \in Nat, NEW n \in Nat, m <= n, Stack(T, m + 1, n),
         NEW b \in Block, Len(b) = n + 1
  PROVE Stack(T \union {b}, m + 1, n + 1)
<1>1. \A c \in T : Len(c) \in (m + 1)..n
  BY DEF Stack
<1>2. \A k \in (m + 1)..(n + 1) : \E c \in T \union {b} : Len(c) = k
  <2> SUFFICES ASSUME NEW k \in (m + 1)..(n + 1) PROVE \E c \in T \union {b} : Len(c) = k
    OBVIOUS
  <2>1. CASE k = n + 1
    BY <2>1
  <2>2. CASE k # n + 1
    BY <2>2 DEF Stack
  <2> QED BY <2>1, <2>2
<1>3. \A c \in T \union {b} : Len(c) \in (m + 1)..(n + 1)
  BY <1>1
<1>4. \A c, d \in T \union {b} : Len(c) = Len(d) => c = d
  BY <1>1 DEF Stack
<1> QED BY <1>2, <1>3, <1>4 DEF Stack

LEMMA StackLess ==
  ASSUME NEW T, NEW n \in Nat, n > 0, Stack(T, 1, n)
  PROVE Stack({b \in T : Len(b) <= n - 1}, 1, n - 1)
BY DEF Stack

-----------------------------------------------------------------------------
(* The mirror s with the open batch bt, and the tip t that goes with it.   *)

Mirrors == [trail : SUBSET Block, rows : SUBSET Block, logs : SUBSET Block, floor : Nat]
Batches == [trail : SUBSET Block, logs : SUBSET Block, floor : Nat, count : Nat]

Agree(s, bt, t) ==
  /\ s \in Mirrors /\ bt \in Batches /\ t \in Chain
  /\ Top(s.trail) \in Chain
  /\ Len(Top(s.trail)) <= Len(t)
  /\ Stack(s.trail, 1, Len(Top(s.trail)))
  /\ Stack(bt.trail, Len(Top(s.trail)) + 1, Len(t))
  /\ t = Top(s.trail \union bt.trail)

LEMMA NoBatchType == NoBatch \in Batches /\ NoBatch.trail = {} /\ NoBatch.logs = {}
                     /\ NoBatch.floor = 0 /\ NoBatch.count = 0
BY DEF NoBatch, Batches

(* A stack and no batch. *)
LEMMA StackAgrees ==
  ASSUME NEW s \in Mirrors, NEW n \in Nat, Stack(s.trail, 1, n)
  PROVE Agree(s, NoBatch, Top(s.trail)) /\ Len(Top(s.trail)) = n
<1>1. Top(s.trail) \in Chain /\ Len(Top(s.trail)) = n
  BY StackTop
<1>2. s.trail \union NoBatch.trail = s.trail
  BY NoBatchType
<1>3. Stack(NoBatch.trail, n + 1, n)
  BY NoBatchType, StackNone
<1> QED BY <1>1, <1>2, <1>3, NoBatchType DEF Agree

(* The mirror and its batch are one stack. *)
LEMMA AgreeStack ==
  ASSUME NEW s, NEW bt, NEW t, Agree(s, bt, t)
  PROVE Stack(s.trail \union bt.trail, 1, Len(t)) /\ Len(t) \in Nat
<1>1. Len(Top(s.trail)) \in Nat /\ Len(t) \in Nat
  BY ChainLen DEF Agree
<1> QED BY <1>1, StackUnion DEF Agree

(* What is committed can be restarted from. *)
LEMMA DropAgrees ==
  ASSUME NEW s, NEW bt, NEW t, Agree(s, bt, t)
  PROVE Agree(s, NoBatch, Top(s.trail))
<1>1. Len(Top(s.trail)) \in Nat
  BY ChainLen DEF Agree
<1> QED BY <1>1, StackAgrees DEF Agree

(* A write puts the batch on the mirror. *)
LEMMA WrittenAgrees ==
  ASSUME NEW s, NEW bt, NEW t, Agree(s, bt, t)
  PROVE /\ Agree(Written(s, bt), NoBatch, t)
        /\ Written(s, bt).trail = s.trail \union bt.trail
<1> DEFINE w == Written(s, bt)
<1>1. Len(Top(s.trail)) \in Nat /\ Len(t) \in Nat
  BY ChainLen DEF Agree
<1>2. \A b \in s.trail, c \in bt.trail : Len(c) # Len(b)
  <2>1. \A b \in s.trail : Len(b) \in 1..Len(Top(s.trail))
    BY DEF Agree, Stack
  <2>2. \A c \in bt.trail : Len(c) \in (Len(Top(s.trail)) + 1)..Len(t)
    BY DEF Agree, Stack
  <2> QED BY <1>1, <2>1, <2>2
<1>3. w.trail = s.trail \union bt.trail
  <2>1. {b \in s.trail : \A c \in bt.trail : Len(c) # Len(b)} = s.trail
    BY <1>2
  <2> QED BY <2>1 DEF Written
<1>4. w \in Mirrors
  <2>1. s \in Mirrors /\ bt \in Batches
    BY DEF Agree
  <2>2. w.trail \subseteq Block
    BY <1>3, <2>1 DEF Mirrors, Batches
  <2>3. w.rows \subseteq Block /\ w.logs \subseteq Block /\ w.floor \in Nat
    BY <2>1 DEF Written, Mirrors, Batches
  <2>4. w = [trail |-> w.trail, rows |-> w.rows, logs |-> w.logs, floor |-> w.floor]
    BY DEF Written
  <2> HIDE DEF w
  <2> QED BY <2>2, <2>3, <2>4 DEF Mirrors
<1>5. Stack(w.trail, 1, Len(t))
  BY <1>3, AgreeStack
<1>6. t = Top(w.trail)
  BY <1>3 DEF Agree
<1> HIDE DEF w
<1>7. Agree(w, NoBatch, Top(w.trail))
  BY <1>1, <1>4, <1>5, StackAgrees
<1> QED BY <1>3, <1>6, <1>7 DEF w

(* A rollback takes the tip off the mirror. *)
LEMMA TruncatedAgrees ==
  ASSUME NEW s, NEW t, Agree(s, NoBatch, t), t # NoBlock
  PROVE LET u == Truncated(s, Height(t) - 1) IN
        /\ Agree(u, NoBatch, Top(u.trail))
        /\ Len(Top(u.trail)) = Len(t) - 1
        /\ u.trail = s.trail \ {t}
        /\ t \in s.trail
<1> DEFINE u == Truncated(s, Height(t) - 1)
<1>1. Len(t) \in Nat /\ Len(t) > 0
  BY ChainLen DEF Agree
<1>2. t = Top(s.trail) /\ s \in Mirrors
  BY NoBatchType DEF Agree
<1>3. Stack(s.trail, 1, Len(t))
  BY <1>2 DEF Agree
<1>4. u.trail = {b \in s.trail : Len(b) <= Len(t) - 1}
  <2>1. \A b \in s.trail : Len(b) \in Nat
    BY <1>3 DEF Stack
  <2>2. u.trail = {b \in s.trail : Height(b) <= Height(t) - 1}
    BY <1>2 DEF Truncated, Mirrors
  <2> HIDE DEF u
  <2> QED BY <1>1, <2>1, <2>2 DEF Height
<1>5. u \in Mirrors
  BY <1>2 DEF Truncated, Mirrors
<1> HIDE DEF u
<1>6. Stack(u.trail, 1, Len(t) - 1)
  BY <1>1, <1>3, <1>4, StackLess
<1>7. t \in s.trail /\ \A b \in s.trail : Len(b) \in Nat /\ Len(b) <= Len(t) /\ (Len(b) = Len(t) => b = t)
  <2>1. \A b \in s.trail : Len(b) \in 1..Len(t)
    BY <1>3 DEF Stack
  <2> QED BY <1>1, <1>2, <1>3, <2>1, StackTop
<1>8. u.trail = s.trail \ {t}
  BY <1>1, <1>4, <1>7
<1>9. Agree(u, NoBatch, Top(u.trail)) /\ Len(Top(u.trail)) = Len(t) - 1
  BY <1>1, <1>5, <1>6, StackAgrees
<1> QED BY <1>7, <1>8, <1>9 DEF u

(* Feeding a block on the tip puts it in the batch. *)
LEMMA FeedAgrees ==
  ASSUME NEW b \in Block, Agree(store, batch, tip), Len(b) = Len(tip) + 1
  PROVE /\ Agree(store, Feed(b), b)
        /\ Feed(b).trail = batch.trail \union {b}
        /\ Feed(b).count = batch.count + 1
        /\ Feed(b) # NoBatch
<1> DEFINE f == Feed(b)
<1>1. /\ Len(Top(store.trail)) \in Nat /\ Len(tip) \in Nat
      /\ Len(Top(store.trail)) <= Len(tip)
  BY ChainLen DEF Agree
<1>2. store \in Mirrors /\ batch \in Batches
  BY DEF Agree
<1>3. f.trail = batch.trail \union {b} /\ f.count = batch.count + 1
  BY DEF Feed
<1>4. PruneFloor(b) \in Nat
  <2>1. Len(b) \in Nat /\ MaxReorgDepth \in Nat /\ store.floor \in Nat /\ batch.floor \in Nat
    BY <1>1, <1>2, SyncAssumption DEF Mirrors, Batches
  <2> QED BY <2>1 DEF PruneFloor, Height
<1>5. f \in Batches
  <2>1. batch.trail \union {b} \in SUBSET Block /\ batch.count + 1 \in Nat
    BY <1>2 DEF Batches
  <2>2. (IF Journalled(b) THEN batch.logs \union {b} ELSE batch.logs) \in SUBSET Block
    BY <1>2 DEF Batches
  <2> QED BY <1>4, <2>1, <2>2 DEF Feed, Batches
<1>6. Stack(f.trail, Len(Top(store.trail)) + 1, Len(b))
  <2>1. Stack(batch.trail, Len(Top(store.trail)) + 1, Len(tip))
    BY DEF Agree
  <2>2. Stack(batch.trail \union {b}, Len(Top(store.trail)) + 1, Len(tip) + 1)
    BY <1>1, <2>1, StackAdd
  <2> HIDE DEF f
  <2> QED BY <1>3, <2>2
<1>7. b = Top(store.trail \union f.trail)
  <2>1. Stack(store.trail \union f.trail, 1, Len(b))
    BY <1>1, <1>6, StackUnion DEF Agree
  <2>2. b \in store.trail \union f.trail /\ Len(b) \in Nat
    BY <1>1, <1>3
  <2> HIDE DEF f
  <2> QED BY <2>1, <2>2, StackTop
<1>8. f # NoBatch
  <2>1. f.trail # {}
    BY <1>3
  <2> QED BY <2>1, NoBatchType
<1> HIDE DEF f
<1>9. Agree(store, f, b)
  <2>1. b \in Chain
    BY DEF Chain
  <2> QED BY <1>1, <1>2, <1>5, <1>6, <1>7, <2>1 DEF Agree
<1> QED BY <1>3, <1>8, <1>9 DEF f

-----------------------------------------------------------------------------
(* The memory of the engine on the mirror: the ring is the upper end of    *)
(* the stack, and it is not empty while a batch is open.                   *)

Laid(s, bt, t, rg) ==
  /\ Agree(s, bt, t)
  /\ bt.logs \subseteq bt.trail
  /\ rg \in Seq(Block) /\ Len(rg) <= RollbackWindow
  /\ rg = <<>> => bt = NoBatch
  /\ \A i \in 1..Len(rg) :
       rg[i] \in s.trail \union bt.trail /\ Len(rg[i]) = Len(t) - (Len(rg) - i)

(* And the batch is not full. *)
Memory(s, bt, t, rg) == Laid(s, bt, t, rg) /\ bt.count < BatchBlocks

LEMMA WrittenMemory ==
  ASSUME NEW s, NEW bt, NEW t, NEW rg, Laid(s, bt, t, rg)
  PROVE Memory(Written(s, bt), NoBatch, t, rg)
<1>1. Agree(Written(s, bt), NoBatch, t) /\ Written(s, bt).trail = s.trail \union bt.trail
  BY WrittenAgrees DEF Memory, Laid
<1>2. 0 < BatchBlocks
  BY SyncAssumption
<1> QED BY <1>1, <1>2, NoBatchType DEF Memory, Laid

LEMMA RestartedMemory ==
  ASSUME NEW s, NEW bt, NEW t, Agree(s, bt, t)
  PROVE Memory(s, NoBatch, Top(s.trail), <<>>)
<1>1. Agree(s, NoBatch, Top(s.trail))
  BY DropAgrees
<1>2. <<>> \in Seq(Block) /\ Len(<<>>) = 0 /\ Len(<<>>) <= RollbackWindow /\ 0 < BatchBlocks
  BY EmptySeq, SyncAssumption
<1> QED BY <1>1, <1>2, NoBatchType DEF Memory, Laid

(* Where a rollback goes to is one below the tip. *)
LEMMA BelowTip ==
  ASSUME Memory(store, batch, tip, ring), tip # NoBlock
  PROVE Below = Height(tip) - 1
<1>1. CASE ring = <<>>
  <2>1. store.trail \union batch.trail = store.trail
    BY <1>1, NoBatchType DEF Memory, Laid
  <2> QED BY <1>1, <2>1 DEF Memory, Laid, Agree, Below
<1>2. CASE ring # <<>>
  <2>1. Len(ring) \in Nat /\ Len(ring) \in 1..Len(ring)
    BY <1>2, EmptySeq DEF Memory, Laid
  <2>2. Len(ring[Len(ring)]) = Len(tip) - (Len(ring) - Len(ring))
    BY <2>1 DEF Memory, Laid
  <2>3. Len(tip) \in Nat
    BY ChainLen DEF Memory, Laid, Agree
  <2> QED BY <1>2, <2>1, <2>2, <2>3 DEF Below, Height
<1> QED BY <1>1, <1>2

(* The ring without its last block. *)
LEMMA RingShortened ==
  ASSUME NEW s, NEW t, NEW rg, NEW u, Memory(s, NoBatch, t, rg), t # NoBlock,
         u = Truncated(s, Height(t) - 1)
  PROVE Memory(u, NoBatch, Top(u.trail),
               IF Top(u.trail) = NoBlock THEN <<>> ELSE SubSeq(rg, 1, Len(rg) - 1))
<1> DEFINE v == Top(u.trail)
           r == SubSeq(rg, 1, Len(rg) - 1)
<1>1. /\ Agree(u, NoBatch, v) /\ Len(v) = Len(t) - 1
      /\ u.trail = s.trail \ {t} /\ t \in s.trail
  BY TruncatedAgrees DEF Memory, Laid
<1>2. /\ Len(rg) \in Nat /\ Len(t) \in Nat /\ RollbackWindow \in Nat /\ 0 < BatchBlocks
  BY ChainLen, SyncAssumption DEF Memory, Laid, Agree
<1>3. rg \in Seq(Block) /\ \A i \in 1..Len(rg) : rg[i] \in Block
  BY ElementOfSeq DEF Memory, Laid
<1>4. r \in Seq(Block) /\ Len(r) <= RollbackWindow
      /\ \A i \in 1..Len(r) : r[i] \in u.trail /\ Len(r[i]) = Len(v) - (Len(r) - i)
  <2>1. /\ r \in Seq(Block)
        /\ Len(r) = IF 1 <= Len(rg) - 1 THEN Len(rg) - 1 - 1 + 1 ELSE 0
        /\ \A i \in 1..(Len(rg) - 1 - 1 + 1) : r[i] = rg[1 + i - 1]
    <3>1. \A i \in 1..(Len(rg) - 1) : rg[i] \in Block
      BY <1>2, <1>3
    <3> QED BY <3>1, <1>2, SubSeqProperties, 1 \in Int, Len(rg) - 1 \in Int
  <2>0. Len(r) <= RollbackWindow
    <3>1. Len(rg) <= RollbackWindow
      BY DEF Memory, Laid
    <3> HIDE DEF r
    <3> QED BY <1>2, <2>1, <3>1
  <2> SUFFICES ASSUME NEW i \in 1..Len(r)
               PROVE r[i] \in u.trail /\ Len(r[i]) = Len(v) - (Len(r) - i)
    BY <2>0, <2>1
  <2>2. Len(r) = Len(rg) - 1 /\ i \in 1..(Len(rg) - 1) /\ i \in Nat
    BY <1>2, <2>1
  <2>3. r[i] = rg[i]
    <3>1. i \in 1..(Len(rg) - 1 - 1 + 1) /\ 1 + i - 1 = i
      BY <1>2, <2>2
    <3> QED BY <2>1, <3>1
  <2>4. rg[i] \in s.trail /\ Len(rg[i]) = Len(t) - (Len(rg) - i)
    <3>1. i \in 1..Len(rg)
      BY <1>2, <2>2
    <3> QED BY <3>1, NoBatchType DEF Memory, Laid
  <2>5. rg[i] # t
    BY <1>2, <2>2, <2>4
  <2> HIDE DEF r, v
  <2> QED BY <1>1, <1>2, <2>2, <2>3, <2>4, <2>5
<1>5. Memory(u, NoBatch, v, r)
  BY <1>1, <1>2, <1>4, NoBatchType DEF Memory, Laid
<1>6. v = NoBlock => Memory(u, NoBatch, v, <<>>)
  <2>1. Memory(u, NoBatch, Top(u.trail), <<>>)
    BY <1>1, RestartedMemory
  <2> QED BY <2>1
<1> QED BY <1>5, <1>6

(* A block fed and put on the ring. *)
LEMMA RingPushed ==
  ASSUME Memory(store, batch, tip, ring), NEW b \in Block, Len(b) = Len(tip) + 1
  PROVE Laid(store, Feed(b), b, Ring(b))
<1> DEFINE f == Feed(b)
           r == Append(ring, b)
           q == SubSeq(r, 2, Len(r))
<1>1. /\ Agree(store, f, b) /\ f.trail = batch.trail \union {b} /\ f # NoBatch
  BY FeedAgrees DEF Memory, Laid
<1>2. /\ Len(ring) \in Nat /\ Len(tip) \in Nat /\ RollbackWindow \in Nat \ {0}
      /\ ring \in Seq(Block) /\ Len(ring) <= RollbackWindow
  BY ChainLen, SyncAssumption DEF Memory, Laid, Agree
<1>3. f.logs \subseteq f.trail
  BY <1>1 DEF Memory, Laid, Feed
<1>4. /\ r \in Seq(Block) /\ Len(r) = Len(ring) + 1
      /\ \A i \in 1..Len(ring) : r[i] = ring[i]
      /\ r[Len(ring) + 1] = b
  BY <1>2, AppendProperties
<1> HIDE DEF r
<1>5. ASSUME NEW i \in 1..Len(r)
      PROVE r[i] \in store.trail \union f.trail /\ Len(r[i]) = Len(b) - (Len(r) - i)
  <2>1. CASE i = Len(ring) + 1
    BY <1>1, <1>2, <1>4, <2>1
  <2>2. CASE i # Len(ring) + 1
    <3>1. i \in 1..Len(ring)
      BY <1>2, <1>4, <2>2
    <3>2. ring[i] \in store.trail \union batch.trail /\ Len(ring[i]) = Len(tip) - (Len(ring) - i)
      BY <3>1 DEF Memory, Laid
    <3> HIDE DEF f
    <3> QED BY <1>1, <1>2, <1>4, <3>1, <3>2
  <2> QED BY <2>1, <2>2
<1>6. CASE Len(r) > RollbackWindow
  <2>1. /\ q \in Seq(Block) /\ Len(q) = Len(r) - 1
        /\ \A i \in 1..Len(q) : q[i] = r[i + 1]
    <3>1. \A i \in 2..Len(r) : r[i] \in Block
      <4>1. \A i \in 1..Len(r) : r[i] \in Block
        BY <1>4, ElementOfSeq
      <4> QED BY <1>2, <1>4, <4>1
    <3>2. /\ q \in Seq(Block)
          /\ Len(q) = IF 2 <= Len(r) THEN Len(r) - 2 + 1 ELSE 0
          /\ \A i \in 1..(Len(r) - 2 + 1) : q[i] = r[2 + i - 1]
      BY <3>1, <1>2, <1>4, SubSeqProperties, 2 \in Int, Len(r) \in Int
    <3>3. Len(q) = Len(r) - 1
      BY <1>2, <1>4, <1>6, <3>2
    <3> HIDE DEF q
    <3>4. ASSUME NEW i \in 1..Len(q) PROVE q[i] = r[i + 1]
      <4>1. i \in 1..(Len(r) - 2 + 1) /\ 2 + i - 1 = i + 1
        BY <1>2, <1>4, <3>3
      <4> QED BY <3>2, <4>1
    <3> QED BY <3>2, <3>3, <3>4
  <2>2. ASSUME NEW i \in 1..Len(q)
        PROVE q[i] \in store.trail \union f.trail /\ Len(q[i]) = Len(b) - (Len(q) - i)
    <3> HIDE DEF q, f
    <3>1. i + 1 \in 1..Len(r) /\ q[i] = r[i + 1]
      BY <2>1, <1>2, <1>4
    <3>2. r[i + 1] \in store.trail \union f.trail /\ Len(r[i + 1]) = Len(b) - (Len(r) - (i + 1))
      BY <3>1, <1>5
    <3> QED BY <3>1, <3>2, <2>1, <1>2, <1>4
  <2>3. q # <<>> /\ Len(q) <= RollbackWindow
    <3> HIDE DEF q
    <3> QED BY <1>2, <1>4, <1>6, <2>1, EmptySeq
  <2>4. Ring(b) = q
    BY <1>6 DEF Ring, r
  <2> HIDE DEF q, f
  <2>5. Laid(store, f, b, q)
    BY <1>1, <1>3, <2>1, <2>2, <2>3 DEF Memory, Laid, f
  <2> QED BY <2>4, <2>5 DEF f
<1>7. CASE ~(Len(r) > RollbackWindow)
  <2>1. r # <<>> /\ Len(r) <= RollbackWindow
    BY <1>2, <1>4, <1>7, EmptySeq
  <2>2. Ring(b) = r
    BY <1>7 DEF Ring, r
  <2> HIDE DEF f
  <2>3. Laid(store, f, b, r)
    BY <1>1, <1>3, <1>4, <1>5, <2>1 DEF Memory, Laid, f
  <2> QED BY <2>2, <2>3 DEF f
<1> QED BY <1>6, <1>7

-----------------------------------------------------------------------------
(* The operation.  The write of a batch that holds blocks the tip counts   *)
(* does not fail.                                                          *)

NoLoss == "loss" \notin Env

NodeOK ==
  /\ node \in Block /\ best \in 0..MaxHeight /\ Height(node) <= best
  /\ raced \in BOOLEAN

OpOK ==
  /\ done \in BOOLEAN /\ walk \in Chain
  /\ hint \in Int /\ start \in Int /\ target \in Int
  /\ phase \in Phase /\ applied \in 0..MaxPerCall
  /\ phase # "idle" => applied < MaxPerCall

(* Where the operation stands with respect to the tip. *)
Placed ==
  /\ phase = "block" => walk \in Block /\ Len(walk) = Len(tip) + 1
  /\ phase \in {"shrink", "anchor"} => tip # NoBlock
  /\ phase = "info" => start = Height(tip)
  /\ phase = "shrink" => start - target <= MaxReorgDepth /\ Height(tip) > target
  /\ phase = "anchor" => start - Height(tip) <= MaxReorgDepth

SyncInv == NodeOK /\ OpOK /\ Placed /\ Memory(store, batch, tip, ring)

LEMMA TipType == ASSUME SyncInv PROVE tip \in Chain /\ Len(tip) \in Nat /\ Height(tip) \in Int
<1>1. tip \in Chain
  BY DEF SyncInv, Memory, Laid, Agree
<1> QED BY <1>1, ChainLen DEF Height

LEMMA InitSync == Init => SyncInv
<1> SUFFICES ASSUME Init PROVE SyncInv
  OBVIOUS
<1>1. node \in Block /\ Len(node) = 1
  <2>1. node = <<First>> /\ First \in Item
    BY DEF Init, Item
  <2>2. node \in Seq(Item) /\ Len(node) = 1
    BY <2>1
  <2>3. 1 \in 1..(MaxHeight + 1)
    BY SyncAssumption
  <2> QED BY <2>2, <2>3, BlockSeq
<1>2. NodeOK
  <2>1. best = 0 /\ 0 \in 0..MaxHeight
    BY SyncAssumption DEF Init
  <2>2. raced \in BOOLEAN
    BY DEF Init
  <2>3. Height(node) <= best
    BY <1>1, <2>1 DEF Height
  <2> QED BY <1>1, <2>1, <2>2, <2>3 DEF NodeOK
<1>3. OpOK /\ Placed
  <2>1. phase = "idle" /\ walk \in Chain /\ 0 \in 0..MaxPerCall
    BY SyncAssumption DEF Init, Chain
  <2>2. hint \in Int /\ start \in Int /\ target \in Int /\ applied = 0
    BY DEF Init
  <2>3. done \in BOOLEAN
    BY DEF Init
  <2> QED BY <2>1, <2>2, <2>3 DEF OpOK, Placed, Phase
<1>4. Memory(store, batch, tip, ring)
  <2>1. store \in Mirrors /\ store.trail = {}
    BY DEF Init, Empty, Mirrors
  <2>2. Stack(store.trail, 1, 0)
    BY <2>1 DEF Stack
  <2>3. Agree(store, NoBatch, Top(store.trail))
    BY <2>1, <2>2, StackAgrees
  <2>4. Memory(store, NoBatch, Top(store.trail), <<>>)
    BY <2>3, RestartedMemory
  <2> QED BY <2>1, <2>4 DEF Init, Top
<1> QED BY <1>2, <1>3, <1>4 DEF SyncInv

(* The node's steps. *)
LEMMA MoveSync ==
  ASSUME SyncInv, NEW b \in Block, MoveNode(b)
  PROVE SyncInv'
<1>1. /\ node' = b /\ best' = (IF Height(b) > best THEN Height(b) ELSE best)
      /\ raced' \in BOOLEAN
      /\ UNCHANGED <<tip, ring, hint, done, store, batch, phase, start, target, walk, applied>>
  BY DEF MoveNode, opVars, SyncInv, NodeOK
<1>2. Height(b) \in 0..MaxHeight
  BY BlockSeq, SyncAssumption DEF Height, MoveNode
<1>3. NodeOK'
  BY <1>1, <1>2, SyncAssumption DEF SyncInv, NodeOK, Height
<1>4. OpOK' /\ Placed' /\ Memory(store, batch, tip, ring)'
  BY <1>1 DEF SyncInv, OpOK, Placed, Memory, Laid, Agree, Height
<1> QED BY <1>3, <1>4 DEF SyncInv

LEMMA MinedBlock ==
  ASSUME SyncInv, NEW c \in Choice, MoveNode(Append(node, c))
  PROVE Append(node, c) \in Block /\ Extends(Append(node, c), node)
BY AppendBlock DEF SyncInv, NodeOK, MoveNode

LEMMA ForkedBlock ==
  ASSUME SyncInv, NEW c \in Choice, NEW h \in 0..(Height(node) - 1),
         MoveNode(Append(Cut(node, h), c))
  PROVE LET b == Append(Cut(node, h), c) IN
        /\ b \in Block /\ Cut(node, h) \in Block /\ Len(Cut(node, h)) = h + 1
        /\ Extends(node, Cut(node, h)) /\ Extends(b, Cut(node, h))
<1>1. node \in Chain /\ Height(node) \in Int /\ h \in 0..Height(node)
  BY BlockSeq DEF SyncInv, NodeOK, Chain, Height
<1>2. /\ Cut(node, h) \in Block /\ Len(Cut(node, h)) = h + 1
      /\ Extends(node, Cut(node, h))
  BY <1>1, CutBlock
<1> QED BY <1>2, AppendBlock DEF MoveNode

LEMMA NodeSync == ASSUME SyncInv, NodeNext PROVE SyncInv'
<1>1. CASE NodeMine
  BY <1>1, MinedBlock, MoveSync DEF NodeMine
<1>2. CASE NodeReorg
  BY <1>2, ForkedBlock, MoveSync DEF NodeReorg
<1> QED BY <1>1, <1>2 DEF NodeNext

(* What ends an operation with a write. *)
LEMMA FinishMemory ==
  ASSUME NoLoss, NEW s, NEW bt, NEW t, NEW rg, NEW synced \in BOOLEAN, done \in BOOLEAN,
         Memory(s, bt, t, rg), Finish(s, bt, synced), tip' = t, ring' = rg
  PROVE /\ Memory(store, batch, tip, ring)' /\ phase' = "idle" /\ done' \in BOOLEAN
        /\ batch' = NoBatch
        /\ store' = Written(s, bt) \/ (bt = NoBatch /\ store' = s)
<1>1. /\ batch' = NoBatch /\ phase' = "idle" /\ done' \in BOOLEAN
      /\ store' = Written(s, bt) \/ (bt = NoBatch /\ store' = s)
  BY DEF Finish, NoLoss
<1>2. CASE store' = Written(s, bt)
  <2>1. Memory(Written(s, bt), NoBatch, t, rg)
    BY WrittenMemory DEF Memory
  <2> QED BY <1>1, <1>2, <2>1 DEF Memory, Laid, Agree
<1>3. CASE bt = NoBatch /\ store' = s
  BY <1>1, <1>3 DEF Memory, Laid, Agree
<1> QED BY <1>1, <1>2, <1>3

(* A rollback fails and may have flushed the batch, or takes off the tip. *)
LEMMA RollbackMemory ==
  ASSUME NoLoss, SyncInv, RollbackTip, tip # NoBlock
  PROVE /\ Memory(store, batch, tip, ring)' /\ batch' = NoBatch
        /\ UNCHANGED <<nodeVars, opVars, hint, done>>
        /\ \/ /\ phase' = "idle" /\ tip' = tip
              /\ store' = Written(store, batch) \/ (batch = NoBatch /\ store' = store)
           \/ /\ phase' = AfterRollback(tip')
              /\ ~Pruned
              /\ store' = Truncated(Written(store, batch), Height(tip) - 1)
              /\ tip' = Top(store'.trail) /\ Len(tip') = Len(tip) - 1
<1>1. UNCHANGED <<nodeVars, opVars>>
  BY DEF RollbackTip
<1>2. CASE /\ WriteFails \/ (store' = Flushed /\ batch' = NoBatch)
           /\ Throw
  <2>1. /\ batch' = NoBatch /\ phase' = "idle" /\ UNCHANGED <<tip, ring, hint, done>>
        /\ store' = Written(store, batch) \/ (batch = NoBatch /\ store' = store)
    BY <1>2 DEF WriteFails, NoLoss, Flushed, Throw
  <2>2. Memory(Written(store, batch), NoBatch, tip, ring)
    BY WrittenMemory DEF SyncInv, Memory
  <2>3. Memory(store', NoBatch, tip, ring)
    BY <2>1, <2>2 DEF SyncInv
  <2>4. Memory(store, batch, tip, ring)'
    BY <2>1, <2>3 DEF Memory, Laid, Agree
  <2> QED BY <1>1, <2>1, <2>4
<1>3. CASE /\ ~Pruned
           /\ store' = Truncated(Flushed, Below)
           /\ batch' = NoBatch
           /\ tip' = Top(store'.trail)
           /\ ring' = IF tip' = NoBlock THEN <<>> ELSE SubSeq(ring, 1, Len(ring) - 1)
           /\ phase' = AfterRollback(tip')
           /\ UNCHANGED <<hint, done>>
  <2> DEFINE s == Written(store, batch)
             u == Truncated(s, Height(tip) - 1)
  <2>1. store' = u
    BY <1>3, BelowTip DEF SyncInv, Flushed
  <2>2. Memory(s, NoBatch, tip, ring)
    BY WrittenMemory DEF SyncInv, Memory
  <2> HIDE DEF s
  <2>3. Len(Top(u.trail)) = Len(tip) - 1
    BY <2>2, TruncatedAgrees DEF Memory, Laid
  <2>4. Memory(u, NoBatch, Top(u.trail),
               IF Top(u.trail) = NoBlock THEN <<>> ELSE SubSeq(ring, 1, Len(ring) - 1))
    BY <2>2, RingShortened
  <2> HIDE DEF u
  <2>5. Memory(store', NoBatch, tip', ring')
    BY <1>3, <2>1, <2>4
  <2>6. Memory(store, batch, tip, ring)'
    BY <1>3, <2>5 DEF Memory, Laid, Agree
  <2> QED BY <1>1, <1>3, <2>1, <2>3, <2>6 DEF u, s
<1> QED BY <1>2, <1>3 DEF RollbackTip

LEMMA RollbackSync ==
  ASSUME NoLoss, SyncInv, RollbackTip, phase \in {"shrink", "anchor"},
         phase = "anchor" => ~TooDeep
  PROVE SyncInv'
<1>1. tip # NoBlock
  BY DEF SyncInv, Placed
<1>2. /\ Memory(store, batch, tip, ring)'
      /\ UNCHANGED <<nodeVars, opVars, hint, done>>
      /\ \/ phase' = "idle" /\ tip' = tip
         \/ phase' = AfterRollback(tip') /\ Len(tip') = Len(tip) - 1
  BY <1>1, RollbackMemory
<1>3. NodeOK'
  BY <1>2 DEF SyncInv, NodeOK, nodeVars, Height
<1>4. OpOK'
  BY <1>2 DEF SyncInv, OpOK, opVars, AfterRollback, Phase
<1>5. Placed'
  <2>1. CASE phase' = "idle"
    BY <2>1 DEF Placed
  <2>2. CASE phase' = AfterRollback(tip') /\ Len(tip') = Len(tip) - 1
    <3>1. Height(tip') = Height(tip) - 1 /\ Height(tip) \in Int
      BY <2>2, TipType DEF Height
    <3>2. start' = start /\ target' = target /\ start \in Int /\ target \in Int
          /\ MaxReorgDepth \in Nat
      BY <1>2, SyncAssumption DEF opVars, SyncInv, OpOK
    <3>3. CASE phase = "shrink"
      <4>1. start - target <= MaxReorgDepth /\ Height(tip) > target
        BY <3>3 DEF SyncInv, Placed
      <4>2. phase' \in {"hash", "shrink", "anchor"}
            /\ (phase' = "shrink" => tip' # NoBlock /\ Height(tip') > target)
            /\ (phase' = "anchor" => tip' # NoBlock)
        BY <2>2 DEF AfterRollback
      <4>3. start - Height(tip') <= MaxReorgDepth
        BY <3>1, <3>2, <4>1
      <4> QED BY <3>2, <4>1, <4>2, <4>3 DEF Placed, Height
    <3>4. CASE phase = "anchor"
      <4>1. phase' \in {"hash", "anchor"} /\ (phase' = "anchor" => tip' # NoBlock)
        BY <2>2, <3>4 DEF AfterRollback
      <4>2. start < 0 \/ start - Height(tip) < MaxReorgDepth
        BY <3>1, <3>2, <3>4 DEF TooDeep
      <4>3. tip' # NoBlock => Height(tip') >= 0
        <5>1. tip' \in Chain
          BY <1>2 DEF Memory, Laid, Agree
        <5>2. Len(tip') \in Nat /\ (Len(tip') = 0 <=> tip' = NoBlock)
          BY <5>1, ChainLen
        <5> QED BY <5>2 DEF Height
      <4>4. tip' # NoBlock => start - Height(tip') <= MaxReorgDepth
        BY <3>1, <3>2, <4>2, <4>3
      <4> QED BY <3>2, <4>1, <4>4 DEF Placed, Height
    <3> QED BY <3>3, <3>4
  <2> QED BY <1>2, <2>1, <2>2
<1> QED BY <1>2, <1>3, <1>4, <1>5 DEF SyncInv

LEMMA MemoryUnchanged ==
  ASSUME SyncInv, UNCHANGED <<store, batch, tip, ring>>
  PROVE Memory(store, batch, tip, ring)'
BY DEF SyncInv, Memory, Laid, Agree

LEMMA NodeUnchanged == ASSUME SyncInv, UNCHANGED nodeVars PROVE NodeOK'
BY DEF SyncInv, NodeOK, nodeVars, Height

(* The operation's steps that leave mirror and memory alone. *)
LEMMA QuietSync ==
  ASSUME SyncInv, StartSync \/ CallFails \/ SyncNextHash
  PROVE SyncInv'
<1>1. UNCHANGED <<store, batch, tip, ring>> /\ UNCHANGED nodeVars
  BY DEF StartSync, CallFails, SyncNextHash
<1>2. CASE StartSync
  <2>1. phase' = "info" /\ start' = Height(tip) /\ applied' = 0 /\ tip' = tip
        /\ UNCHANGED <<hint, done, target, walk>>
    BY <1>2 DEF StartSync
  <2>2. 0 \in 0..MaxPerCall /\ 0 < MaxPerCall
    BY SyncAssumption
  <2>3. OpOK'
    BY <2>1, <2>2, TipType DEF SyncInv, OpOK, Phase
  <2>4. Placed'
    BY <2>1 DEF Placed, Height
  <2> QED BY <1>1, <2>3, <2>4, MemoryUnchanged, NodeUnchanged DEF SyncInv
<1>3. CASE CallFails
  <2>1. phase' = "idle" /\ UNCHANGED <<hint, done, opVars>>
    BY <1>3 DEF CallFails
  <2>2. OpOK' /\ Placed'
    BY <2>1 DEF SyncInv, OpOK, Placed, Phase, opVars
  <2> QED BY <1>1, <2>2, MemoryUnchanged, NodeUnchanged DEF SyncInv
<1>4. CASE SyncNextHash
  <2>1. /\ phase = "hash" /\ phase' = "block" /\ tip' = tip
        /\ walk' = Cut(node, Height(tip) + 1) /\ Height(tip) < Height(node)
        /\ UNCHANGED <<hint, done, start, target, applied>>
    BY <1>4 DEF SyncNextHash
  <2>2. Height(tip) + 1 \in 0..Height(node) /\ Len(tip) \in Nat
    BY <2>1, TipType, BlockSeq DEF SyncInv, NodeOK, Height
  <2>3. walk' \in Block /\ Len(walk') = Height(tip) + 2 /\ node \in Chain
    <3>1. node \in Chain
      BY DEF SyncInv, NodeOK, Chain
    <3>2. walk' \in Block /\ Len(walk') = Height(tip) + 1 + 1
      BY <2>1, <2>2, <3>1, CutBlock
    <3> QED BY <2>2, <3>1, <3>2 DEF Height
  <2>4. OpOK'
    BY <2>1, <2>3 DEF SyncInv, OpOK, Phase, Chain
  <2>5. Placed'
    <3>1. Len(walk') = Len(tip') + 1
      BY <2>1, <2>2, <2>3 DEF Height
    <3> QED BY <2>1, <2>3, <3>1 DEF Placed
  <2> QED BY <1>1, <2>4, <2>5, MemoryUnchanged, NodeUnchanged DEF SyncInv
<1> QED BY <1>2, <1>3, <1>4

(* A finished operation has nothing to keep to. *)
LEMMA IdleSync ==
  ASSUME SyncInv, phase' = "idle", Memory(store, batch, tip, ring)', UNCHANGED nodeVars,
         done' \in BOOLEAN, hint' \in Int, start' \in Int, target' \in Int,
         walk' = walk, applied' \in 0..MaxPerCall
  PROVE SyncInv'
<1>1. OpOK' /\ Placed'
  BY DEF SyncInv, OpOK, Placed, Phase
<1> QED BY <1>1, NodeUnchanged DEF SyncInv

LEMMA InfoSync == ASSUME NoLoss, SyncInv, SyncBlockchainInfo PROVE SyncInv'
<1>1. /\ phase = "info" /\ target' = Height(node) /\ hint' = Height(node)
      /\ UNCHANGED <<tip, ring, start, walk, applied>> /\ UNCHANGED nodeVars
  BY DEF SyncBlockchainInfo
<1>2. /\ start = Height(tip) /\ start \in Int /\ Height(node) \in Int /\ Height(tip) \in Int
      /\ MaxReorgDepth \in Nat /\ applied \in 0..MaxPerCall /\ applied < MaxPerCall
      /\ done \in BOOLEAN /\ walk \in Chain
  BY <1>1, BlockSeq, TipType, SyncAssumption DEF SyncInv, NodeOK, OpOK, Placed, Height
<1>3. CASE tip # NoBlock /\ tip = node
  <2>1. Finish(store, batch, TRUE)
    BY <1>3 DEF SyncBlockchainInfo
  <2>2. Memory(store, batch, tip, ring)' /\ phase' = "idle" /\ done' \in BOOLEAN
    BY <1>1, <1>2, <2>1, FinishMemory DEF SyncInv
  <2> QED BY <1>1, <1>2, <2>2, IdleSync
<1>4. CASE tip = NoBlock
  <2>1. phase' = "hash" /\ UNCHANGED <<store, batch, done>>
    BY <1>4 DEF SyncBlockchainInfo
  <2>2. OpOK' /\ Placed'
    BY <1>1, <1>2, <2>1 DEF OpOK, Placed, Phase
  <2> QED BY <1>1, <2>1, <2>2, MemoryUnchanged, NodeUnchanged DEF SyncInv
<1>5. CASE tip # NoBlock /\ tip # node
  <2>1. /\ phase' = IF Height(tip) <= Height(node) THEN "anchor"
                    ELSE IF Height(tip) - Height(node) > MaxReorgDepth THEN "idle"
                    ELSE "shrink"
        /\ UNCHANGED <<store, batch, done>>
    BY <1>5 DEF SyncBlockchainInfo
  <2>2. OpOK'
    BY <1>1, <1>2, <2>1 DEF OpOK, Phase
  <2>3. Placed'
    <3>1. phase' = "anchor" => start' - Height(tip') <= MaxReorgDepth
      BY <1>1, <1>2
    <3>2. phase' = "shrink" => Height(tip') > target' /\ start' - target' <= MaxReorgDepth
      BY <1>1, <1>2, <2>1
    <3> QED BY <1>1, <1>5, <2>1, <3>1, <3>2 DEF Placed, Height
  <2> QED BY <1>1, <2>1, <2>2, <2>3, MemoryUnchanged, NodeUnchanged DEF SyncInv
<1> QED BY <1>3, <1>4, <1>5

LEMMA AnchorSync == ASSUME NoLoss, SyncInv, SyncAnchor PROVE SyncInv'
<1>1. phase = "anchor" /\ done \in BOOLEAN /\ applied \in 0..MaxPerCall
      /\ hint \in Int /\ start \in Int /\ target \in Int
  BY DEF SyncAnchor, SyncInv, OpOK
<1>2. CASE /\ Cut(node, Height(tip)) = tip
           /\ IF Height(tip) >= target
              THEN Finish(store, batch, TRUE)
              ELSE phase' = "hash" /\ UNCHANGED <<store, batch, done>>
           /\ UNCHANGED <<nodeVars, tip, ring, hint, opVars>>
  <2>1. CASE Finish(store, batch, TRUE)
    <3>1. Memory(store, batch, tip, ring)' /\ phase' = "idle" /\ done' \in BOOLEAN
      BY <1>1, <1>2, <2>1, FinishMemory DEF SyncInv
    <3> QED BY <1>1, <1>2, <3>1, IdleSync DEF opVars
  <2>2. CASE phase' = "hash" /\ UNCHANGED <<store, batch, done>>
    <3>1. OpOK' /\ Placed'
      BY <1>1, <1>2, <2>2 DEF SyncInv, OpOK, Placed, Phase, opVars
    <3> QED BY <1>2, <2>2, <3>1, MemoryUnchanged, NodeUnchanged DEF SyncInv
  <2> QED BY <1>2, <2>1, <2>2
<1>3. CASE Throw /\ UNCHANGED <<nodeVars, store, batch, opVars>>
  BY <1>1, <1>3, MemoryUnchanged, IdleSync DEF Throw, opVars
<1>4. CASE ~TooDeep /\ RollbackTip
  BY <1>1, <1>4, RollbackSync
<1> QED BY <1>2, <1>3, <1>4 DEF SyncAnchor

(* What SyncBlock makes of mirror and memory. *)
LEMMA BlockMemory ==
  ASSUME NoLoss, SyncInv, SyncBlock
  PROVE /\ Memory(store, batch, tip, ring)' /\ done' \in BOOLEAN
        /\ UNCHANGED <<nodeVars, start, target, walk, hint>>
        /\ walk \in Block /\ Len(walk) = Len(tip) + 1
        /\ \/ /\ phase' = "idle"
              /\ UNCHANGED <<tip, store, batch, applied>>
           \/ /\ tip' = walk /\ applied' = applied + 1 /\ batch' = NoBatch
              /\ store' = Written(store, Feed(walk))
              /\ phase' = "idle" \/ (phase' = "hash" /\ applied' < MaxPerCall)
           \/ /\ tip' = walk /\ applied' = applied + 1 /\ applied' < MaxPerCall
              /\ Height(walk) < target
              /\ store' = store /\ batch' = Feed(walk)
              /\ phase' = "hash"
           \/ /\ tip' = walk /\ applied' = applied + 1 /\ batch' = NoBatch
              /\ store' = Written(Written(store, Feed(walk)), NoBatch)
              /\ phase' = "idle"
<1> DEFINE bt    == Feed(walk)
           full  == bt.count >= BatchTarget
           saved == IF full THEN Written(store, bt) ELSE store
           open  == IF full THEN NoBatch ELSE bt
           last  == Height(walk) >= target
<1>1. /\ phase = "block" /\ walk \in Block /\ Len(walk) = Len(tip) + 1
      /\ Memory(store, batch, tip, ring) /\ done \in BOOLEAN
  BY DEF SyncBlock, SyncInv, Placed, OpOK
<1>2. UNCHANGED <<nodeVars, start, target, walk, hint>>
  BY DEF SyncBlock, Throw
<1>3. CASE WriteFails /\ Throw /\ UNCHANGED applied
  <2>1. UNCHANGED <<store, batch, tip, ring, done, applied>> /\ phase' = "idle"
    BY <1>3 DEF WriteFails, NoLoss, Throw
  <2> QED BY <1>1, <1>2, <2>1, MemoryUnchanged
<1>4. CASE /\ tip' = walk
           /\ ring' = Ring(walk)
           /\ applied' = applied + 1
           /\ IF last \/ applied' >= MaxPerCall
              THEN Finish(saved, open, last)
              ELSE /\ phase' = "hash"
                   /\ store' = saved /\ batch' = open
                   /\ UNCHANGED done
  <2>1. bt.count = batch.count + 1 /\ batch.count \in Nat /\ batch.count < BatchBlocks
        /\ BatchBlocks \in Nat \ {0} /\ BatchTarget <= BatchBlocks
    <3>1. Agree(store, batch, tip) /\ batch.count < BatchBlocks
      BY <1>1 DEF Memory, Laid
    <3>2. bt.count = batch.count + 1
      BY <1>1, <3>1, FeedAgrees
    <3>3. batch.count \in Nat
      BY <3>1 DEF Agree, Batches
    <3> QED BY <3>1, <3>2, <3>3, SyncAssumption DEF BatchTarget
  <2>2. Agree(store, bt, walk) /\ walk \in Chain
    BY <1>1, FeedAgrees DEF Memory, Laid, Agree
  <2>3. ~full => Memory(store, bt, walk, Ring(walk))
    <3> SUFFICES ASSUME ~full PROVE Memory(store, bt, walk, Ring(walk))
      OBVIOUS
    <3>1. bt.count < BatchBlocks
      <4>1. ~(bt.count >= BatchTarget) /\ BatchTarget \in Nat
        BY <2>1 DEF BatchTarget
      <4> HIDE DEF bt
      <4> QED BY <2>1, <4>1
    <3> QED BY <1>1, <3>1, RingPushed DEF Memory, Laid
  <2>4. full => Memory(Written(store, bt), NoBatch, walk, Ring(walk))
    BY <1>1, RingPushed, WrittenMemory
  <2>5. Memory(saved, open, walk, Ring(walk))
    BY <2>3, <2>4
  <2> HIDE DEF bt
  <2>6. CASE last \/ applied' >= MaxPerCall
    <3>1. Finish(saved, open, last) /\ last \in BOOLEAN
      BY <1>4, <2>6
    <3> HIDE DEF last
    <3>2. /\ Memory(store, batch, tip, ring)' /\ phase' = "idle" /\ done' \in BOOLEAN
          /\ batch' = NoBatch
          /\ store' = Written(saved, open) \/ (open = NoBatch /\ store' = saved)
      <4> HIDE DEF saved, open
      <4> QED BY <1>1, <1>4, <2>5, <3>1, FinishMemory
    <3>3. CASE full
      BY <1>1, <1>2, <1>4, <3>2, <3>3 DEF bt
    <3>4. CASE ~full
      <4>1. open = bt /\ saved = store /\ bt # NoBatch
        BY <1>1, <3>4, FeedAgrees DEF Memory, Laid, bt
      <4>2. store' = Written(store, Feed(walk))
        BY <3>2, <4>1 DEF bt
      <4> HIDE DEF saved, open, full
      <4> QED BY <1>1, <1>2, <1>4, <3>2, <4>2
    <3> QED BY <3>3, <3>4
  <2>7. CASE ~(last \/ applied' >= MaxPerCall)
    <3>1. phase' = "hash" /\ store' = saved /\ batch' = open /\ done' = done
      BY <1>4, <2>7
    <3>2. Memory(store, batch, tip, ring)'
      <4>1. Memory(store', batch', tip', ring')
        BY <1>4, <2>5, <3>1
      <4> QED BY <4>1 DEF Memory, Laid, Agree
    <3>3. applied' < MaxPerCall /\ Height(walk) < target
      <4>1. applied \in Nat /\ MaxPerCall \in Nat /\ target \in Int /\ Height(walk) \in Int
        BY <1>1, BlockSeq, SyncAssumption DEF SyncInv, OpOK, Height
      <4> QED BY <1>4, <2>7, <4>1
    <3>4. CASE full
      BY <1>1, <1>2, <1>4, <3>1, <3>2, <3>3, <3>4 DEF bt
    <3>5. CASE ~full
      BY <1>1, <1>2, <1>4, <3>1, <3>2, <3>3, <3>5 DEF bt
    <3> QED BY <3>4, <3>5
  <2> QED BY <2>6, <2>7
<1> QED BY <1>3, <1>4 DEF SyncBlock

LEMMA BlockSync == ASSUME NoLoss, SyncInv, SyncBlock PROVE SyncInv'
<1>1. /\ Memory(store, batch, tip, ring)' /\ done' \in BOOLEAN
      /\ UNCHANGED <<nodeVars, start, target, walk, hint>>
      /\ \/ phase' = "idle" /\ UNCHANGED applied
         \/ phase' = "idle" /\ applied' = applied + 1
         \/ phase' = "hash" /\ applied' = applied + 1 /\ applied' < MaxPerCall
  BY BlockMemory
<1>2. /\ phase = "block" /\ applied \in 0..MaxPerCall /\ applied < MaxPerCall /\ MaxPerCall \in Nat
      /\ hint \in Int /\ start \in Int /\ target \in Int /\ walk \in Chain
  BY SyncAssumption DEF SyncBlock, SyncInv, OpOK
<1>3. applied' \in 0..MaxPerCall
  BY <1>1, <1>2
<1>4. CASE phase' = "idle"
  BY <1>1, <1>2, <1>3, <1>4, IdleSync
<1>5. CASE phase' = "hash" /\ applied' < MaxPerCall
  <2>1. OpOK' /\ Placed'
    BY <1>1, <1>2, <1>3, <1>5 DEF OpOK, Placed, Phase
  <2> QED BY <1>1, <2>1, NodeUnchanged DEF SyncInv
<1> QED BY <1>1, <1>4, <1>5

LEMMA ProcessSync == ASSUME SyncInv, Crash \/ Shutdown PROVE SyncInv'
<1>1. PICK s : Restart(s) /\ (s = store \/ s = Written(store, batch))
  BY DEF Crash, Shutdown
<1>2. Memory(s, NoBatch, Top(s.trail), <<>>)
  <2>1. Agree(store, batch, tip) /\ Agree(Written(store, batch), NoBatch, tip)
    BY WrittenAgrees DEF SyncInv, Memory, Laid
  <2> QED BY <1>1, <2>1, RestartedMemory
<1>3. Memory(store', batch', tip', ring') /\ phase' = "idle" /\ hint' = -1
      /\ UNCHANGED <<nodeVars, done, opVars>>
  BY <1>1, <1>2 DEF Restart
<1>4. Memory(store, batch, tip, ring)'
  BY <1>3 DEF Memory, Laid, Agree
<1>5. hint' \in Int
  BY <1>3
<1> QED BY <1>3, <1>4, <1>5, IdleSync DEF SyncInv, OpOK, opVars

LEMMA SyncStep == ASSUME NoLoss, SyncInv, [Next]_vars PROVE SyncInv'
<1>1. CASE NodeNext
  BY <1>1, NodeSync
<1>2. CASE SyncNext
  <2>1. CASE StartSync \/ CallFails \/ SyncNextHash
    BY <2>1, QuietSync
  <2>2. CASE SyncBlockchainInfo
    BY <2>2, InfoSync
  <2>3. CASE SyncShrink
    BY <2>3, RollbackSync DEF SyncShrink
  <2>4. CASE SyncAnchor
    BY <2>4, AnchorSync
  <2>5. CASE SyncBlock
    BY <2>5, BlockSync
  <2> QED BY <1>2, <2>1, <2>2, <2>3, <2>4, <2>5 DEF SyncNext
<1>3. CASE Crash \/ Shutdown
  BY <1>3, ProcessSync
<1>4. CASE UNCHANGED vars
  BY <1>4, MemoryUnchanged, NodeUnchanged
     DEF vars, nodeVars, opVars, SyncInv, OpOK, Placed, Height
<1> QED BY <1>1, <1>2, <1>3, <1>4 DEF Next

LEMMA SyncInvariant == ASSUME NoLoss PROVE Spec => []SyncInv
<1>1. SyncInv /\ [Next]_vars => SyncInv'
  BY SyncStep
<1> QED BY <1>1, InitSync, PTL DEF Spec

LEMMA SyncTypes == ASSUME SyncInv PROVE TypeOK
<1>1. /\ store \in Mirrors /\ batch \in Batches /\ tip \in Chain
      /\ batch.logs \subseteq batch.trail /\ batch.count < BatchBlocks
      /\ ring \in Seq(Block) /\ Len(ring) <= RollbackWindow
  BY DEF SyncInv, Memory, Laid, Agree
<1>2. \A i \in 1..Len(ring) : ring[i] \in Block
  BY <1>1, ElementOfSeq
<1>3. batch.count \in 0..(BatchBlocks - 1)
  BY <1>1, SyncAssumption DEF Batches
<1>4. /\ store.trail \subseteq Block /\ store.rows \subseteq Block /\ store.logs \subseteq Block
      /\ store.floor \in Nat /\ batch.trail \subseteq Block /\ batch.floor \in Nat
  BY <1>1 DEF Mirrors, Batches
<1>5. NodeOK /\ OpOK
  BY DEF SyncInv
<1> QED BY <1>1, <1>2, <1>3, <1>4, <1>5 DEF TypeOK, NodeOK, OpOK, Chain

LEMMA SyncAgrees == ASSUME SyncInv PROVE StoresAgree
<1>1. Agree(store, batch, tip) /\ Laid(store, batch, tip, ring)
  BY DEF SyncInv, Memory, Laid
<1>2. Trail = store.trail \union batch.trail
  BY <1>1, WrittenAgrees DEF Trail
<1>3. Stack(Trail, 1, Len(tip)) /\ Len(tip) \in Nat
  BY <1>1, <1>2, AgreeStack
<1>4. {Height(b) : b \in Trail} = 0..Height(tip)
  <2>1. ASSUME NEW b \in Trail PROVE Height(b) \in 0..Height(tip)
    <3>1. Len(b) \in 1..Len(tip)
      BY <1>3 DEF Stack
    <3> QED BY <1>3, <3>1 DEF Height
  <2>2. ASSUME NEW h \in 0..Height(tip) PROVE \E b \in Trail : Height(b) = h
    <3>1. h + 1 \in 1..Len(tip)
      BY <1>3 DEF Height
    <3>2. PICK b \in Trail : Len(b) = h + 1
      BY <1>3, <3>1 DEF Stack
    <3> QED BY <3>2 DEF Height
  <2> QED BY <2>1, <2>2
<1>5. \A b, c \in Trail : Len(b) = Len(c) => b = c
  BY <1>3 DEF Stack
<1>6. tip = Top(Trail)
  BY <1>1, <1>2 DEF Agree
<1>7. ASSUME NEW i \in 1..Len(ring)
      PROVE ring[i] \in Trail /\ Height(ring[i]) = Height(tip) - (Len(ring) - i)
  <2>1. ring[i] \in Trail /\ Len(ring[i]) = Len(tip) - (Len(ring) - i)
    BY <1>1, <1>2 DEF Laid
  <2>2. Len(ring) \in Nat /\ i \in Nat
    BY <1>1 DEF Laid
  <2> QED BY <1>3, <2>1, <2>2 DEF Height
<1> QED BY <1>4, <1>5, <1>6, <1>7 DEF StoresAgree

LEMMA SyncDepth == ASSUME SyncInv PROVE DepthBounded
<1>1. /\ start \in Int /\ target \in Int /\ MaxReorgDepth \in Nat /\ Height(tip) \in Int
  BY TipType, SyncAssumption DEF SyncInv, OpOK
<1> QED BY <1>1 DEF SyncInv, Placed, DepthBounded

(* Every variable keeps its type, and no open batch is ever full, if no    *)
(* write fails that would lose blocks the tip counts.                      *)
THEOREM SyncTyped == NoLoss => (Spec => []TypeOK)
<1>1. SyncInv => TypeOK
  BY SyncTypes
<1>2. NoLoss => (Spec => []SyncInv)
  BY SyncInvariant
<1> QED BY <1>1, <1>2, PTL

(* Memory and mirror agree: the stack of blocks in the mirror and its open *)
(* batch has one block of each height up to the tip, and the ring is its   *)
(* upper end, through every reorganisation, failing call and process end.  *)
THEOREM MemoryAndMirrorAgree == NoLoss => (Spec => []StoresAgree)
<1>1. SyncInv => StoresAgree
  BY SyncAgrees
<1>2. NoLoss => (Spec => []SyncInv)
  BY SyncInvariant
<1> QED BY <1>1, <1>2, PTL

(* The two loops that undo blocks keep to max_reorg_depth together.        *)
THEOREM UndoBounded == NoLoss => (Spec => []DepthBounded)
<1>1. SyncInv => DepthBounded
  BY SyncDepth
<1>2. NoLoss => (Spec => []SyncInv)
  BY SyncInvariant
<1> QED BY <1>1, <1>2, PTL

-----------------------------------------------------------------------------
(* The branch the mirror is on.                                            *)

Under(T, t) == \A b \in T : Extends(t, b)

OnBranch ==
  /\ Under(store.trail \union batch.trail, tip)
  /\ phase = "hash" => Extends(node, tip)
  /\ phase = "block" => Extends(node, walk) /\ Extends(walk, tip)

BranchInv == raced \/ OnBranch

LEMMA BranchChains ==
  ASSUME SyncInv
  PROVE /\ tip \in Chain /\ node \in Chain /\ walk \in Chain
        /\ store.trail \union batch.trail \subseteq Chain
        /\ \A b \in store.trail \union batch.trail : Len(b) \in 1..Len(tip)
        /\ tip # NoBlock => tip \in store.trail \union batch.trail
<1>1. Agree(store, batch, tip)
  BY DEF SyncInv, Memory, Laid
<1>2. Stack(store.trail \union batch.trail, 1, Len(tip)) /\ Len(tip) \in Nat
  BY <1>1, AgreeStack
<1>3. tip \in Chain /\ tip = Top(store.trail \union batch.trail)
  BY <1>1 DEF Agree
<1>4. tip # NoBlock => tip \in store.trail \union batch.trail
  BY <1>2, <1>3, StackTop, ChainLen
<1> QED BY <1>2, <1>3, <1>4 DEF SyncInv, NodeOK, OpOK, Stack, Chain

(* What is left of a branch below one of its blocks.                       *)
LEMMA UnderTop ==
  ASSUME NEW T \in SUBSET Chain, NEW t \in Chain, Under(T, t),
         NEW U \in SUBSET T, NEW n \in Nat, Stack(U, 1, n)
  PROVE Under(U, Top(U))
<1>1. Top(U) \in Chain /\ Len(Top(U)) = n
  BY StackTop
<1>2. CASE n = 0
  <2>1. U = {}
    BY <1>2, StackTop
  <2> QED BY <2>1 DEF Under
<1>3. CASE n > 0
  <2>1. Top(U) \in U
    BY <1>3, StackTop
  <2>2. ASSUME NEW b \in U PROVE Extends(Top(U), b)
    <3>1. Len(b) <= Len(Top(U)) /\ b \in Chain
      BY <1>1, StackTop
    <3>2. Extends(t, Top(U)) /\ Extends(t, b)
      BY <2>1 DEF Under
    <3> QED BY <1>1, <3>1, <3>2, ExtendsOrder
  <2> QED BY <2>2 DEF Under
<1> QED BY <1>2, <1>3

LEMMA InitBranch == Init => BranchInv
<1>1. Init => store.trail \union batch.trail = {}
  BY DEF Init, Empty, NoBatch
<1> QED BY <1>1 DEF Init, BranchInv, OnBranch, Under

LEMMA MoveBranch ==
  ASSUME SyncInv, BranchInv, NEW b \in Block, MoveNode(b)
  PROVE BranchInv'
<1>1. /\ node' = b /\ UNCHANGED <<tip, store, batch, phase, walk>>
      /\ raced' = (raced \/ (phase \in {"hash", "block"} /\ ~Extends(b, Stand)))
  BY DEF MoveNode, opVars
<1>2. CASE raced
  BY <1>1, <1>2 DEF BranchInv
<1>3. CASE phase \in {"hash", "block"} /\ ~Extends(b, Stand)
  BY <1>1, <1>3 DEF BranchInv
<1>4. CASE ~raced /\ ~(phase \in {"hash", "block"} /\ ~Extends(b, Stand))
  <2>1. OnBranch
    BY <1>4 DEF BranchInv
  <2>2. phase = "hash" => Extends(b, tip)
    BY <1>4 DEF Stand
  <2>3. phase = "block" => Extends(b, walk)
    BY <1>4 DEF Stand
  <2> QED BY <1>1, <2>1, <2>2, <2>3 DEF BranchInv, OnBranch, Under, Extends
<1> QED BY <1>2, <1>3, <1>4

LEMMA NodeBranch == ASSUME SyncInv, BranchInv, NodeNext PROVE BranchInv'
<1>1. CASE NodeMine
  BY <1>1, MinedBlock, MoveBranch DEF NodeMine
<1>2. CASE NodeReorg
  BY <1>2, ForkedBlock, MoveBranch DEF NodeReorg
<1> QED BY <1>1, <1>2 DEF NodeNext

(* A step after which the operation is not between the hash and the block, *)
(* or stands on the node's chain, and which adds nothing to the stack.     *)
LEMMA KeptBranch ==
  ASSUME OnBranch, UNCHANGED tip, UNCHANGED node,
         store'.trail \union batch'.trail \subseteq store.trail \union batch.trail,
         phase' # "block", phase' = "hash" => Extends(node, tip)
  PROVE BranchInv'
BY DEF OnBranch, BranchInv, Under, Extends

LEMMA WrittenTrail ==
  ASSUME SyncInv
  PROVE /\ Agree(store, batch, tip)
        /\ Written(store, batch).trail = store.trail \union batch.trail
        /\ Agree(Written(store, batch), NoBatch, tip)
BY WrittenAgrees DEF SyncInv, Memory, Laid

(* A smaller stack, from its top. *)
LEMMA LessBranch ==
  ASSUME SyncInv, OnBranch, NEW s, Agree(s, NoBatch, Top(s.trail)),
         s.trail \subseteq store.trail \union batch.trail,
         store' = s, batch' = NoBatch, tip' = Top(s.trail), phase' # "block",
         phase' = "hash" => tip' = NoBlock, node' = node
  PROVE BranchInv'
<1>1. Stack(s.trail, 1, Len(Top(s.trail))) /\ Len(Top(s.trail)) \in Nat
  BY ChainLen DEF Agree
<1>2. Under(s.trail, Top(s.trail))
  BY <1>1, BranchChains, UnderTop DEF OnBranch
<1>3. Under(s.trail \union NoBatch.trail, tip')
  BY <1>2, NoBatchType DEF Under
<1>4. phase' = "hash" => Extends(node, tip')
  BY BranchChains, ExtendsNothing
<1> QED BY <1>3, <1>4 DEF BranchInv, OnBranch, Under, Extends

LEMMA RollbackBranch ==
  ASSUME NoLoss, SyncInv, OnBranch, RollbackTip, tip # NoBlock
  PROVE BranchInv'
<1>1. batch' = NoBatch /\ UNCHANGED nodeVars
  BY RollbackMemory
<1>2. CASE /\ phase' = "idle" /\ tip' = tip
           /\ store' = Written(store, batch) \/ (batch = NoBatch /\ store' = store)
  <2>1. store'.trail \union batch'.trail \subseteq store.trail \union batch.trail
    BY <1>1, <1>2, WrittenTrail, NoBatchType
  <2> QED BY <1>1, <1>2, <2>1, KeptBranch DEF nodeVars
<1>3. CASE /\ phase' = AfterRollback(tip')
           /\ store' = Truncated(Written(store, batch), Height(tip) - 1)
           /\ tip' = Top(store'.trail)
  <2>1. Agree(store', NoBatch, Top(store'.trail))
        /\ store'.trail = Written(store, batch).trail \ {tip}
    BY <1>3, WrittenTrail, TruncatedAgrees
  <2>2. store'.trail \subseteq store.trail \union batch.trail
    BY <2>1, WrittenTrail
  <2>3. phase' # "block" /\ (phase' = "hash" => tip' = NoBlock)
    BY <1>3 DEF AfterRollback
  <2> QED BY <1>1, <1>3, <2>1, <2>2, <2>3, LessBranch DEF nodeVars
<1> QED BY <1>2, <1>3, RollbackMemory

LEMMA FinishTrail ==
  ASSUME NoLoss, SyncInv, NEW synced \in BOOLEAN, Finish(store, batch, synced)
  PROVE /\ store'.trail \union batch'.trail = store.trail \union batch.trail
        /\ phase' = "idle" /\ batch' = NoBatch
<1>1. /\ batch' = NoBatch /\ phase' = "idle"
      /\ store' = Written(store, batch) \/ (batch = NoBatch /\ store' = store)
  BY DEF Finish, NoLoss
<1> QED BY <1>1, WrittenTrail, NoBatchType

LEMMA InfoBranch == ASSUME NoLoss, SyncInv, OnBranch, SyncBlockchainInfo PROVE BranchInv'
<1>1. tip' = tip /\ node' = node
  BY DEF SyncBlockchainInfo, nodeVars
<1>2. CASE Finish(store, batch, TRUE)
  <2>1. store'.trail \union batch'.trail = store.trail \union batch.trail /\ phase' = "idle"
    BY <1>2, FinishTrail
  <2> QED BY <1>1, <2>1, KeptBranch
<1>3. CASE UNCHANGED <<store, batch>> /\ phase' # "block" /\ (phase' = "hash" => tip = NoBlock)
  <2>1. phase' = "hash" => Extends(node, tip)
    BY <1>3, BranchChains, ExtendsNothing
  <2> QED BY <1>1, <1>3, <2>1, KeptBranch
<1> QED BY <1>2, <1>3 DEF SyncBlockchainInfo

LEMMA AnchorBranch == ASSUME NoLoss, SyncInv, OnBranch, SyncAnchor PROVE BranchInv'
<1>1. CASE /\ Cut(node, Height(tip)) = tip
           /\ IF Height(tip) >= target
              THEN Finish(store, batch, TRUE)
              ELSE phase' = "hash" /\ UNCHANGED <<store, batch, done>>
           /\ UNCHANGED <<nodeVars, tip, ring, hint, opVars>>
  <2>1. Extends(node, tip)
    <3>1. /\ tip # NoBlock /\ Height(tip) <= Height(node)
          /\ tip \in Chain /\ node \in Chain /\ node \in Block
      BY BranchChains DEF SyncAnchor, SyncInv, Placed, NodeOK
    <3>2. Len(tip) \in Nat /\ Len(node) \in Nat /\ Len(tip) > 0
      BY <3>1, ChainLen
    <3>3. Height(tip) \in 0..Height(node)
      BY <3>1, <3>2 DEF Height
    <3> QED BY <1>1, <3>1, <3>3, CutBlock
  <2>2. CASE Finish(store, batch, TRUE)
    <3>1. store'.trail \union batch'.trail = store.trail \union batch.trail /\ phase' = "idle"
      BY <2>2, FinishTrail
    <3> QED BY <1>1, <3>1, KeptBranch DEF nodeVars
  <2>3. CASE phase' = "hash" /\ UNCHANGED <<store, batch, done>>
    BY <1>1, <2>1, <2>3, KeptBranch DEF nodeVars
  <2> QED BY <1>1, <2>2, <2>3
<1>2. CASE Throw /\ UNCHANGED <<nodeVars, store, batch, opVars>>
  BY <1>2, KeptBranch DEF Throw, nodeVars
<1>3. CASE RollbackTip
  BY <1>3, RollbackBranch DEF SyncAnchor, SyncInv, Placed
<1> QED BY <1>1, <1>2, <1>3 DEF SyncAnchor

LEMMA HashBranch == ASSUME SyncInv, OnBranch, SyncNextHash PROVE BranchInv'
<1>1. /\ phase = "hash" /\ phase' = "block"
      /\ walk' = Cut(node, Height(tip) + 1) /\ Height(tip) < Height(node)
      /\ UNCHANGED <<node, tip, store, batch>>
  BY DEF SyncNextHash, nodeVars
<1>2. node \in Chain /\ tip \in Chain /\ Len(tip) \in Nat /\ Len(node) \in Nat
  BY BranchChains, ChainLen
<1>3. Height(tip) + 1 \in 0..Height(node)
  BY <1>1, <1>2 DEF Height
<1>4. walk' \in Block /\ Len(walk') = Height(tip) + 1 + 1 /\ Extends(node, walk')
  BY <1>1, <1>2, <1>3, CutBlock
<1>5. Extends(walk', tip)
  <2>1. Len(tip) <= Len(walk') /\ walk' \in Chain
    BY <1>2, <1>4 DEF Height, Chain
  <2>2. Extends(node, tip)
    BY <1>1 DEF OnBranch
  <2> QED BY <1>2, <1>4, <2>1, <2>2, ExtendsOrder
<1> QED BY <1>1, <1>4, <1>5 DEF OnBranch, BranchInv, Under, Extends

LEMMA BlockBranch == ASSUME NoLoss, SyncInv, OnBranch, SyncBlock PROVE BranchInv'
<1>1. UNCHANGED nodeVars /\ walk' = walk /\ walk \in Block /\ Len(walk) = Len(tip) + 1
  BY BlockMemory
<1>2. Extends(node, walk) /\ Extends(walk, tip)
  BY DEF SyncBlock, OnBranch
<1>3. CASE phase' = "idle" /\ UNCHANGED <<tip, store, batch, applied>>
  BY <1>1, <1>3, KeptBranch DEF nodeVars
<1>4. CASE /\ tip' = walk /\ phase' \in {"idle", "hash"}
           /\ store'.trail \union batch'.trail = store.trail \union batch.trail \union {walk}
  <2>1. ASSUME NEW b \in store.trail \union batch.trail \union {walk} PROVE Extends(walk, b)
    <3>1. walk \in Chain /\ tip \in Chain /\ b \in Chain
      BY <1>1, BranchChains DEF Chain
    <3>2. b = walk \/ Extends(tip, b)
      BY DEF OnBranch, Under
    <3> QED BY <1>2, <3>1, <3>2, ExtendsOrder
  <2> QED BY <1>1, <1>2, <1>4, <2>1 DEF nodeVars, BranchInv, OnBranch, Under, Extends
<1> DEFINE f == Feed(walk)
<1> DEFINE w == Written(store, f)
<1> HIDE DEF f, w
<1>5. Agree(store, f, walk) /\ f.trail = batch.trail \union {walk}
  BY <1>1, FeedAgrees DEF SyncInv, Memory, Laid, f
<1>6. /\ Agree(w, NoBatch, walk)
      /\ w.trail = store.trail \union batch.trail \union {walk}
  <2>1. Agree(w, NoBatch, walk) /\ w.trail = store.trail \union f.trail
    BY <1>5, WrittenAgrees DEF w
  <2> QED BY <1>5, <2>1
<1>7. Written(w, NoBatch).trail = store.trail \union batch.trail \union {walk}
  <2>1. Written(w, NoBatch).trail = w.trail \union NoBatch.trail
    BY <1>6, WrittenAgrees
  <2> QED BY <1>6, <2>1, NoBatchType
<1> QED BY <1>3, <1>4, <1>5, <1>6, <1>7, BlockMemory, NoBatchType DEF w, f

LEMMA ProcessBranch == ASSUME SyncInv, OnBranch, Crash \/ Shutdown PROVE BranchInv'
<1>1. PICK s : Restart(s) /\ (s = store \/ s = Written(store, batch))
  BY DEF Crash, Shutdown
<1>2. Agree(s, NoBatch, Top(s.trail)) /\ s.trail \subseteq store.trail \union batch.trail
  BY <1>1, WrittenTrail, DropAgrees
<1>3. /\ store' = s /\ batch' = NoBatch /\ tip' = Top(s.trail) /\ phase' = "idle" /\ node' = node
  BY <1>1 DEF Restart, nodeVars
<1> QED BY <1>2, <1>3, LessBranch

LEMMA BranchStep == ASSUME NoLoss, SyncInv, BranchInv, [Next]_vars PROVE BranchInv'
<1>1. CASE NodeNext
  BY <1>1, NodeBranch
<1>2. CASE raced /\ ~NodeNext
  <2>1. raced' = raced
    BY <1>2 DEF Next, SyncNext, StartSync, CallFails, SyncBlockchainInfo, SyncShrink, SyncAnchor,
                SyncNextHash, SyncBlock, RollbackTip, Crash, Shutdown, Restart, nodeVars, vars
  <2> QED BY <1>2, <2>1 DEF BranchInv
<1>3. CASE OnBranch /\ SyncNext
  <2>1. CASE StartSync \/ CallFails
    <3>1. UNCHANGED <<node, tip, store, batch>> /\ phase' \in {"info", "idle"}
      BY <2>1 DEF StartSync, CallFails, nodeVars
    <3> QED BY <1>3, <3>1, KeptBranch
  <2>2. CASE SyncBlockchainInfo
    BY <1>3, <2>2, InfoBranch
  <2>3. CASE SyncShrink
    BY <1>3, <2>3, RollbackBranch DEF SyncShrink, SyncInv, Placed
  <2>4. CASE SyncAnchor
    BY <1>3, <2>4, AnchorBranch
  <2>5. CASE SyncNextHash
    BY <1>3, <2>5, HashBranch
  <2>6. CASE SyncBlock
    BY <1>3, <2>6, BlockBranch
  <2> QED BY <1>3, <2>1, <2>2, <2>3, <2>4, <2>5, <2>6 DEF SyncNext
<1>4. CASE OnBranch /\ (Crash \/ Shutdown)
  BY <1>4, ProcessBranch
<1>5. CASE UNCHANGED vars
  BY <1>5 DEF vars, nodeVars, opVars, BranchInv, OnBranch, Under, Extends
<1> QED BY <1>1, <1>2, <1>3, <1>4, <1>5 DEF Next, BranchInv

LEMMA BranchKept == ASSUME SyncInv, BranchInv PROVE OneBranchUnlessRaced
<1> SUFFICES ASSUME OnBranch PROVE Trail = Ancestors(tip)
  BY DEF BranchInv, OneBranchUnlessRaced, OneBranch
<1>1. Trail = store.trail \union batch.trail /\ Stack(Trail, 1, Len(tip)) /\ Len(tip) \in Nat
  BY WrittenTrail, AgreeStack DEF Trail
<1>2. tip \in Chain /\ Trail \subseteq Chain
  BY <1>1, BranchChains
<1>3. ASSUME NEW b \in Trail PROVE b \in Ancestors(tip)
  <2>1. Len(b) \in 1..Len(tip) /\ Extends(tip, b)
    BY <1>1 DEF Stack, OnBranch, Under
  <2>2. Height(b) \in 0..Height(tip) /\ Height(b) + 1 = Len(b)
    BY <1>1, <2>1 DEF Height
  <2>3. Cut(tip, Height(b)) = b
    BY <2>1, <2>2 DEF Cut, Extends
  <2> QED BY <2>2, <2>3 DEF Ancestors
<1>4. ASSUME NEW h \in 0..Height(tip) PROVE Cut(tip, h) \in Trail
  <2>1. h + 1 \in 1..Len(tip)
    BY <1>1 DEF Height
  <2>2. PICK b \in Trail : Len(b) = h + 1
    BY <1>1, <2>1 DEF Stack
  <2>3. Extends(tip, b)
    BY <1>1 DEF OnBranch, Under
  <2>4. Cut(tip, h) = b
    BY <2>2, <2>3 DEF Cut, Extends
  <2> QED BY <2>4
<1> QED BY <1>3, <1>4 DEF Ancestors

(* The blocks in the mirror are the ancestors of the tip, unless the node  *)
(* has left the branch an operation was walking on between two calls.      *)
THEOREM BranchUnlessRaced == NoLoss => (Spec => []OneBranchUnlessRaced)
<1> DEFINE I == SyncInv /\ BranchInv
<1>1. Init => I
  BY InitSync, InitBranch
<1>2. NoLoss /\ I /\ [Next]_vars => I'
  BY SyncStep, BranchStep
<1>3. I => OneBranchUnlessRaced
  BY BranchKept
<1>4. ASSUME NoLoss PROVE I /\ [Next]_vars => I'
  BY <1>4, <1>2
<1>5. ASSUME NoLoss PROVE Spec => []OneBranchUnlessRaced
  <2>1. I /\ [Next]_vars => I'
    BY <1>5, <1>2
  <2> QED BY <1>1, <1>3, <2>1, PTL DEF Spec
<1> QED BY <1>5

-----------------------------------------------------------------------------
(***************************************************************************)
(* The mirror keeps the promise of OyoMirror, for every window, depth,     *)
(* batch and length of chain: its readers find the rows of one stack of    *)
(* blocks that changes at its top only.                                    *)
(*                                                                         *)
(* A rollback deletes the rows of a block by the block's journal, so the   *)
(* tip it takes off must have one.  The blocks without a journal are those *)
(* below the pruned floor, where a rollback is refused, and those fed      *)
(* without one, so deep in the node's chain that no rollback reaches them. *)
(***************************************************************************)

(* No write loses blocks the tip counts, and the node's reorganisations    *)
(* keep to max_reorg_depth while the engine is behind.                     *)
NoSink == "sink" \notin Env

-----------------------------------------------------------------------------
(* The invariant, for a mirror s, its batch bt, and the tip t.             *)

(* A block of the node's chain n, deep below the greatest height top, and  *)
(* not above lim.                                                          *)
Safe(n, top, lim, b) ==
  /\ Extends(n, b)
  /\ Height(b) < top - MaxReorgDepth
  /\ Height(b) <= lim

(* Rows for the trail, a floor no lower than the last block may need.      *)
Journals(s, bt, t) ==
  /\ s.rows = s.trail /\ s.logs \subseteq s.trail
  /\ s.floor >= Len(Top(s.trail)) - 1 - MaxReorgDepth
  /\ bt.floor = 0 \/ bt.floor > s.floor
  /\ Written(s, bt).floor >= Len(t) - 1 - MaxReorgDepth

Covered(s, bt, n, top, lim) ==
  /\ \A b \in s.trail \ s.logs : Height(b) < s.floor \/ Safe(n, top, lim, b)
  /\ \A b \in bt.trail \ bt.logs : Safe(n, top, lim, b)

(* The height the shrinking undo stops at.                                 *)
Lim == IF phase = "shrink" THEN target ELSE best

Bounds ==
  /\ hint <= best /\ target <= best
  /\ batch # NoBatch => Height(tip) < best
  /\ phase = "block" /\ Height(walk) < hint - MaxReorgDepth => Extends(node, walk)

PromiseInv ==
  /\ Journals(store, batch, tip)
  /\ Covered(store, batch, node, best, Lim)
  /\ Bounds

-----------------------------------------------------------------------------
(* What writes, rollbacks and blocks make of it.                           *)

LEMMA WrittenFloor ==
  ASSUME NEW s, NEW bt
  PROVE Written(s, bt).floor = IF bt.floor > 0 THEN bt.floor ELSE s.floor
BY DEF Written

LEMMA MirrorTypes ==
  ASSUME NEW s, NEW bt, NEW t, Agree(s, bt, t)
  PROVE /\ s.floor \in Nat /\ bt.floor \in Nat /\ MaxReorgDepth \in Nat
        /\ s.trail \subseteq Block /\ bt.trail \subseteq Block
        /\ s.logs \subseteq Block /\ bt.logs \subseteq Block
        /\ Len(t) \in Nat /\ Len(Top(s.trail)) \in Nat /\ Len(Top(s.trail)) <= Len(t)
        /\ \A b \in Block : Len(b) \in Nat /\ Height(b) \in Nat
<1>1. \A b \in Block : Len(b) \in Nat /\ Height(b) \in Nat
  BY BlockSeq, SyncAssumption DEF Height
<1>2. Len(t) \in Nat /\ Len(Top(s.trail)) \in Nat
  BY ChainLen DEF Agree
<1> QED BY <1>1, <1>2, SyncAssumption DEF Agree, Mirrors, Batches

LEMMA WrittenJournals ==
  ASSUME NEW s, NEW bt, NEW t, Agree(s, bt, t), bt.logs \subseteq bt.trail,
         Journals(s, bt, t)
  PROVE Journals(Written(s, bt), NoBatch, t)
<1> DEFINE w == Written(s, bt)
<1>1. /\ w.trail = s.trail \union bt.trail /\ w.rows = s.rows \union bt.trail
      /\ w.logs = {b \in s.logs : Height(b) >= bt.floor} \union bt.logs
  BY WrittenAgrees DEF Written
<1>2. Top(w.trail) = t
  BY <1>1 DEF Agree
<1>3. w.floor \in Nat /\ w.floor >= Len(t) - 1 - MaxReorgDepth
  BY MirrorTypes, WrittenFloor DEF Journals
<1> HIDE DEF w
<1>4. Written(w, NoBatch).floor = w.floor
  BY WrittenFloor, NoBatchType
<1>5. w.rows = w.trail /\ w.logs \subseteq w.trail
  BY <1>1 DEF Journals
<1>6. NoBatch.floor = 0
  BY NoBatchType
<1> QED BY <1>2, <1>3, <1>4, <1>5, <1>6 DEF Journals, w

LEMMA WrittenCovered ==
  ASSUME NEW s, NEW bt, NEW t, Agree(s, bt, t), Journals(s, bt, t),
         NEW n, NEW top, NEW lim, Covered(s, bt, n, top, lim)
  PROVE Covered(Written(s, bt), NoBatch, n, top, lim)
<1> DEFINE w == Written(s, bt)
<1>1. /\ w.trail = s.trail \union bt.trail
      /\ w.logs = {b \in s.logs : Height(b) >= bt.floor} \union bt.logs
      /\ w.floor = IF bt.floor > 0 THEN bt.floor ELSE s.floor
  BY WrittenAgrees DEF Written
<1> HIDE DEF w
<1>2. s.floor \in Nat /\ bt.floor \in Nat /\ w.floor \in Nat /\ w.floor >= s.floor
      /\ w.floor >= bt.floor
  BY <1>1, MirrorTypes DEF Journals
<1>3. ASSUME NEW b \in w.trail \ w.logs PROVE Height(b) < w.floor \/ Safe(n, top, lim, b)
  <2>1. CASE b \in bt.trail
    BY <1>1, <1>3, <2>1 DEF Covered
  <2>2. CASE b \in s.trail
    <3>1. Height(b) \in Nat
      BY <2>2, MirrorTypes
    <3>2. CASE b \in s.logs
      BY <1>1, <1>2, <1>3, <3>1, <3>2
    <3>3. CASE b \notin s.logs
      BY <1>2, <2>2, <3>1, <3>3 DEF Covered
    <3> QED BY <3>2, <3>3
  <2> QED BY <1>1, <2>1, <2>2
<1>4. NoBatch.trail = {}
  BY NoBatchType
<1> QED BY <1>3, <1>4 DEF Covered, w

(* What is committed.                                                      *)
LEMMA DropJournals ==
  ASSUME NEW s, NEW bt, NEW t, Agree(s, bt, t), Journals(s, bt, t)
  PROVE /\ Journals(s, NoBatch, Top(s.trail))
        /\ \A n, top, lim : Covered(s, bt, n, top, lim) => Covered(s, NoBatch, n, top, lim)
<1>1. Written(s, NoBatch).floor = s.floor
  BY WrittenFloor, NoBatchType
<1> QED BY <1>1, NoBatchType DEF Journals, Covered

(* The block taken off has a journal.                                      *)
LEMMA TruncatedJournals ==
  ASSUME NEW s, NEW t, Agree(s, NoBatch, t), t # NoBlock, Journals(s, NoBatch, t), t \in s.logs
  PROVE LET u == Truncated(s, Height(t) - 1) IN
        /\ Journals(u, NoBatch, Top(u.trail))
        /\ \A n, top, lim : Covered(s, NoBatch, n, top, lim) => Covered(u, NoBatch, n, top, lim)
<1> DEFINE u == Truncated(s, Height(t) - 1)
<1>1. /\ Agree(u, NoBatch, Top(u.trail)) /\ Len(Top(u.trail)) = Len(t) - 1
      /\ u.trail = s.trail \ {t}
  BY TruncatedAgrees
<1>2. /\ u.rows = s.rows \ {b \in s.logs : Height(b) > Height(t) - 1}
      /\ u.logs = {b \in s.logs : Height(b) <= Height(t) - 1}
      /\ u.floor = s.floor
  BY DEF Truncated, Agree, Mirrors
<1> HIDE DEF u
<1>3. Len(t) \in Nat /\ MaxReorgDepth \in Nat /\ s.floor \in Nat /\ s.trail \subseteq Block
      /\ \A b \in Block : Len(b) \in Nat
  BY MirrorTypes
<1>4. \A b \in s.trail : Len(b) <= Len(t) /\ (Len(b) = Len(t) => b = t)
  <2>1. Top(s.trail) = t
    BY NoBatchType DEF Agree
  <2> QED BY <1>3, <2>1, StackTop DEF Agree
<1>5. \A b \in s.trail : Height(b) > Height(t) - 1 <=> b = t
  BY <1>3, <1>4 DEF Height
<1>6. u.rows = u.trail
  BY <1>1, <1>2, <1>5 DEF Journals
<1>7. u.logs = s.logs \ {t}
  <2>1. \A b \in s.logs : Height(b) <= Height(t) - 1 <=> b # t
    <3> SUFFICES ASSUME NEW b \in s.logs PROVE Height(b) <= Height(t) - 1 <=> b # t
      OBVIOUS
    <3>1. b \in s.trail /\ Len(b) \in Nat
      BY <1>3 DEF Journals
    <3> QED BY <1>3, <1>5, <3>1 DEF Height
  <2> QED BY <1>2, <2>1
<1>8. Written(u, NoBatch).floor = u.floor
  BY WrittenFloor, NoBatchType
<1>9. u.floor >= Len(Top(u.trail)) - 1 - MaxReorgDepth
  <2>1. s.floor >= Len(t) - 1 - MaxReorgDepth
    BY WrittenFloor, NoBatchType DEF Journals
  <2> QED BY <1>1, <1>2, <1>3, <2>1
<1>10. Journals(u, NoBatch, Top(u.trail))
  BY <1>1, <1>6, <1>7, <1>8, <1>9, NoBatchType DEF Journals
<1>11. ASSUME NEW n, NEW top, NEW lim, Covered(s, NoBatch, n, top, lim)
       PROVE Covered(u, NoBatch, n, top, lim)
  BY <1>1, <1>2, <1>7, <1>11, NoBatchType DEF Covered
<1> QED BY <1>10, <1>11 DEF u

(* A block fed without a journal is deep in the node's chain.              *)
LEMMA FeedJournals ==
  ASSUME SyncInv, PromiseInv, phase = "block"
  PROVE /\ Agree(store, Feed(walk), walk)
        /\ Feed(walk).logs \subseteq Feed(walk).trail
        /\ Journals(store, Feed(walk), walk)
        /\ Covered(store, Feed(walk), node, best, best)
<1> DEFINE f == Feed(walk)
<1>1. /\ walk \in Block /\ Len(walk) = Len(tip) + 1 /\ Agree(store, batch, tip)
      /\ batch.logs \subseteq batch.trail /\ hint \in Int /\ best \in Nat
  BY SyncAssumption DEF SyncInv, Placed, NodeOK, OpOK, Memory, Laid
<1>2. Agree(store, f, walk) /\ f.trail = batch.trail \union {walk}
  BY <1>1, FeedAgrees
<1>3. /\ f.logs = IF Journalled(walk) THEN batch.logs \union {walk} ELSE batch.logs
      /\ f.floor = PruneFloor(walk)
  BY DEF Feed
<1> HIDE DEF f
<1>4. /\ store.floor \in Nat /\ batch.floor \in Nat /\ MaxReorgDepth \in Nat
      /\ Len(walk) \in Nat /\ Len(tip) \in Nat
  BY <1>1, MirrorTypes
<1>5. /\ batch.floor = 0 \/ batch.floor > store.floor
      /\ (IF batch.floor > 0 THEN batch.floor ELSE store.floor) >= Len(tip) - 1 - MaxReorgDepth
      /\ store.floor >= Len(Top(store.trail)) - 1 - MaxReorgDepth
      /\ store.rows = store.trail /\ store.logs \subseteq store.trail
  BY WrittenFloor DEF PromiseInv, Journals
<1>6. Journals(store, f, walk)
  <2> DEFINE keep == Len(walk) - 1 - MaxReorgDepth
  <2>1. f.floor = IF keep > store.floor THEN keep ELSE batch.floor
    BY <1>3 DEF PruneFloor, Height
  <2>2. keep \in Int
    BY <1>4
  <2>3. f.floor = 0 \/ f.floor > store.floor
    BY <1>4, <1>5, <2>1, <2>2
  <2>4. (IF f.floor > 0 THEN f.floor ELSE store.floor) >= keep
    <3> HIDE DEF keep
    <3>1. CASE keep > store.floor
      BY <1>4, <2>1, <2>2, <3>1
    <3>2. CASE keep <= store.floor
      BY <1>4, <1>5, <2>1, <2>2, <3>2
    <3> QED BY <1>4, <2>2, <3>1, <3>2
  <2> QED BY <1>5, <2>3, <2>4, WrittenFloor DEF Journals
<1>7. Covered(store, f, node, best, best)
  <2>1. Covered(store, batch, node, best, best)
    BY DEF PromiseInv, Lim
  <2>2. ~Journalled(walk) => Safe(node, best, best, walk)
    <3> SUFFICES ASSUME ~Journalled(walk) PROVE Safe(node, best, best, walk)
      OBVIOUS
    <3>1. Height(walk) < hint - MaxReorgDepth /\ Height(walk) \in Int
      BY <1>1, <1>4 DEF Journalled, Height
    <3>2. Extends(node, walk) /\ hint <= best
      BY <3>1 DEF PromiseInv, Bounds
    <3> QED BY <1>1, <1>4, <3>1, <3>2 DEF Safe
  <2> QED BY <1>2, <1>3, <2>1, <2>2 DEF Covered
<1> QED BY <1>1, <1>2, <1>3, <1>6, <1>7 DEF f

(* The tip a rollback may take off has a journal.                          *)
LEMMA TipJournalled ==
  ASSUME SyncInv, PromiseInv, tip # NoBlock, ~Pruned,
         ~Extends(node, tip) \/ (phase = "shrink" /\ Height(tip) > target)
  PROVE tip \in Written(store, batch).logs
<1> DEFINE w == Written(store, batch)
<1>1. /\ Agree(store, batch, tip) /\ Agree(w, NoBatch, tip)
      /\ Journals(w, NoBatch, tip) /\ Covered(w, NoBatch, node, best, Lim)
  <2>1. Agree(store, batch, tip) /\ batch.logs \subseteq batch.trail
    BY DEF SyncInv, Memory, Laid
  <2> QED BY <2>1, WrittenAgrees, WrittenJournals, WrittenCovered DEF PromiseInv
<1> HIDE DEF w
<1>2. tip \in w.trail /\ Height(tip) \in Nat /\ w.floor \in Nat
  <2>1. tip \in w.trail
    BY <1>1, TruncatedAgrees
  <2> QED BY <1>1, <2>1, MirrorTypes
<1>3. ~(Height(tip) < w.floor)
  <2>1. Below + 1 = Height(tip)
    BY <1>2, BelowTip DEF SyncInv
  <2>2. ~(w.floor > 0 /\ Height(tip) < w.floor)
    BY <2>1 DEF Pruned, Flushed, w
  <2> QED BY <1>2, <2>2
<1>4. ~Safe(node, best, Lim, tip)
  <2>1. target \in Int
    BY DEF SyncInv, OpOK
  <2> QED BY <1>2, <2>1 DEF Safe, Lim
<1> QED BY <1>1, <1>2, <1>3, <1>4 DEF Covered, w

-----------------------------------------------------------------------------
(* The steps.                                                              *)

LEMMA InitPromise == Init => PromiseInv
<1> SUFFICES ASSUME Init PROVE PromiseInv
  OBVIOUS
<1>1. /\ store = Empty /\ batch = NoBatch /\ tip = NoBlock /\ best = 0 /\ hint = -1
      /\ target = -1 /\ phase = "idle"
  BY DEF Init
<1>2. store.trail = {} /\ store.rows = {} /\ store.logs = {} /\ store.floor = 0
  BY <1>1 DEF Empty
<1>3. Top(store.trail) = NoBlock /\ Len(NoBlock) = 0 /\ MaxReorgDepth \in Nat
  BY <1>2, SyncAssumption DEF Top, NoBlock
<1>4. Written(store, batch).floor = 0
  BY <1>1, <1>2, NoBatchType, WrittenFloor
<1>5. Journals(store, batch, tip)
  BY <1>1, <1>2, <1>3, <1>4, NoBatchType DEF Journals
<1>6. Covered(store, batch, node, best, Lim)
  BY <1>1, <1>2, NoBatchType DEF Covered
<1>7. Bounds
  BY <1>1 DEF Bounds
<1> QED BY <1>5, <1>6, <1>7 DEF PromiseInv

LEMMA SafeOnward ==
  ASSUME NEW n \in Chain, NEW b \in Chain, NEW top \in Int, NEW lim, NEW lim2,
         Safe(n, top, lim, b), lim2 \in {lim, Height(n), top}
  PROVE Safe(n, top, lim2, b)
<1>1. Len(b) \in Nat /\ Len(n) \in Nat /\ Len(b) <= Len(n) /\ MaxReorgDepth \in Nat
  BY ChainLen, SyncAssumption DEF Safe, Extends
<1>2. Height(b) <= lim /\ Height(b) <= Height(n) /\ Height(b) <= top
  BY <1>1 DEF Safe, Height
<1> QED BY <1>2 DEF Safe

LEMMA CoveredOnward ==
  ASSUME NEW s, NEW bt, NEW t, Agree(s, bt, t),
         NEW n \in Chain, NEW top \in Int, NEW lim, NEW lim2,
         Covered(s, bt, n, top, lim), lim2 \in {lim, Height(n), top}
  PROVE Covered(s, bt, n, top, lim2)
<1>1. s.trail \subseteq Chain /\ bt.trail \subseteq Chain
  BY MirrorTypes DEF Chain
<1>2. ASSUME NEW b \in Chain, Safe(n, top, lim, b) PROVE Safe(n, top, lim2, b)
  BY <1>2, SafeOnward
<1> QED BY <1>1, <1>2 DEF Covered

(* A step of the operation or of the process.                              *)
LEMMA Settled ==
  ASSUME SyncInv, PromiseInv, UNCHANGED nodeVars,
         NEW s, NEW bt, NEW t, store' = s, batch' = bt, tip' = t,
         Agree(s, bt, t), Journals(s, bt, t), Covered(s, bt, node, best, Lim),
         phase' = "shrink" => target' \in {Lim, Height(node)},
         hint' <= best, target' <= best,
         bt # NoBatch => Height(t) < best,
         phase' = "block" => Extends(node, walk')
  PROVE PromiseInv'
<1>1. node \in Chain /\ best \in Int /\ node' = node /\ best' = best
  BY SyncAssumption DEF SyncInv, NodeOK, Chain, nodeVars
<1>2. Lim' \in {Lim, Height(node), best}
  BY <1>1 DEF Lim
<1>3. Covered(s, bt, node, best, Lim')
  BY <1>1, <1>2, CoveredOnward
<1>4. Covered(store, batch, node, best, Lim)'
  BY <1>1, <1>3 DEF Covered, Safe, Extends, Height
<1>5. Journals(store, batch, tip)'
  BY DEF Journals
<1>6. Bounds'
  <2>1. Height(tip)' = Height(t)
    BY DEF Height
  <2> QED BY <1>1, <2>1 DEF Bounds, Extends
<1> QED BY <1>4, <1>5, <1>6 DEF PromiseInv
(* The three ways a step leaves the mirror.                                *)
LEMMA Untouched ==
  ASSUME SyncInv, PromiseInv, UNCHANGED <<store, batch, tip>>, UNCHANGED nodeVars,
         phase' = "shrink" => target' \in {Lim, Height(node)},
         hint' <= best, target' <= best,
         phase' = "block" => Extends(node, walk')
  PROVE PromiseInv'
<1>1. Agree(store, batch, tip)
  BY DEF SyncInv, Memory, Laid
<1> QED BY <1>1, Settled DEF PromiseInv, Bounds

LEMMA Flushing ==
  ASSUME SyncInv, PromiseInv, UNCHANGED tip, UNCHANGED nodeVars, batch' = NoBatch,
         store' = Written(store, batch) \/ (batch = NoBatch /\ store' = store),
         phase' = "idle", hint' <= best, target' <= best
  PROVE PromiseInv'
<1>1. Agree(store, batch, tip) /\ batch.logs \subseteq batch.trail
  BY DEF SyncInv, Memory, Laid
<1>2. CASE store' = Written(store, batch)
  <2> DEFINE w == Written(store, batch)
  <2>1. /\ Agree(w, NoBatch, tip) /\ Journals(w, NoBatch, tip)
        /\ Covered(w, NoBatch, node, best, Lim)
    BY <1>1, WrittenAgrees, WrittenJournals, WrittenCovered DEF PromiseInv
  <2> HIDE DEF w
  <2>2. store' = w
    BY <1>2 DEF w
  <2> QED BY <2>1, <2>2, Settled
<1>3. CASE batch = NoBatch /\ store' = store
  BY <1>3, Untouched
<1> QED BY <1>2, <1>3

LEMMA FinishPromise ==
  ASSUME NoLoss, SyncInv, PromiseInv, NEW synced, Finish(store, batch, synced),
         UNCHANGED tip, UNCHANGED nodeVars, hint' <= best, target' <= best
  PROVE PromiseInv'
<1>1. /\ batch' = NoBatch /\ phase' = "idle"
      /\ store' = Written(store, batch) \/ (batch = NoBatch /\ store' = store)
  BY DEF Finish, NoLoss
<1> QED BY <1>1, Flushing

LEMMA RollbackPromise ==
  ASSUME NoLoss, SyncInv, PromiseInv, RollbackTip, tip # NoBlock,
         ~Extends(node, tip) \/ (phase = "shrink" /\ Height(tip) > target)
  PROVE PromiseInv'
<1>1. /\ batch' = NoBatch /\ UNCHANGED nodeVars /\ hint' = hint /\ target' = target
      /\ hint <= best /\ target <= best
  BY RollbackMemory DEF opVars, PromiseInv, Bounds
<1>2. CASE /\ phase' = "idle" /\ tip' = tip
           /\ store' = Written(store, batch) \/ (batch = NoBatch /\ store' = store)
  BY <1>1, <1>2, Flushing
<1>3. CASE /\ phase' = AfterRollback(tip')
           /\ ~Pruned
           /\ store' = Truncated(Written(store, batch), Height(tip) - 1)
           /\ tip' = Top(store'.trail)
  <2> DEFINE w == Written(store, batch)
             u == Truncated(w, Height(tip) - 1)
  <2>1. Agree(store, batch, tip) /\ batch.logs \subseteq batch.trail
    BY DEF SyncInv, Memory, Laid
  <2>2. /\ Agree(w, NoBatch, tip) /\ Journals(w, NoBatch, tip)
        /\ Covered(w, NoBatch, node, best, Lim)
    BY <2>1, WrittenAgrees, WrittenJournals, WrittenCovered DEF PromiseInv
  <2>3. tip \in w.logs
    BY <1>3, TipJournalled
  <2> HIDE DEF w
  <2>4. Agree(u, NoBatch, Top(u.trail))
    BY <2>2, TruncatedAgrees
  <2>5. Journals(u, NoBatch, Top(u.trail)) /\ Covered(u, NoBatch, node, best, Lim)
    BY <2>2, <2>3, TruncatedJournals
  <2>6. store' = u /\ tip' = Top(u.trail)
    BY <1>3 DEF w
  <2>7. phase' # "block" /\ (phase' = "shrink" => phase = "shrink")
    BY <1>3 DEF AfterRollback
  <2>8. phase' = "shrink" => target' \in {Lim, Height(node)}
    BY <1>1, <2>7 DEF Lim
  <2> HIDE DEF u
  <2> QED BY <1>1, <2>4, <2>5, <2>6, <2>7, <2>8, Settled
<1> QED BY <1>2, <1>3, RollbackMemory

LEMMA QuietPromise ==
  ASSUME SyncInv, PromiseInv, StartSync \/ CallFails \/ SyncNextHash
  PROVE PromiseInv'
<1>1. /\ UNCHANGED <<store, batch, tip>> /\ UNCHANGED nodeVars
      /\ hint' = hint /\ target' = target /\ phase' # "shrink"
      /\ phase' = "block" => SyncNextHash
  BY DEF StartSync, CallFails, SyncNextHash, opVars
<1>2. hint' <= best /\ target' <= best
  BY <1>1 DEF PromiseInv, Bounds
<1>3. SyncNextHash => Extends(node, walk')
  <2> SUFFICES ASSUME SyncNextHash PROVE Extends(node, walk')
    OBVIOUS
  <2>1. walk' = Cut(node, Height(tip) + 1) /\ Height(tip) < Height(node)
    BY DEF SyncNextHash
  <2>2. node \in Chain /\ Len(node) \in Nat /\ Len(tip) \in Nat
    BY BranchChains, ChainLen
  <2>3. Height(tip) + 1 \in 0..Height(node)
    BY <2>1, <2>2 DEF Height
  <2> QED BY <2>1, <2>2, <2>3, CutBlock
<1> QED BY <1>1, <1>2, <1>3, Untouched

LEMMA InfoPromise ==
  ASSUME NoLoss, SyncInv, PromiseInv, SyncBlockchainInfo
  PROVE PromiseInv'
<1>1. /\ target' = Height(node) /\ hint' = Height(node) /\ tip' = tip /\ UNCHANGED nodeVars
  BY DEF SyncBlockchainInfo
<1>2. hint' <= best /\ target' <= best
  BY <1>1 DEF SyncInv, NodeOK
<1>3. CASE Finish(store, batch, TRUE)
  BY <1>1, <1>2, <1>3, FinishPromise
<1>4. CASE UNCHANGED <<store, batch>> /\ phase' # "block"
  BY <1>1, <1>2, <1>4, Untouched
<1> QED BY <1>3, <1>4 DEF SyncBlockchainInfo

LEMMA AnchorPromise ==
  ASSUME NoLoss, SyncInv, PromiseInv, SyncAnchor
  PROVE PromiseInv'
<1>0. hint <= best /\ target <= best /\ phase = "anchor"
  BY DEF PromiseInv, Bounds, SyncAnchor
<1>1. CASE /\ IF Height(tip) >= target
              THEN Finish(store, batch, TRUE)
              ELSE phase' = "hash" /\ UNCHANGED <<store, batch, done>>
           /\ UNCHANGED <<nodeVars, tip, ring, hint, opVars>>
  <2>1. hint' <= best /\ target' <= best
    BY <1>0, <1>1 DEF opVars
  <2>2. CASE Finish(store, batch, TRUE)
    BY <1>1, <2>1, <2>2, FinishPromise
  <2>3. CASE phase' = "hash" /\ UNCHANGED <<store, batch, done>>
    BY <1>1, <2>1, <2>3, Untouched
  <2> QED BY <1>1, <2>2, <2>3
<1>2. CASE Throw /\ UNCHANGED <<nodeVars, store, batch, opVars>>
  <2>1. phase' = "idle" /\ tip' = tip /\ hint' <= best /\ target' <= best
    BY <1>0, <1>2 DEF Throw, opVars
  <2> QED BY <1>2, <2>1, Untouched
<1>3. CASE Cut(node, Height(tip)) # tip /\ RollbackTip
  <2>1. tip # NoBlock
    BY <1>0 DEF SyncInv, Placed
  <2>2. ~Extends(node, tip)
    <3>1. Height(tip) + 1 = Len(tip)
      BY TipType DEF Height
    <3> QED BY <1>3, <3>1 DEF Cut, Extends
  <2> QED BY <1>3, <2>1, <2>2, RollbackPromise
<1> QED BY <1>1, <1>2, <1>3 DEF SyncAnchor

LEMMA BlockPromise ==
  ASSUME NoLoss, SyncInv, PromiseInv, SyncBlock
  PROVE PromiseInv'
<1>1. /\ phase = "block" /\ UNCHANGED nodeVars /\ hint' <= best /\ target' <= best
      /\ target <= best
  BY BlockMemory DEF SyncBlock, PromiseInv, Bounds
<1> DEFINE f == Feed(walk)
           w == Written(store, f)
           x == Written(w, NoBatch)
<1>2. /\ Agree(store, f, walk) /\ f.logs \subseteq f.trail /\ Journals(store, f, walk)
      /\ Covered(store, f, node, best, Lim)
  BY <1>1, FeedJournals DEF Lim
<1> HIDE DEF f
<1>3. Agree(w, NoBatch, walk) /\ Journals(w, NoBatch, walk) /\ Covered(w, NoBatch, node, best, Lim)
  BY <1>2, WrittenAgrees, WrittenJournals, WrittenCovered
<1> HIDE DEF w
<1>4. Agree(x, NoBatch, walk) /\ Journals(x, NoBatch, walk) /\ Covered(x, NoBatch, node, best, Lim)
  <2>1. NoBatch.logs \subseteq NoBatch.trail
    BY NoBatchType
  <2> QED BY <1>3, <2>1, WrittenAgrees, WrittenJournals, WrittenCovered
<1> HIDE DEF x
<1>5. \/ phase' = "idle" /\ UNCHANGED <<tip, store, batch>>
      \/ /\ tip' = walk /\ batch' = NoBatch /\ store' = w
         /\ phase' \in {"idle", "hash"}
      \/ /\ tip' = walk /\ Height(walk) < target /\ store' = store /\ batch' = f
         /\ phase' = "hash"
      \/ tip' = walk /\ batch' = NoBatch /\ store' = x /\ phase' = "idle"
  BY BlockMemory DEF x, w, f
<1>6. CASE phase' = "idle" /\ UNCHANGED <<tip, store, batch>>
  BY <1>1, <1>6, Untouched
<1>7. CASE tip' = walk /\ batch' = NoBatch /\ store' = w /\ phase' \in {"idle", "hash"}
  BY <1>1, <1>3, <1>7, Settled
<1>8. CASE /\ tip' = walk /\ Height(walk) < target /\ store' = store /\ batch' = f
           /\ phase' = "hash"
  <2>1. Height(walk) < best
    <3>1. Height(walk) \in Int /\ target \in Int /\ best \in Int
      BY <1>2, MirrorTypes, SyncAssumption DEF SyncInv, NodeOK, OpOK, Height
    <3> QED BY <1>1, <1>8, <3>1
  <2> QED BY <1>1, <1>2, <1>8, <2>1, Settled
<1>9. CASE tip' = walk /\ batch' = NoBatch /\ store' = x /\ phase' = "idle"
  BY <1>1, <1>4, <1>9, Settled
<1> QED BY <1>5, <1>6, <1>7, <1>8, <1>9

LEMMA ProcessPromise ==
  ASSUME SyncInv, PromiseInv, Crash \/ Shutdown
  PROVE PromiseInv'
<1>1. PICK s : Restart(s) /\ (s = store \/ s = Written(store, batch))
  BY DEF Crash, Shutdown
<1>2. /\ store' = s /\ batch' = NoBatch /\ tip' = Top(s.trail) /\ phase' = "idle"
      /\ hint' = -1 /\ target' = target /\ UNCHANGED nodeVars
  BY <1>1 DEF Restart, opVars
<1>3. Agree(store, batch, tip) /\ batch.logs \subseteq batch.trail
      /\ Journals(store, batch, tip) /\ Covered(store, batch, node, best, Lim)
  BY DEF SyncInv, Memory, Laid, PromiseInv
<1>4. /\ Agree(s, NoBatch, Top(s.trail)) /\ Journals(s, NoBatch, Top(s.trail))
      /\ Covered(s, NoBatch, node, best, Lim)
  <2>1. CASE s = store
    BY <1>3, <2>1, DropAgrees, DropJournals
  <2>2. CASE s = Written(store, batch)
    <3>1. Agree(s, NoBatch, tip) /\ Journals(s, NoBatch, tip) /\ Covered(s, NoBatch, node, best, Lim)
      BY <1>3, <2>2, WrittenAgrees, WrittenJournals, WrittenCovered
    <3> QED BY <3>1, DropAgrees, DropJournals
  <2> QED BY <1>1, <2>1, <2>2
<1>5. hint' <= best /\ target' <= best
  <2>1. best \in Nat
    BY SyncAssumption DEF SyncInv, NodeOK
  <2> QED BY <1>2, <2>1 DEF PromiseInv, Bounds
<1> QED BY <1>2, <1>4, <1>5, Settled

(* The node's steps: its reorganisations are above the safe blocks, or the *)
(* engine is where the node has been highest and has pruned below it.      *)
LEMMA MovePromise ==
  ASSUME SyncInv, PromiseInv, NEW b \in Block, MoveNode(b),
         Covered(store, batch, b, best, Lim),
         phase = "block" /\ Height(walk) < hint - MaxReorgDepth => Extends(b, walk)
  PROVE PromiseInv'
<1>1. /\ node' = b /\ UNCHANGED <<store, batch, tip, phase, hint, target, walk>>
      /\ best' \in Int /\ best \in Int /\ best <= best' /\ hint <= best /\ target <= best
      /\ MaxReorgDepth \in Nat /\ hint \in Int /\ target \in Int
  <2>1. Height(b) \in Int /\ best \in Int
    BY BlockSeq, SyncAssumption DEF SyncInv, NodeOK, Height
  <2> QED BY <2>1, SyncAssumption DEF MoveNode, opVars, PromiseInv, Bounds, SyncInv, OpOK
<1>2. store.trail \subseteq Block /\ batch.trail \subseteq Block
  BY MirrorTypes DEF SyncInv, Memory, Laid
<1>3. ASSUME NEW c \in Block, Safe(b, best, Lim, c) PROVE Safe(b, best', Lim', c)
  <2>1. Height(c) \in Nat
    BY BlockSeq DEF Height
  <2>2. Height(c) <= Lim'
    BY <1>1, <1>3, <2>1 DEF Safe, Lim
  <2> QED BY <1>1, <1>3, <2>1, <2>2 DEF Safe
<1>4. Covered(store, batch, b, best', Lim')
  BY <1>2, <1>3 DEF Covered
<1>5. Covered(store, batch, node, best, Lim)'
  BY <1>1, <1>4 DEF Covered, Safe, Extends, Height
<1>6. Journals(store, batch, tip)'
  BY <1>1 DEF PromiseInv, Journals, Written, Height, Top
<1>7. Bounds'
  <2>1. /\ batch' # NoBatch => Height(tip)' < best'
        /\ hint' <= best' /\ target' <= best'
    <3>1. Height(tip) \in Int /\ Height(tip)' = Height(tip)
      BY <1>1, TipType DEF Height
    <3> QED BY <1>1, <3>1 DEF PromiseInv, Bounds
  <2> QED BY <1>1, <2>1 DEF Bounds, Extends, Height
<1> QED BY <1>5, <1>6, <1>7 DEF PromiseInv

LEMMA MinePromise == ASSUME SyncInv, PromiseInv, NodeMine PROVE PromiseInv'
<1>1. PICK c \in Choice : MoveNode(Append(node, c))
  BY DEF NodeMine
<1> DEFINE b == Append(node, c)
<1>2. b \in Block /\ Extends(b, node)
  BY <1>1, MinedBlock
<1> HIDE DEF b
<1>3. b \in Chain /\ node \in Chain
  BY <1>2, BranchChains DEF Chain
<1>4. ASSUME NEW a \in Chain, Extends(node, a) PROVE Extends(b, a)
  BY <1>2, <1>3, <1>4, ExtendsOrder
<1>5. store.trail \subseteq Chain /\ batch.trail \subseteq Chain /\ walk \in Chain
  BY BranchChains
<1>6. Covered(store, batch, b, best, Lim)
  BY <1>4, <1>5 DEF PromiseInv, Covered, Safe
<1>7. phase = "block" /\ Height(walk) < hint - MaxReorgDepth => Extends(b, walk)
  BY <1>4, <1>5 DEF PromiseInv, Bounds
<1> QED BY <1>1, <1>2, <1>6, <1>7, MovePromise DEF b

LEMMA ForkPromise == ASSUME NoSink, SyncInv, PromiseInv, NodeReorg PROVE PromiseInv'
<1>1. PICK h \in 0..(Height(node) - 1), c \in Choice :
        /\ h >= best - MaxReorgDepth \/ Height(tip) = best
        /\ MoveNode(Append(Cut(node, h), c))
  BY DEF NodeReorg, NoSink
<1> DEFINE b == Append(Cut(node, h), c)
           a == Cut(node, h)
<1>2. b \in Block /\ a \in Block /\ Len(a) = h + 1 /\ Extends(node, a) /\ Extends(b, a)
  BY <1>1, ForkedBlock
<1>3. MoveNode(b)
  BY <1>1
<1> HIDE DEF b, a
<1>4. b \in Chain /\ node \in Chain /\ a \in Chain
  BY <1>2, BranchChains DEF Chain
<1>5. /\ store.trail \subseteq Block /\ batch.trail \subseteq Block /\ store.floor \in Nat
      /\ walk \in Chain /\ h \in Nat /\ hint <= best /\ hint \in Int /\ best \in Int
      /\ MaxReorgDepth \in Nat
      /\ batch # NoBatch => Height(tip) < best
      /\ Agree(store, batch, tip)
  <2>1. Len(node) \in Nat
    BY <1>4, ChainLen
  <2> QED BY <2>1, MirrorTypes, SyncAssumption
          DEF SyncInv, NodeOK, OpOK, Memory, Laid, PromiseInv, Bounds
(* What the node's chain has at the fork or below it stays on it.          *)
<1>6. ASSUME NEW d \in Chain, Extends(node, d), Height(d) <= h PROVE Extends(b, d)
  <2>1. Len(d) \in Nat /\ Len(d) <= Len(a)
    BY <1>2, <1>5, <1>6, ChainLen DEF Height
  <2>2. Extends(a, d)
    BY <1>2, <1>4, <1>6, <2>1, ExtendsOrder
  <2> QED BY <1>2, <1>4, <2>2, ExtendsOrder
<1>7. CASE h >= best - MaxReorgDepth
  <2>1. ASSUME NEW d \in Block, Safe(node, best, Lim, d) PROVE Safe(b, best, Lim, d)
    <3>1. Height(d) \in Nat /\ d \in Chain
      BY BlockSeq DEF Height, Chain
    <3>2. Height(d) <= h /\ Extends(node, d)
      BY <1>5, <1>7, <2>1, <3>1 DEF Safe
    <3> QED BY <1>6, <2>1, <3>1, <3>2 DEF Safe
  <2>2. Covered(store, batch, b, best, Lim)
    BY <1>5, <2>1 DEF PromiseInv, Covered
  <2>3. phase = "block" /\ Height(walk) < hint - MaxReorgDepth => Extends(b, walk)
    <3> SUFFICES ASSUME phase = "block", Height(walk) < hint - MaxReorgDepth
                 PROVE Extends(b, walk)
      OBVIOUS
    <3>1. Len(walk) \in Nat /\ Extends(node, walk)
      BY <1>5, ChainLen DEF PromiseInv, Bounds
    <3>2. Height(walk) <= h
      BY <1>5, <1>7, <3>1 DEF Height
    <3> QED BY <1>5, <1>6, <3>1, <3>2
  <2> QED BY <1>2, <1>3, <2>2, <2>3, MovePromise
<1>8. CASE Height(tip) = best
  <2>1. batch = NoBatch /\ batch.trail = {}
    BY <1>5, <1>8, NoBatchType
  <2>2. store.floor >= best - MaxReorgDepth
    <3>1. Written(store, batch).floor = store.floor
      BY <2>1, WrittenFloor, NoBatchType
    <3> QED BY <1>8, <3>1 DEF PromiseInv, Journals, Height
  <2>3. ASSUME NEW d \in Block, Safe(node, best, Lim, d) PROVE Height(d) < store.floor
    <3>1. Height(d) \in Nat
      BY BlockSeq DEF Height
    <3> QED BY <1>5, <2>2, <2>3, <3>1 DEF Safe
  <2>4. Covered(store, batch, b, best, Lim)
    BY <1>5, <2>1, <2>3 DEF PromiseInv, Covered
  <2>5. ~(phase = "block" /\ Height(walk) < hint - MaxReorgDepth)
    <3> SUFFICES ASSUME phase = "block" PROVE ~(Height(walk) < hint - MaxReorgDepth)
      OBVIOUS
    <3>1. Len(walk) = Len(tip) + 1 /\ Len(tip) \in Nat
      BY TipType DEF SyncInv, Placed
    <3> QED BY <1>5, <1>8, <3>1 DEF Height
  <2> QED BY <1>2, <1>3, <2>4, <2>5, MovePromise
<1> QED BY <1>1, <1>7, <1>8

LEMMA PromiseStep ==
  ASSUME NoLoss, NoSink, SyncInv, PromiseInv, [Next]_vars
  PROVE PromiseInv'
<1>1. CASE NodeNext
  BY <1>1, MinePromise, ForkPromise DEF NodeNext
<1>2. CASE SyncNext
  <2>1. CASE StartSync \/ CallFails \/ SyncNextHash
    BY <2>1, QuietPromise
  <2>2. CASE SyncBlockchainInfo
    BY <2>2, InfoPromise
  <2>3. CASE SyncShrink
    BY <2>3, RollbackPromise DEF SyncShrink, SyncInv, Placed
  <2>4. CASE SyncAnchor
    BY <2>4, AnchorPromise
  <2>5. CASE SyncBlock
    BY <2>5, BlockPromise
  <2> QED BY <1>2, <2>1, <2>2, <2>3, <2>4, <2>5 DEF SyncNext
<1>3. CASE Crash \/ Shutdown
  BY <1>3, ProcessPromise
<1>4. CASE UNCHANGED vars
  BY <1>4 DEF vars, nodeVars, opVars, PromiseInv, Journals, Covered, Safe, Bounds, Lim,
              Written, Top, Height, Extends
<1> QED BY <1>1, <1>2, <1>3, <1>4 DEF Next

-----------------------------------------------------------------------------
(* The stack of OyoMirror: the trail by height.                            *)

Tower(T) == [i \in 1..Len(Top(T)) |-> CHOOSE b \in T : Height(b) = i - 1]

LEMMA TowerItems ==
  ASSUME NEW T, NEW n \in Nat, Stack(T, 1, n)
  PROVE /\ Tower(T) \in Seq(Block) /\ Len(Tower(T)) = n
        /\ \A i \in 1..n : Tower(T)[i] \in T /\ Len(Tower(T)[i]) = i
        /\ {Tower(T)[i] : i \in 1..Len(Tower(T))} = T
<1>1. Len(Top(T)) = n
  BY StackTop
<1>2. ASSUME NEW i \in 1..n
      PROVE LET c == CHOOSE b \in T : Height(b) = i - 1 IN c \in T /\ Len(c) = i
  <2>1. PICK b \in T : Len(b) = i
    BY DEF Stack
  <2>2. Height(b) = i - 1
    BY <2>1 DEF Height
  <2>3. LET c == CHOOSE c \in T : Height(c) = i - 1 IN c \in T /\ Height(c) = i - 1
    BY <2>2
  <2>4. \A c \in T : Len(c) \in Nat
    BY DEF Stack
  <2> QED BY <2>3, <2>4 DEF Height
<1>3. Tower(T) \in [1..n -> Block]
      /\ \A i \in 1..n : Tower(T)[i] \in T /\ Len(Tower(T)[i]) = i
  <2>1. Tower(T) = [i \in 1..n |-> CHOOSE b \in T : Height(b) = i - 1]
    BY <1>1 DEF Tower
  <2>2. T \subseteq Block
    BY DEF Stack
  <2> QED BY <1>2, <2>1, <2>2
<1>4. Tower(T) \in Seq(Block) /\ Len(Tower(T)) = n
  BY <1>3, SeqDef, LenProperties
<1>5. ASSUME NEW b \in T PROVE \E i \in 1..n : Tower(T)[i] = b
  <2>1. Len(b) \in 1..n
    BY DEF Stack
  <2>2. Tower(T)[Len(b)] = b
    BY <1>3, <2>1 DEF Stack
  <2> QED BY <2>1, <2>2
<1> QED BY <1>3, <1>4, <1>5

(* Of two stacks, one in the other, the smaller is the lower end.          *)
LEMMA TowerPrefix ==
  ASSUME NEW T, NEW n \in Nat, Stack(T, 1, n), NEW U, NEW m \in Nat, Stack(U, 1, m), U \subseteq T
  PROVE /\ m <= n
        /\ SubSeq(Tower(T), 1, Len(Tower(U))) = Tower(U)
        /\ m = n => U = T
<1> DEFINE p == Tower(T)
           q == Tower(U)
<1>1. /\ p \in Seq(Block) /\ Len(p) = n /\ \A i \in 1..n : p[i] \in T /\ Len(p[i]) = i
      /\ q \in Seq(Block) /\ Len(q) = m /\ \A i \in 1..m : q[i] \in U /\ Len(q[i]) = i
  BY TowerItems
<1> HIDE DEF p, q
<1>2. m <= n
  <2>1. CASE m = 0
    BY <2>1
  <2>2. CASE m > 0
    <3>1. PICK b \in U : Len(b) = m
      BY <2>2 DEF Stack
    <3>2. Len(b) \in 1..n
      BY <3>1 DEF Stack
    <3> QED BY <3>1, <3>2
  <2> QED BY <2>1, <2>2
<1>3. ASSUME NEW i \in 1..m PROVE p[i] = q[i]
  <2>1. i \in 1..n
    BY <1>2
  <2> QED BY <1>1, <2>1 DEF Stack
<1>4. SubSeq(p, 1, m) = q
  <2> DEFINE r == SubSeq(p, 1, m)
  <2>1. /\ r \in Seq(Block)
        /\ Len(r) = IF 1 <= m THEN m - 1 + 1 ELSE 0
        /\ \A i \in 1..(m - 1 + 1) : r[i] = p[1 + i - 1]
    <3>1. \A i \in 1..m : p[i] \in Block
      BY <1>1, <1>2, ElementOfSeq
    <3> QED BY <1>1, <1>2, <3>1, SubSeqProperties, 1 \in Int, m \in Int
  <2> HIDE DEF r
  <2>2. Len(r) = m
    BY <2>1
  <2>3. ASSUME NEW i \in 1..m PROVE r[i] = q[i]
    <3>1. i \in 1..(m - 1 + 1) /\ 1 + i - 1 = i
      OBVIOUS
    <3> QED BY <1>3, <2>1, <3>1
  <2>4. r = q
    BY <1>1, <2>1, <2>2, <2>3, SeqEqual
  <2> QED BY <2>4 DEF r
<1>5. ASSUME m = n PROVE U = T
  <2> SUFFICES ASSUME NEW b \in T PROVE b \in U
    OBVIOUS
  <2>1. Len(b) \in 1..m
    BY <1>5 DEF Stack
  <2>2. PICK c \in U : Len(c) = Len(b)
    BY <2>1 DEF Stack
  <2> QED BY <2>2 DEF Stack
<1> QED BY <1>1, <1>2, <1>4, <1>5 DEF p, q

(* A step puts blocks on the trail, or takes off the last.                 *)
LEMMA TrailStep ==
  ASSUME NoLoss, SyncInv, [Next]_vars
  PROVE \/ store.trail \subseteq store'.trail
        \/ /\ store.trail # {}
           /\ store'.trail = store.trail \ {Top(store.trail)}
<1>1. /\ Agree(store, batch, tip)
      /\ Written(store, batch).trail = store.trail \union batch.trail
  BY WrittenTrail
<1>2. ASSUME NEW synced, Finish(store, batch, synced) PROVE store.trail \subseteq store'.trail
  BY <1>1, <1>2 DEF Finish
<1>3. ASSUME RollbackTip, tip # NoBlock
      PROVE \/ store.trail \subseteq store'.trail
            \/ /\ store.trail # {}
               /\ store'.trail = store.trail \ {Top(store.trail)}
  <2>1. CASE store' = Written(store, batch) \/ store' = store
    BY <1>1, <2>1
  <2>2. CASE store' = Truncated(Written(store, batch), Height(tip) - 1)
    <3>1. store'.trail = (store.trail \union batch.trail) \ {tip}
      BY <1>1, <1>3, <2>2, WrittenTrail, TruncatedAgrees
    <3>2. CASE tip \notin store.trail
      BY <3>1, <3>2
    <3>3. CASE tip \in store.trail
      <4>1. /\ Len(Top(store.trail)) \in Nat /\ Len(tip) \in Nat
            /\ Len(Top(store.trail)) <= Len(tip)
            /\ Stack(store.trail, 1, Len(Top(store.trail)))
            /\ Stack(batch.trail, Len(Top(store.trail)) + 1, Len(tip))
        BY <1>1, MirrorTypes DEF Agree
      <4>2. Len(tip) = Len(Top(store.trail)) /\ tip = Top(store.trail)
        <5>1. Len(tip) \in 1..Len(Top(store.trail))
          BY <3>3, <4>1 DEF Stack
        <5> QED BY <3>3, <4>1, <5>1, StackTop
      <4>3. batch.trail = {}
        BY <4>1, <4>2 DEF Stack
      <4> QED BY <3>1, <3>3, <4>2, <4>3
    <3> QED BY <3>2, <3>3
  <2> QED BY <1>3, <2>1, <2>2, RollbackMemory
<1>4. CASE NodeNext \/ StartSync \/ CallFails \/ SyncNextHash \/ UNCHANGED vars
  BY <1>4 DEF NodeNext, NodeMine, NodeReorg, MoveNode, StartSync, CallFails, SyncNextHash, vars
<1>5. CASE SyncBlockchainInfo
  BY <1>2, <1>5 DEF SyncBlockchainInfo
<1>6. CASE SyncShrink
  BY <1>3, <1>6 DEF SyncShrink, SyncInv, Placed
<1>7. CASE SyncAnchor
  <2>1. tip # NoBlock
    BY <1>7 DEF SyncAnchor, SyncInv, Placed
  <2>2. CASE RollbackTip
    BY <1>3, <2>1, <2>2
  <2>3. CASE UNCHANGED store \/ Finish(store, batch, TRUE)
    BY <1>2, <2>3
  <2> QED BY <1>7, <2>2, <2>3 DEF SyncAnchor
<1>8. CASE SyncBlock
  <2> DEFINE f == Feed(walk)
             w == Written(store, f)
  <2>1. Agree(store, f, walk)
    <3>1. phase = "block"
      BY <1>8 DEF SyncBlock
    <3> QED BY <1>1, <3>1, FeedAgrees DEF SyncInv, Placed
  <2> HIDE DEF f
  <2>2. Agree(w, NoBatch, walk) /\ w.trail = store.trail \union f.trail
    BY <2>1, WrittenAgrees
  <2> HIDE DEF w
  <2>3. Written(w, NoBatch).trail = w.trail \union NoBatch.trail
    BY <2>2, WrittenAgrees
  <2>4. store' = store \/ store' = w \/ store' = Written(w, NoBatch)
    BY <1>8, BlockMemory DEF w, f
  <2> QED BY <2>2, <2>3, <2>4
<1>9. CASE Crash \/ Shutdown
  BY <1>1, <1>9 DEF Crash, Shutdown, Restart
<1> QED BY <1>4, <1>5, <1>6, <1>7, <1>8, <1>9 DEF Next, SyncNext

LEMMA MirrorStep ==
  ASSUME NoLoss, NoSink, SyncInv, PromiseInv, [Next]_vars
  PROVE [Mirror!Next]_(Mirror!vars)
<1> DEFINE T == store.trail
           U == store'.trail
           n == Len(Top(T))
           m == Len(Top(U))
<1>1. /\ Stack(T, 1, n) /\ n \in Nat /\ Stack(U, 1, m) /\ m \in Nat
      /\ store.rows = T /\ store'.rows = U
  <2>1. SyncInv' /\ PromiseInv'
    BY SyncStep, PromiseStep
  <2>2. Agree(store, batch, tip) /\ Agree(store, NoBatch, Top(T))
    BY DropAgrees DEF SyncInv, Memory, Laid
  <2>3. Agree(store', batch', tip')
    BY <2>1 DEF SyncInv, Memory, Laid, Agree
  <2>4. Stack(T, 1, n) /\ n \in Nat
    BY <2>2, MirrorTypes DEF Agree
  <2>5. Stack(U, 1, m) /\ m \in Nat
    BY <2>3, MirrorTypes DEF Agree
  <2> QED BY <2>1, <2>4, <2>5 DEF PromiseInv, Journals
<1>2. /\ [i \in 1..Len(Top(store.trail)) |-> AtHeight(i - 1)] = Tower(T)
      /\ [i \in 1..Len(Top(store.trail)) |-> AtHeight(i - 1)]' = Tower(U)
  BY DEF AtHeight, Tower, Top, Height
<1> HIDE DEF T, U, n, m
<1>3. /\ Tower(T) \in Seq(Block) /\ Len(Tower(T)) = n
      /\ {Tower(T)[i] : i \in 1..Len(Tower(T))} = T
      /\ Tower(U) \in Seq(Block) /\ Len(Tower(U)) = m
      /\ {Tower(U)[i] : i \in 1..Len(Tower(U))} = U
  BY <1>1, TowerItems
<1>4. CASE T = U
  <2>1. UNCHANGED Mirror!vars
    BY <1>1, <1>2, <1>4 DEF Mirror!vars
  <2> QED BY <2>1
<1>5. CASE T \subseteq U /\ T # U
  <2>1. m > n /\ SubSeq(Tower(U), 1, Len(Tower(T))) = Tower(T)
    BY <1>1, <1>5, TowerPrefix
  <2> DEFINE p == Tower(T)
             q == Tower(U)
  <2>2. /\ Len(q) > Len(p) /\ SubSeq(q, 1, Len(p)) = p
        /\ {q[i] : i \in 1..Len(q)} = U
    BY <1>3, <2>1
  <2> HIDE DEF p, q
  <2>3. /\ [i \in 1..Len(Top(store.trail)) |-> AtHeight(i - 1)] = p
        /\ [i \in 1..Len(Top(store.trail)) |-> AtHeight(i - 1)]' = q
    BY <1>2 DEF p, q
  <2>4. Mirror!Push
    BY <1>1, <2>2, <2>3 DEF Mirror!Push, Mirror!Content
  <2> QED BY <2>4 DEF Mirror!Next
<1>6. CASE T # {} /\ U = T \ {Top(T)}
  <2>1. n > 0 /\ m = n - 1
    <3>1. n > 0 /\ Top(T) \in T /\ U \subseteq T
      BY <1>1, <1>6, StackTop DEF n
    <3>2. m <= n /\ m # n
      BY <1>1, <1>6, <3>1, TowerPrefix
    <3>3. n - 1 <= m
      <4>1. CASE n = 1
        BY <1>1, <4>1
      <4>2. CASE n > 1
        <5>0. n - 1 \in 1..n
          BY <1>1, <4>2
        <5>1. PICK b \in T : Len(b) = n - 1
          BY <1>1, <5>0 DEF Stack
        <5>2. b \in U /\ Len(b) \in 1..m
          BY <1>1, <1>6, <5>1 DEF Stack, n
        <5> QED BY <1>1, <5>1, <5>2
      <4> QED BY <1>1, <3>1, <4>1, <4>2
    <3> QED BY <1>1, <3>1, <3>2, <3>3
  <2>2. SubSeq(Tower(T), 1, Len(Tower(T)) - 1) = Tower(U)
    <3>1. U \subseteq T
      BY <1>6
    <3>2. SubSeq(Tower(T), 1, Len(Tower(U))) = Tower(U)
      BY <1>1, <3>1, TowerPrefix
    <3> QED BY <1>3, <2>1, <3>2
  <2>3. Tower(T) # <<>>
    BY <1>3, <2>1, EmptySeq
  <2>4. Mirror!Pop
    BY <1>1, <1>2, <1>3, <2>2, <2>3 DEF Mirror!Pop, Mirror!Content
  <2> QED BY <2>4 DEF Mirror!Next
<1>7. T \subseteq U \/ (T # {} /\ U = T \ {Top(T)})
  BY TrailStep DEF T, U
<1> QED BY <1>4, <1>5, <1>6, <1>7

LEMMA MirrorInit == Init => Mirror!Init
<1> SUFFICES ASSUME Init PROVE Mirror!Init
  OBVIOUS
<1>1. store.trail = {} /\ store.rows = {}
  BY DEF Init, Empty
<1>2. Stack({}, 1, 0)
  BY StackNone, 0 \in Nat, 0 + 1 = 1
<1>3. Tower({}) = <<>>
  BY <1>2, TowerItems, EmptySeq
<1>4. [i \in 1..Len(Top(store.trail)) |-> AtHeight(i - 1)] = Tower({})
  BY <1>1 DEF AtHeight, Tower
<1> QED BY <1>1, <1>3, <1>4 DEF Mirror!Init

(* What a reader of the mirror finds is the rows of one stack of blocks,   *)
(* of all of them and no other, and it changes at its top only: through    *)
(* batches, rollbacks, pruned journals, failing calls and process ends.    *)
THEOREM SyncKeepsPromise == NoLoss /\ NoSink => (Spec => MirrorsAChain)
<1> DEFINE I == SyncInv /\ PromiseInv
<1>1. Init => I
  BY InitSync, InitPromise
<1>2. ASSUME NoLoss, NoSink PROVE Spec => MirrorsAChain
  <2>1. I /\ [Next]_vars => I'
    BY <1>2, SyncStep, PromiseStep
  <2>2. I /\ [Next]_vars => [Mirror!Next]_(Mirror!vars)
    BY <1>2, MirrorStep
  <2> QED BY <1>1, <2>1, <2>2, MirrorInit, PTL DEF Spec, MirrorsAChain, Mirror!Spec
<1> QED BY <1>2
=============================================================================
