--------------------------- MODULE OyoPrefetchProofs ---------------------------
(***************************************************************************)
(* What holds of OyoPrefetch for every number of workers, window, byte     *)
(* bound and length of chain: its types, that answers are blocks of the    *)
(* node's at the height asked for, that no height is lost or fetched       *)
(* twice, and that the indexes, the bytes and the window agree.            *)
(***************************************************************************)
EXTENDS OyoPrefetch, SequenceTheorems, FiniteSetTheorems, TLAPS

-----------------------------------------------------------------------------
(* The inductive invariant, one part per concern.                          *)

InFlight(w) == work[w].pc \in {"hash", "block"}

(* A block of a chain that was the node's. *)
Seen(b) == \E c \in been : Extends(c, b)

(* What waits in the channel: heights that are scheduled, each once and    *)
(* untouched as yet.                                                       *)
JobsInv ==
  /\ \A i \in 1..Len(jobs) :
       /\ jobs[i] < next /\ ~entry[jobs[i]].done /\ ~entry[jobs[i]].block
       /\ jobs[i] \notin byHash
  /\ \A i, j \in 1..Len(jobs) : jobs[i] = jobs[j] => i = j

(* What a worker is at: a height that no other and no job is for, whose    *)
(* hash is indexed once it has been fetched.                               *)
WorkInv ==
  \A w \in Worker :
    /\ ~InFlight(w) => work[w].h = 0
    /\ InFlight(w) =>
         /\ work[w].h \in Start..Target /\ work[w].h < next
         /\ ~entry[work[w].h].done /\ ~entry[work[w].h].block
         /\ \A i \in 1..Len(jobs) : jobs[i] # work[w].h
         /\ \A v \in Worker : work[v].h = work[w].h => v = w
         /\ work[w].h \in byHash <=> work[w].pc = "block"

(* An entry that is not done is on its way. *)
CarriedInv ==
  \A h \in Start..Target :
    h < next /\ ~entry[h].done =>
      \/ \E i \in 1..Len(jobs) : jobs[i] = h
      \/ \E w \in Worker : work[w].h = h

(* The entries against the indexes. *)
EntryInv ==
  \A h \in Start..Target :
    /\ h >= next => entry[h] = Entry /\ h \notin byHeight
    /\ h < next /\ ~entry[h].done => h \in byHeight
    /\ entry[h].block => entry[h].done /\ h \in byHeight
    /\ h \in byHash <=> entry[h].hash # NoBlock
    /\ h \in byHash => Height(entry[h].hash) = h /\ Seen(entry[h].hash)
    /\ h \in byHeight /\ HashReady(entry[h]) => h \in byHash

(* The node and the operation. *)
WalkInv ==
  /\ node \in been
  /\ AnswersAreNodes
  /\ at \notin {"anchor", "closed"} => walked # <<>>
  /\ at = "waitHash" => Upcoming \in byHeight
  /\ at \in {"block", "waitBlock", "askBlock"} =>
       walk # NoBlock /\ Height(walk) = Upcoming /\ Seen(walk)

PrefetchInv ==
  TypeOK /\ JobsInv /\ WorkInv /\ CarriedInv /\ EntryInv /\ WalkInv /\ WindowExact

-----------------------------------------------------------------------------
(* Blocks.                                                                 *)

(* A block is a sequence of choices. *)
LEMMA BlockSeq ==
  /\ \A b \in Block : b \in Seq(Choice) /\ Len(b) \in 1..(MaxHeight + 1) /\ b # NoBlock
  /\ \A b \in Seq(Choice) : Len(b) \in 1..(MaxHeight + 1) => b \in Block
<1>1. ASSUME NEW b \in Block
      PROVE b \in Seq(Choice) /\ Len(b) \in 1..(MaxHeight + 1) /\ b # NoBlock
  <2>1. PICK n \in 1..(MaxHeight + 1) : b \in [1..n -> Choice]
    BY DEF Block
  <2>2. n \in Nat
    BY PrefetchAssumption
  <2>3. b \in Seq(Choice) /\ Len(b) = n
    BY <2>1, <2>2, SeqDef, LenProperties
  <2>4. Len(NoBlock) = 0
    BY DEF NoBlock
  <2> QED BY <2>3, <2>4, PrefetchAssumption
<1>2. ASSUME NEW b \in Seq(Choice), Len(b) \in 1..(MaxHeight + 1) PROVE b \in Block
  <2>1. b \in [1..Len(b) -> Choice]
    BY LenProperties
  <2> QED BY <2>1, <1>2 DEF Block
<1> QED BY <1>1, <1>2

LEMMA HeightType ==
  ASSUME NEW b \in Block
  PROVE Len(b) \in Nat /\ Height(b) \in 0..MaxHeight /\ Len(b) = Height(b) + 1
BY BlockSeq, PrefetchAssumption DEF Height

(* The block at height h of the chain below b. *)
LEMMA CutBlock ==
  ASSUME NEW b \in Block, NEW h \in 0..Height(b)
  PROVE Cut(b, h) \in Block /\ Height(Cut(b, h)) = h /\ Extends(b, Cut(b, h))
<1>1. b \in Seq(Choice) /\ Len(b) \in Nat /\ Len(b) <= MaxHeight + 1 /\ h + 1 \in 1..Len(b)
  BY BlockSeq, HeightType
<1>2. Cut(b, h) \in Seq(Choice) /\ Len(Cut(b, h)) = h + 1
  <2>1. \A i \in 1..(h + 1) : b[i] \in Choice
    BY <1>1, ElementOfSeq
  <2> QED BY <2>1, <1>1, SubSeqProperties, h \in Int DEF Cut
<1>3. Cut(b, h) \in Block
  BY <1>1, <1>2, BlockSeq, PrefetchAssumption
<1> QED BY <1>1, <1>2, <1>3 DEF Extends, Cut, Height

LEMMA AppendBlock ==
  ASSUME NEW b \in Block, NEW c \in Choice, Height(Append(b, c)) <= MaxHeight
  PROVE Append(b, c) \in Block
<1>1. b \in Seq(Choice) /\ Len(b) \in Nat
  BY BlockSeq, HeightType
<1>2. Append(b, c) \in Seq(Choice) /\ Len(Append(b, c)) = Len(b) + 1
  BY <1>1, AppendProperties
<1>3. Len(Append(b, c)) \in 1..(MaxHeight + 1)
  BY <1>1, <1>2, PrefetchAssumption DEF Height
<1> QED BY <1>2, <1>3, BlockSeq

(* What a chain of the node's has at height h has been seen. *)
LEMMA CutSeen ==
  ASSUME TypeOK, WalkInv, NEW h \in 0..Height(node)
  PROVE Cut(node, h) \in Block /\ Height(Cut(node, h)) = h /\ Seen(Cut(node, h))
BY CutBlock DEF TypeOK, WalkInv, Seen

-----------------------------------------------------------------------------
(* How far scheduleMore goes.                                              *)

(* What it adds is within the target, and each of it had room. *)
LEMMA AddedFits ==
  ASSUME TypeOK, NEW held \in Nat, held <= Ahead
  PROVE /\ Added(held) \in 0..(Ahead + 1)
        /\ next + Added(held) - 1 <= Target
        /\ held + Added(held) <= Ahead
<1> DEFINE fits(n) == Within(next + n - 1) /\ \A i \in 1..n : Room(held + i - 1)
           rest == Target - next + 1
           least(m, n) == IF m < n THEN m ELSE n
           n0 == IF bytes < MaxBytes THEN least(Ahead - held, rest)
                 ELSE IF held = 0 THEN least(1, rest) ELSE 0
<1>1. /\ Ahead \in Nat /\ Ahead > 0 /\ Target \in Nat /\ next \in Nat /\ rest \in Nat
      /\ bytes \in Nat /\ MaxBytes \in Nat
  BY PrefetchAssumption DEF TypeOK
<1>2. n0 \in 0..(Ahead + 1) /\ n0 <= rest /\ held + n0 <= Ahead
  BY <1>1
<1>3. fits(n0)
  <2>1. Within(next + n0 - 1)
    BY <1>1, <1>2 DEF Within
  <2>2. ASSUME NEW i \in 1..n0 PROVE Room(held + i - 1)
    <3>1. i \in Nat /\ i >= 1 /\ i <= n0 /\ held + i - 1 < Ahead
      BY <1>1, <1>2
    <3>2. bytes < MaxBytes \/ (held = 0 /\ n0 <= 1)
      BY <3>1, <1>1
    <3> HIDE DEF n0
    <3> QED BY <1>2, <3>1, <3>2 DEF Room
  <2> QED BY <2>1, <2>2
<1>4. ~fits(n0 + 1)
  <2>1. CASE n0 = rest
    BY <2>1, <1>1 DEF Within
  <2>2. CASE n0 < rest
    <3>1. n0 + 1 \in 1..(n0 + 1) /\ held + (n0 + 1) - 1 = held + n0
      BY <1>1, <1>2
    <3>2. ~Room(held + n0)
      BY <2>2, <1>1 DEF Room
    <3> HIDE DEF n0
    <3> QED BY <3>1, <3>2
  <2> QED BY <1>2, <2>1, <2>2, <1>1
<1>5. \E n \in 0..(Ahead + 1) : fits(n) /\ ~fits(n + 1)
  BY <1>2, <1>3, <1>4
<1>6. Added(held) \in 0..(Ahead + 1) /\ fits(Added(held))
  BY <1>5 DEF Added
<1>7. held + Added(held) <= Ahead
  <2>1. CASE Added(held) = 0
    BY <2>1
  <2>2. CASE Added(held) > 0
    <3>1. Added(held) \in 1..Added(held) /\ Added(held) \in Nat
      BY <2>2, <1>6, <1>1
    <3>2. Room(held + Added(held) - 1)
      BY <3>1, <1>6
    <3> QED BY <3>1, <3>2, <1>1 DEF Room
  <2> QED BY <2>1, <2>2, <1>6, <1>1
<1> QED BY <1>6, <1>7 DEF Within

-----------------------------------------------------------------------------
(* The start.                                                              *)

LEMMA InitInv == Init => PrefetchInv
<1> SUFFICES ASSUME Init PROVE PrefetchInv
  OBVIOUS
<1> USE PrefetchAssumption DEF Init
<1>1. /\ Window \in Nat /\ Window <= Ahead /\ Start + Window - 1 <= Target
      /\ Start \in Nat /\ Start > 0 /\ Target \in Nat
      /\ next \in Nat /\ next = Start + Window /\ byHeight = Start..(next - 1)
  BY DEF Window
<1>2. jobs \in Seq(Start..Target) /\ Len(jobs) = Window /\ \A i \in 1..Window : jobs[i] = Start + i - 1
  <2>1. \A i \in 1..Window : Start + i - 1 \in Start..Target
    BY <1>1
  <2>2. jobs \in [1..Window -> Start..Target]
    BY <2>1
  <2> QED BY <2>2, <1>1, SeqDef, LenProperties
<1>3. Trunk \in Block
  <2>1. Trunk \in [1..(Target + 1) -> Choice] /\ Target + 1 \in 1..(MaxHeight + 1)
    BY DEF Trunk, Choice
  <2> QED BY <2>1 DEF Block
<1>4. TypeOK
  <2>1. Entry \in [hash : Block \union {NoBlock}, block : BOOLEAN, err : BOOLEAN, done : BOOLEAN]
    BY DEF Entry
  <2>2. [pc |-> "idle", h |-> 0] \in [pc : {"idle", "hash", "block", "exited"}, h : 0..Target]
    OBVIOUS
  <2>3. byHeight \subseteq Start..Target /\ next \in Start..(Target + 1)
    BY <1>1
  <2>4. walked \in Seq(Block) /\ goal \in Int /\ at \in Pc /\ bytes \in Nat /\ reorgs \in 0..MaxReorgs
    BY DEF Pc
  <2> QED BY <1>2, <1>3, <2>1, <2>2, <2>3, <2>4 DEF TypeOK
<1>5. \A h \in Start..Target : entry[h] = Entry
  OBVIOUS
<1>6. JobsInv
  <2>1. \A i \in 1..Len(jobs) : jobs[i] \in Start..Target /\ jobs[i] < next
    BY <1>1, <1>2
  <2>2. \A i, j \in 1..Len(jobs) : jobs[i] = jobs[j] => i = j
    BY <1>1, <1>2
  <2>3. ~Entry.done /\ ~Entry.block /\ byHash = {}
    BY DEF Entry
  <2> QED BY <2>1, <2>2, <2>3, <1>5 DEF JobsInv
<1>7. WorkInv
  BY DEF WorkInv, InFlight
<1>8. CarriedInv
  <2>1. ASSUME NEW h \in Start..Target, h < next PROVE \E i \in 1..Len(jobs) : jobs[i] = h
    <3>1. h - Start + 1 \in 1..Window /\ Start + (h - Start + 1) - 1 = h
      BY <1>1, <2>1
    <3> QED BY <3>1, <1>2
  <2> QED BY <2>1 DEF CarriedInv
<1>9. EntryInv
  BY <1>1, <1>5 DEF EntryInv, Entry, HashReady
<1>10. WalkInv
  BY DEF WalkInv, AnswersAreNodes
<1>11. WindowExact
  <2>1. Cardinality(byHeight) <= Ahead
    <3>1. Start \in Int /\ next - 1 \in Int
      BY <1>1
    <3>2. Cardinality(Start..(next - 1)) = IF Start > next - 1 THEN 0 ELSE next - 1 - Start + 1
      BY <3>1, FS_Interval
    <3> QED BY <3>2, <1>1
  <2>2. {h \in byHeight : entry[h].block} = {}
    BY <1>1, <1>5 DEF Entry
  <2> QED BY <2>1, <2>2, FS_EmptySet DEF WindowExact
<1> QED BY <1>4, <1>6, <1>7, <1>8, <1>9, <1>10, <1>11 DEF PrefetchInv

-----------------------------------------------------------------------------
(* Steps that leave the entries and the workers alone.                     *)

LEMMA CacheFrame ==
  ASSUME PrefetchInv, UNCHANGED <<cacheVars, work>>, been \subseteq been'
  PROVE JobsInv' /\ WorkInv' /\ CarriedInv' /\ EntryInv' /\ WindowExact'
<1>1. /\ entry' = entry /\ byHeight' = byHeight /\ byHash' = byHash /\ jobs' = jobs
      /\ next' = next /\ bytes' = bytes /\ work' = work
  BY DEF cacheVars
<1>2. \A b : Seen(b) => Seen(b)'
  BY DEF Seen
<1>3. EntryInv'
  BY <1>1, <1>2 DEF PrefetchInv, EntryInv, HashReady
<1> QED BY <1>1, <1>3 DEF PrefetchInv, JobsInv, WorkInv, CarriedInv, WindowExact, InFlight

LEMMA NodeKeeps ==
  ASSUME PrefetchInv, NEW b \in Block, MoveNode(b), reorgs' \in 0..MaxReorgs
  PROVE PrefetchInv'
<1> USE DEF PrefetchInv
<1>1. /\ node' = b /\ been' = been \union {b} /\ UNCHANGED <<cacheVars, stop, work, opVars>>
  BY DEF MoveNode
<1>2. TypeOK'
  BY <1>1 DEF TypeOK, cacheVars, opVars
<1>3. WalkInv'
  <2>1. \A c : Seen(c) => Seen(c)'
    BY <1>1 DEF Seen
  <2>2. AnswersAreNodes'
    BY <1>1 DEF WalkInv, AnswersAreNodes, opVars
  <2> QED BY <1>1, <2>1, <2>2 DEF WalkInv, opVars, cacheVars, Upcoming, Tip
<1>4. been \subseteq been' /\ UNCHANGED <<cacheVars, work>>
  BY <1>1
<1> QED BY <1>2, <1>3, <1>4, CacheFrame

LEMMA MineKeeps == ASSUME PrefetchInv, NodeMine PROVE PrefetchInv'
<1>1. MoveNode(Append(node, 0)) /\ reorgs' = reorgs
  BY DEF NodeMine
<1>2. node \in Block /\ 0 \in Choice /\ reorgs \in 0..MaxReorgs
  BY DEF PrefetchInv, TypeOK, Choice
<1>3. Append(node, 0) \in Block
  BY <1>1, <1>2, AppendBlock DEF MoveNode
<1> QED BY <1>1, <1>2, <1>3, NodeKeeps

LEMMA ReorgKeeps == ASSUME PrefetchInv, NodeReorg PROVE PrefetchInv'
<1>1. PICK h \in 0..(Height(node) - 1), c \in Choice :
        /\ reorgs < MaxReorgs /\ reorgs' = reorgs + 1
        /\ MoveNode(Append(Cut(node, h), c))
  BY DEF NodeReorg
<1>2. node \in Block /\ reorgs \in 0..MaxReorgs
  BY DEF PrefetchInv, TypeOK
<1>3. h \in 0..Height(node)
  BY <1>2, HeightType
<1>4. Append(Cut(node, h), c) \in Block
  BY <1>1, <1>2, <1>3, CutBlock, AppendBlock DEF MoveNode
<1>5. reorgs' \in 0..MaxReorgs
  BY <1>1, <1>2, PrefetchAssumption
<1> QED BY <1>1, <1>4, <1>5, NodeKeeps

(* The step of the operation that takes no block: what is left to show is  *)
(* where it goes.                                                          *)
LEMMA OpFrame ==
  ASSUME PrefetchInv, UNCHANGED <<nodeVars, cacheVars, work, walked>>,
         stop' \in BOOLEAN, goal' \in Int, at' \in Pc, walk' \in Block \union {NoBlock},
         at' \notin {"anchor", "closed"} => walked # <<>>,
         at' = "waitHash" => Upcoming \in byHeight,
         at' \in {"block", "waitBlock", "askBlock"} =>
           walk' # NoBlock /\ Height(walk') = Upcoming /\ Seen(walk')
  PROVE PrefetchInv'
<1> USE DEF PrefetchInv
<1>1. TypeOK'
  BY DEF TypeOK, cacheVars, nodeVars
<1>2. WalkInv'
  <2>1. \A c : Seen(c) => Seen(c)'
    BY DEF Seen, nodeVars
  <2>2. Upcoming' = Upcoming /\ byHeight' = byHeight
    BY DEF Upcoming, Tip, cacheVars
  <2>3. AnswersAreNodes'
    BY DEF WalkInv, AnswersAreNodes, nodeVars
  <2> QED BY <2>1, <2>2, <2>3 DEF WalkInv, nodeVars
<1>3. been \subseteq been' /\ UNCHANGED <<cacheVars, work>>
  BY DEF nodeVars
<1> QED BY <1>1, <1>2, <1>3, CacheFrame

(* The block the operation is at. *)
LEMMA TipType ==
  ASSUME TypeOK, walked # <<>>
  PROVE Tip \in Block /\ Len(walked) \in Nat \ {0} /\ Upcoming \in 1..(MaxHeight + 1)
<1>1. walked \in Seq(Block) /\ Len(walked) \in Nat /\ Len(walked) # 0
  BY EmptySeq DEF TypeOK
<1>2. Tip \in Block
  BY <1>1, ElementOfSeq DEF Tip
<1> QED BY <1>1, <1>2, HeightType, PrefetchAssumption DEF Upcoming

LEMMA AnchorKeeps == ASSUME PrefetchInv, Anchor PROVE PrefetchInv'
<1> USE DEF PrefetchInv
<1>1. /\ goal' = Height(node) /\ at' = "next"
      /\ UNCHANGED <<nodeVars, cacheVars, stop, work, walk>>
  BY DEF Anchor, GoTo
<1>2. PICK h \in 0..(Start - 1) : h <= Height(node) /\ walked' = <<Cut(node, h)>>
  BY DEF Anchor
<1>3. h \in 0..Height(node) /\ Height(node) \in Int
  BY <1>2, HeightType, PrefetchAssumption DEF TypeOK
<1>4. Cut(node, h) \in Block /\ Height(Cut(node, h)) = h /\ Seen(Cut(node, h))
  BY <1>3, CutSeen
<1>5. walked' \in Seq(Block) /\ Len(walked') = 1 /\ walked'[1] = Cut(node, h) /\ walked' # <<>>
  BY <1>2, <1>4
<1>6. TypeOK'
  BY <1>1, <1>3, <1>5 DEF TypeOK, nodeVars, cacheVars, Pc
<1>7. WalkInv'
  <2>1. AnswersAreNodes'
    BY <1>1, <1>3, <1>4, <1>5 DEF AnswersAreNodes, nodeVars, Seen
  <2> QED BY <1>1, <1>5, <2>1 DEF WalkInv, nodeVars
<1> QED BY <1>1, <1>6, <1>7, CacheFrame DEF nodeVars

LEMMA CloseKeeps == ASSUME PrefetchInv, Close PROVE PrefetchInv'
<1>1. /\ at' = "closed" /\ stop' = TRUE
      /\ UNCHANGED <<nodeVars, cacheVars, work, goal, walk, walked>>
  BY DEF Close, GoTo
<1> QED BY <1>1, OpFrame DEF PrefetchInv, TypeOK, Pc

LEMMA RequestHashKeeps == ASSUME PrefetchInv, RequestHash PROVE PrefetchInv'
<1>1. /\ at = "next" /\ at' = IF Upcoming \in byHeight THEN "waitHash" ELSE "askHash"
      /\ UNCHANGED <<nodeVars, cacheVars, stop, work, goal, walk, walked>>
  BY DEF RequestHash, GoTo
<1>2. walked # <<>>
  BY <1>1 DEF PrefetchInv, WalkInv
<1> QED BY <1>1, <1>2, OpFrame DEF PrefetchInv, TypeOK, Pc

LEMMA HashArrivesKeeps == ASSUME PrefetchInv, HashArrives PROVE PrefetchInv'
<1> USE DEF PrefetchInv
<1> DEFINE b == entry[Upcoming].hash
<1>1. /\ at = "waitHash" /\ HashReady(entry[Upcoming]) /\ walk' = b /\ at' = "block"
      /\ UNCHANGED <<nodeVars, cacheVars, stop, work, goal, walked>>
  BY DEF HashArrives, Given, GoTo
<1>2. walked # <<>> /\ Upcoming \in byHeight
  BY <1>1 DEF WalkInv
<1>3. Upcoming \in Start..Target /\ Upcoming \in byHash
  BY <1>1, <1>2 DEF TypeOK, EntryInv
<1>4. b # NoBlock /\ Height(b) = Upcoming /\ Seen(b)
  BY <1>3 DEF EntryInv
<1>5. b \in Block \union {NoBlock}
  BY <1>3 DEF TypeOK
<1> QED BY <1>1, <1>2, <1>4, <1>5, OpFrame DEF TypeOK, Pc

LEMMA HashMissedKeeps == ASSUME PrefetchInv, HashMissed PROVE PrefetchInv'
<1>1. /\ at = "waitHash" /\ at' = "askHash"
      /\ UNCHANGED <<nodeVars, cacheVars, stop, work, goal, walk, walked>>
  BY DEF HashMissed, GoTo
<1>2. walked # <<>>
  BY <1>1 DEF PrefetchInv, WalkInv
<1> QED BY <1>1, <1>2, OpFrame DEF PrefetchInv, TypeOK, Pc

LEMMA AskHashKeeps == ASSUME PrefetchInv, AskHash PROVE PrefetchInv'
<1> USE DEF PrefetchInv
<1>1. /\ at = "askHash" /\ Upcoming <= Height(node) /\ walk' = Cut(node, Upcoming)
      /\ at' = "block" /\ UNCHANGED <<nodeVars, cacheVars, stop, work, goal, walked>>
  BY DEF AskHash, Given, GoTo
<1>2. walked # <<>>
  BY <1>1 DEF WalkInv
<1>3. Upcoming \in 0..Height(node)
  BY <1>1, <1>2, TipType, HeightType, PrefetchAssumption DEF TypeOK
<1>4. walk' \in Block /\ Height(walk') = Upcoming /\ Seen(walk') /\ walk' # NoBlock
  BY <1>1, <1>3, CutSeen, BlockSeq
<1> QED BY <1>1, <1>2, <1>4, OpFrame DEF TypeOK, Pc

LEMMA RequestBlockKeeps == ASSUME PrefetchInv, RequestBlock PROVE PrefetchInv'
<1>1. /\ at = "block" /\ at' \in {"waitBlock", "askBlock"}
      /\ UNCHANGED <<nodeVars, cacheVars, stop, work, goal, walk, walked>>
  BY DEF RequestBlock, GoTo
<1>2. walked # <<>> /\ walk # NoBlock /\ Height(walk) = Upcoming /\ Seen(walk)
  BY <1>1 DEF PrefetchInv, WalkInv
<1> QED BY <1>1, <1>2, OpFrame DEF PrefetchInv, TypeOK, Pc

LEMMA BlockMissedKeeps == ASSUME PrefetchInv, BlockMissed PROVE PrefetchInv'
<1>1. /\ at = "waitBlock" /\ at' = "askBlock"
      /\ UNCHANGED <<nodeVars, cacheVars, stop, work, goal, walk, walked>>
  BY DEF BlockMissed, GoTo
<1>2. walked # <<>> /\ walk # NoBlock /\ Height(walk) = Upcoming /\ Seen(walk)
  BY <1>1 DEF PrefetchInv, WalkInv
<1> QED BY <1>1, <1>2, OpFrame DEF PrefetchInv, TypeOK, Pc

(* One more block applied. *)
LEMMA ApplyKeeps ==
  ASSUME PrefetchInv, at \in {"waitBlock", "askBlock"}, NEW pc \in {"schedule", "next"},
         Apply(pc), UNCHANGED nodeVars
  PROVE WalkInv' /\ walked' \in Seq(Block)
<1> USE DEF PrefetchInv
<1>1. walked' = Append(walked, walk) /\ at' = pc /\ node' = node /\ been' = been
  BY DEF Apply, GoTo, nodeVars
<1>2. walked # <<>> /\ walk \in Block /\ Height(walk) = Upcoming /\ Seen(walk)
  BY DEF WalkInv, TypeOK
<1>3. walked \in Seq(Block) /\ Len(walked) \in Nat \ {0}
  BY <1>2, TipType DEF TypeOK
<1>4. /\ walked' \in Seq(Block) /\ Len(walked') = Len(walked) + 1
      /\ \A i \in 1..Len(walked) : walked'[i] = walked[i]
      /\ walked'[Len(walked) + 1] = walk
  BY <1>1, <1>2, <1>3, AppendProperties
<1>5. Height(walked[1]) \in Int
  BY <1>3, ElementOfSeq, HeightType
<1>6. Height(walk) = Height(walked[1]) + (Len(walked) + 1) - 1
  BY <1>2, <1>3, <1>5 DEF WalkInv, AnswersAreNodes, Upcoming, Tip
<1>7. AnswersAreNodes'
  <2> SUFFICES ASSUME NEW i \in 1..Len(walked')
               PROVE /\ Height(walked'[i]) = Height(walked'[1]) + i - 1
                     /\ \E b \in been' : Extends(b, walked'[i])
    BY DEF AnswersAreNodes
  <2>1. walked'[1] = walked[1]
    BY <1>3, <1>4
  <2>2. CASE i \in 1..Len(walked)
    BY <2>1, <2>2, <1>1, <1>4 DEF WalkInv, AnswersAreNodes
  <2>3. CASE i = Len(walked) + 1
    BY <2>1, <2>3, <1>1, <1>2, <1>4, <1>6 DEF Seen
  <2> QED BY <2>2, <2>3, <1>3, <1>4
<1>8. walked' # <<>>
  BY <1>3, <1>4
<1> QED BY <1>1, <1>4, <1>7, <1>8 DEF WalkInv

LEMMA AskBlockKeeps == ASSUME PrefetchInv, AskBlock PROVE PrefetchInv'
<1>1. /\ at = "askBlock" /\ Apply("next") /\ at' = "next"
      /\ UNCHANGED <<nodeVars, cacheVars, stop, work, goal, walk>>
  BY DEF AskBlock, Apply, GoTo
<1>2. WalkInv' /\ walked' \in Seq(Block)
  BY <1>1, ApplyKeeps
<1>3. TypeOK'
  BY <1>1, <1>2 DEF PrefetchInv, TypeOK, nodeVars, cacheVars, Pc
<1> QED BY <1>1, <1>2, <1>3, CacheFrame DEF PrefetchInv, nodeVars

-----------------------------------------------------------------------------
(* The steps of the workers.                                               *)

Blocks == {h \in byHeight : entry[h].block}

LEMMA FiniteCounts ==
  ASSUME TypeOK
  PROVE /\ IsFiniteSet(byHeight) /\ Cardinality(byHeight) \in Nat
        /\ IsFiniteSet(Blocks) /\ Cardinality(Blocks) \in Nat
<1>1. IsFiniteSet(Start..Target)
  BY PrefetchAssumption, FS_Interval
<1>2. byHeight \in SUBSET (Start..Target) /\ Blocks \in SUBSET (Start..Target)
  BY DEF TypeOK, Blocks
<1> QED BY <1>1, <1>2, FS_Subset, FS_CardinalityType

(* What a worker is at. *)
LEMMA WorkerAt ==
  ASSUME PrefetchInv, NEW w \in Worker, InFlight(w)
  PROVE /\ work[w].h \in Start..Target /\ work[w].h < next /\ work[w].h \in byHeight
        /\ work[w].h \in Nat /\ work[w].h # 0
        /\ entry[work[w].h] \in [hash : Block \union {NoBlock}, block : BOOLEAN,
                                 err : BOOLEAN, done : BOOLEAN]
<1>1. /\ work[w].h \in Start..Target /\ work[w].h < next /\ ~entry[work[w].h].done
  BY DEF PrefetchInv, WorkInv
<1> QED BY <1>1, PrefetchAssumption DEF PrefetchInv, TypeOK, EntryInv

LEMMA WorkWalk ==
  ASSUME WalkInv, UNCHANGED <<nodeVars, opVars, byHeight>>
  PROVE WalkInv'
<1>1. AnswersAreNodes'
  BY DEF WalkInv, AnswersAreNodes, nodeVars, opVars
<1>2. \A c : Seen(c) <=> Seen(c)'
  BY DEF Seen, nodeVars
<1> QED BY <1>1, <1>2 DEF WalkInv, nodeVars, opVars, Upcoming, Tip

LEMMA ExitKeeps == ASSUME PrefetchInv, NEW w \in Worker, Exit(w) PROVE PrefetchInv'
<1> USE DEF PrefetchInv
<1>1. /\ work[w].pc = "idle" /\ work' = [work EXCEPT ![w] = [pc |-> "exited", h |-> 0]]
      /\ UNCHANGED <<nodeVars, cacheVars, stop, opVars>>
  BY DEF Exit
<1>2. /\ entry' = entry /\ byHeight' = byHeight /\ byHash' = byHash /\ jobs' = jobs
      /\ next' = next /\ bytes' = bytes /\ been' = been
  BY <1>1 DEF cacheVars, nodeVars
<1>3. work[w].h = 0 /\ \A v \in Worker : work'[v].h = work[v].h
  BY <1>1 DEF WorkInv, InFlight, TypeOK
<1>4. \A v \in Worker : InFlight(v)' => InFlight(v) /\ work'[v] = work[v]
  BY <1>1 DEF InFlight, TypeOK
<1>5. \A v \in Worker : ~InFlight(v)' => work'[v].h = 0
  BY <1>1 DEF InFlight, TypeOK, WorkInv
<1>6. TypeOK'
  <2>1. [pc |-> "exited", h |-> 0] \in [pc : {"idle", "hash", "block", "exited"}, h : 0..Target]
    BY PrefetchAssumption
  <2> QED BY <1>1, <1>2, <2>1 DEF TypeOK, nodeVars, opVars
<1>7. WorkInv'
  BY <1>2, <1>3, <1>4, <1>5 DEF WorkInv
<1>8. CarriedInv' /\ JobsInv' /\ WindowExact'
  BY <1>2, <1>3 DEF CarriedInv, JobsInv, WindowExact
<1>9. EntryInv'
  BY <1>2 DEF EntryInv, HashReady, Seen
<1> QED BY <1>1, <1>2, <1>6, <1>7, <1>8, <1>9, WorkWalk

LEMMA JobsTail ==
  ASSUME PrefetchInv, jobs # <<>>
  PROVE /\ Len(jobs) \in Nat \ {0} /\ Len(Tail(jobs)) = Len(jobs) - 1
        /\ Tail(jobs) \in Seq(Start..Target)
        /\ \A i \in 1..(Len(jobs) - 1) : Tail(jobs)[i] = jobs[i + 1] /\ i + 1 \in 1..Len(jobs)
        /\ Head(jobs) = jobs[1] /\ Head(jobs) \in Start..Target /\ 1 \in 1..Len(jobs)
<1>1. jobs \in Seq(Start..Target) /\ Len(jobs) \in Nat /\ Len(jobs) # 0
  BY EmptySeq DEF PrefetchInv, TypeOK
<1>2. /\ Tail(jobs) \in Seq(Start..Target) /\ Len(Tail(jobs)) = Len(jobs) - 1
      /\ \A i \in 1..Len(Tail(jobs)) : Tail(jobs)[i] = jobs[i + 1]
  BY <1>1, HeadTailProperties
<1>3. Head(jobs) = jobs[1]
  BY <1>1
<1>4. 1 \in 1..Len(jobs) /\ jobs[1] \in Start..Target
  <2>1. 1 \in 1..Len(jobs)
    BY <1>1
  <2> QED BY <1>1, <2>1, ElementOfSeq
<1>5. \A i \in 1..(Len(jobs) - 1) : i + 1 \in 1..Len(jobs)
  BY <1>1
<1> QED BY <1>1, <1>2, <1>3, <1>4, <1>5

(* The first job leaves the channel: what is left, and which heights are   *)
(* on their way.                                                           *)
LEMMA JobTaken ==
  ASSUME PrefetchInv, jobs # <<>>, jobs' = Tail(jobs)
  PROVE /\ \A i \in 1..Len(jobs') : \E j \in 1..Len(jobs) : j = i + 1 /\ jobs'[i] = jobs[j]
        /\ \A i \in 1..Len(jobs') : jobs'[i] # Head(jobs)
        /\ \A i, j \in 1..Len(jobs') : jobs'[i] = jobs'[j] => i = j
        /\ \A h : (\E i \in 1..Len(jobs) : jobs[i] = h) /\ h # Head(jobs)
                    => \E i \in 1..Len(jobs') : jobs'[i] = h
<1> USE DEF PrefetchInv
<1>1. Len(jobs') = Len(jobs) - 1 /\ Len(jobs) \in Nat \ {0}
  BY JobsTail
<1>2. ASSUME NEW i \in 1..Len(jobs')
      PROVE i + 1 \in 1..Len(jobs) /\ jobs'[i] = jobs[i + 1] /\ i + 1 # 1
  BY <1>1, JobsTail
<1>3. \A i \in 1..Len(jobs') : jobs'[i] # Head(jobs)
  BY <1>2, JobsTail DEF JobsInv
<1>4. \A i, j \in 1..Len(jobs') : jobs'[i] = jobs'[j] => i = j
  <2> SUFFICES ASSUME NEW i \in 1..Len(jobs'), NEW j \in 1..Len(jobs'), jobs'[i] = jobs'[j]
               PROVE i = j
    OBVIOUS
  <2>1. i + 1 = j + 1
    BY <1>2 DEF JobsInv
  <2> QED BY <2>1, <1>1
<1>5. ASSUME NEW h, NEW i \in 1..Len(jobs), jobs[i] = h, h # Head(jobs)
      PROVE \E j \in 1..Len(jobs') : jobs'[j] = h
  <2>1. i # 1
    BY <1>5, JobsTail
  <2>2. i - 1 \in 1..Len(jobs') /\ (i - 1) + 1 = i
    BY <1>1, <2>1
  <2> QED BY <1>2, <1>5, <2>2
<1> QED BY <1>2, <1>3, <1>4, <1>5

(* A worker starts on the first job, or fails it and goes.                 *)
LEMMA TakeJobKeeps == ASSUME PrefetchInv, NEW w \in Worker, TakeJob(w) PROVE PrefetchInv'
<1> USE DEF PrefetchInv
<1> DEFINE g == Head(jobs)
<1>1. /\ work[w].pc = "idle" /\ jobs # <<>> /\ jobs' = Tail(jobs)
      /\ UNCHANGED <<nodeVars, opVars>> /\ byHeight' = byHeight /\ byHash' = byHash
      /\ next' = next /\ bytes' = bytes /\ stop' = stop
  BY DEF TakeJob
<1>2. /\ g \in Start..Target /\ g < next /\ ~entry[g].done /\ ~entry[g].block
      /\ g \notin byHash /\ g # 0
      /\ jobs' \in Seq(Start..Target) /\ g \in Nat
      /\ \E i \in 1..Len(jobs) : jobs[i] = g
  BY <1>1, JobsTail, PrefetchAssumption DEF JobsInv
<1>3. /\ \A i \in 1..Len(jobs') : \E j \in 1..Len(jobs) : jobs'[i] = jobs[j]
      /\ \A i \in 1..Len(jobs') : jobs'[i] # g
      /\ \A i, j \in 1..Len(jobs') : jobs'[i] = jobs'[j] => i = j
      /\ \A h : (\E i \in 1..Len(jobs) : jobs[i] = h) /\ h # g
                  => \E i \in 1..Len(jobs') : jobs'[i] = h
  BY <1>1, JobTaken
<1>4. \A v \in Worker : work[v].h # g
  BY <1>2 DEF WorkInv
<1>5. \A i \in 1..Len(jobs) : jobs[i] \in Start..Target
  BY ElementOfSeq DEF TypeOK
<1>6. WalkInv'
  BY <1>1, WorkWalk
<1>7. work[w].h = 0 /\ been' = been /\ \A b : Seen(b) => Seen(b)'
  BY <1>1 DEF WorkInv, InFlight, nodeVars, Seen
<1>8. work \in [Worker -> [pc : {"idle", "hash", "block", "exited"}, h : 0..Target]]
  BY DEF TypeOK
<1> HIDE DEF g
<1>9. CASE stop
  <2>1. /\ entry' = [entry EXCEPT ![g].err = TRUE, ![g].done = TRUE]
        /\ work' = [work EXCEPT ![w] = [pc |-> "exited", h |-> 0]]
    BY <1>9 DEF TakeJob, g
  <2>2. /\ \A h \in Start..Target : h # g => entry'[h] = entry[h]
        /\ entry'[g].done /\ entry'[g].err /\ entry'[g].block = entry[g].block
        /\ entry'[g].hash = entry[g].hash
    BY <2>1, <1>2 DEF TypeOK
  <2>3. /\ \A v \in Worker : v # w => work'[v] = work[v]
        /\ work'[w].pc = "exited" /\ work'[w].h = 0
    BY <2>1, <1>8
  <2>4. TypeOK'
    <3>1. [pc |-> "exited", h |-> 0] \in [pc : {"idle", "hash", "block", "exited"}, h : 0..Target]
      BY PrefetchAssumption
    <3>2. entry' \in [Start..Target ->
                        [hash : Block \union {NoBlock}, block : BOOLEAN, err : BOOLEAN, done : BOOLEAN]]
      BY <2>1, <1>2 DEF TypeOK
    <3>3. work' \in [Worker -> [pc : {"idle", "hash", "block", "exited"}, h : 0..Target]]
      BY <2>1, <3>1, <1>8
    <3> QED BY <1>1, <1>2, <3>2, <3>3 DEF TypeOK, nodeVars, opVars
  <2>5. JobsInv'
    BY <1>1, <1>3, <1>5, <2>2 DEF JobsInv
  <2>6. WorkInv'
    <3> SUFFICES ASSUME NEW v \in Worker, v # w
                 PROVE /\ ~InFlight(v)' => work'[v].h = 0
                       /\ InFlight(v)' =>
                            /\ work'[v].h \in Start..Target /\ work'[v].h < next'
                            /\ ~entry'[work'[v].h].done /\ ~entry'[work'[v].h].block
                            /\ \A i \in 1..Len(jobs') : jobs'[i] # work'[v].h
                            /\ \A u \in Worker : work'[u].h = work'[v].h => u = v
                            /\ work'[v].h \in byHash' <=> work'[v].pc = "block"
      BY <2>3 DEF WorkInv, InFlight
    <3>1. work'[v] = work[v] /\ (InFlight(v)' <=> InFlight(v))
      BY <2>3 DEF InFlight
    <3>2. ASSUME InFlight(v) PROVE \A u \in Worker : work'[u].h = work[v].h => u = v
      BY <3>2, <2>3, PrefetchAssumption DEF WorkInv
    <3>3. ASSUME InFlight(v) PROVE work[v].h \in Start..Target /\ entry'[work[v].h] = entry[work[v].h]
      BY <3>3, <2>2, <1>4 DEF WorkInv
    <3> QED BY <1>1, <1>3, <3>1, <3>2, <3>3 DEF WorkInv
  <2>7. CarriedInv'
    <3> SUFFICES ASSUME NEW h \in Start..Target, h < next, ~entry'[h].done
                 PROVE \/ \E i \in 1..Len(jobs') : jobs'[i] = h
                       \/ \E v \in Worker : work'[v].h = h
      BY <1>1 DEF CarriedInv
    <3>1. h # g /\ ~entry[h].done /\ h # 0
      BY <2>2, PrefetchAssumption
    <3> QED BY <3>1, <1>3, <1>7, <2>3 DEF CarriedInv
  <2>8. EntryInv'
    <3>1. g \in byHeight /\ entry'[g].hash = NoBlock
      BY <1>2, <2>2 DEF EntryInv
    <3>2. ASSUME NEW h \in Start..Target, h # g
          PROVE entry'[h] = entry[h]
      BY <3>2, <2>2
    <3> QED BY <1>1, <1>2, <1>7, <2>2, <3>1, <3>2 DEF EntryInv, HashReady
  <2>9. WindowExact'
    <3>1. \A h \in byHeight : entry'[h].block = entry[h].block
      BY <2>2 DEF TypeOK
    <3>2. {h \in byHeight' : entry'[h].block} = {h \in byHeight : entry[h].block}
      BY <1>1, <3>1
    <3> QED BY <1>1, <3>2 DEF WindowExact
  <2> QED BY <1>6, <2>4, <2>5, <2>6, <2>7, <2>8, <2>9
<1>10. CASE ~stop
  <2>1. entry' = entry /\ work' = [work EXCEPT ![w] = [pc |-> "hash", h |-> g]]
    BY <1>10 DEF TakeJob, g
  <2>2. /\ \A v \in Worker : v # w => work'[v] = work[v]
        /\ work'[w].pc = "hash" /\ work'[w].h = g
    BY <2>1, <1>8
  <2>3. TypeOK'
    <3>1. [pc |-> "hash", h |-> g] \in [pc : {"idle", "hash", "block", "exited"}, h : 0..Target]
      BY <1>2, PrefetchAssumption
    <3>2. work' \in [Worker -> [pc : {"idle", "hash", "block", "exited"}, h : 0..Target]]
      BY <2>1, <3>1, <1>8
    <3> QED BY <1>1, <1>2, <2>1, <3>2 DEF TypeOK, nodeVars, opVars
  <2>4. JobsInv'
    BY <1>1, <1>3, <2>1 DEF JobsInv
  <2>5. WorkInv'
    <3>1. ASSUME NEW v \in Worker, v # w
          PROVE /\ ~InFlight(v)' => work'[v].h = 0
                /\ InFlight(v)' =>
                     /\ work'[v].h \in Start..Target /\ work'[v].h < next'
                     /\ ~entry'[work'[v].h].done /\ ~entry'[work'[v].h].block
                     /\ \A i \in 1..Len(jobs') : jobs'[i] # work'[v].h
                     /\ \A u \in Worker : work'[u].h = work'[v].h => u = v
                     /\ work'[v].h \in byHash' <=> work'[v].pc = "block"
      <4>1. work'[v] = work[v] /\ (InFlight(v)' <=> InFlight(v))
        BY <2>2, <3>1 DEF InFlight
      <4>2. ASSUME InFlight(v) PROVE \A u \in Worker : work'[u].h = work[v].h => u = v
        BY <4>2, <2>2, <1>4 DEF WorkInv
      <4> QED BY <1>1, <1>3, <2>1, <4>1, <4>2 DEF WorkInv
    <3>2. InFlight(w)' /\ \A u \in Worker : work'[u].h = g => u = w
      BY <2>2, <1>4 DEF InFlight
    <3> QED BY <1>1, <1>2, <1>3, <2>1, <2>2, <3>1, <3>2 DEF WorkInv
  <2>6. CarriedInv'
    <3> SUFFICES ASSUME NEW h \in Start..Target, h < next, ~entry[h].done
                 PROVE \/ \E i \in 1..Len(jobs') : jobs'[i] = h
                       \/ \E v \in Worker : work'[v].h = h
      BY <1>1, <2>1 DEF CarriedInv
    <3>1. h # 0
      BY PrefetchAssumption
    <3>2. CASE h = g
      BY <3>2, <2>2
    <3>3. CASE h # g
      <4>1. CASE \E i \in 1..Len(jobs) : jobs[i] = h
        BY <4>1, <3>3, <1>3
      <4>2. CASE \E v \in Worker : work[v].h = h
        BY <4>2, <3>1, <1>7, <2>2
      <4> QED BY <4>1, <4>2 DEF CarriedInv
    <3> QED BY <3>2, <3>3
  <2>7. EntryInv' /\ WindowExact'
    BY <1>1, <1>7, <2>1 DEF EntryInv, WindowExact, HashReady
  <2> QED BY <1>6, <2>3, <2>4, <2>5, <2>6, <2>7
<1> QED BY <1>9, <1>10

(* A worker gets the hash of its height. *)
LEMMA FetchHashKeeps == ASSUME PrefetchInv, NEW w \in Worker, FetchHash(w) PROVE PrefetchInv'
<1> USE DEF PrefetchInv
<1> DEFINE g == work[w].h
<1>1. /\ work[w].pc = "hash" /\ g <= Height(node)
      /\ entry' = [entry EXCEPT ![g].hash = Cut(node, g)]
      /\ byHash' = byHash \union {g}
      /\ work' = [work EXCEPT ![w].pc = "block"]
      /\ UNCHANGED <<nodeVars, opVars>> /\ byHeight' = byHeight /\ jobs' = jobs
      /\ next' = next /\ bytes' = bytes /\ stop' = stop
  BY DEF FetchHash, Fetched
<1>2. /\ g \in Start..Target /\ g < next /\ g \in byHeight /\ g \in Nat
      /\ ~entry[g].done /\ ~entry[g].block
      /\ \A i \in 1..Len(jobs) : jobs[i] # g
      /\ \A v \in Worker : work[v].h = g => v = w
  <2>1. InFlight(w)
    BY <1>1 DEF InFlight
  <2> QED BY <2>1, WorkerAt DEF WorkInv
<1>3. Cut(node, g) \in Block /\ Height(Cut(node, g)) = g /\ Seen(Cut(node, g)) /\ Cut(node, g) # NoBlock
  <2>1. g \in 0..Height(node)
    BY <1>1, <1>2, HeightType DEF TypeOK
  <2> QED BY <2>1, CutSeen, BlockSeq
<1>4. WalkInv' /\ \A b : Seen(b) => Seen(b)'
  BY <1>1, WorkWalk DEF nodeVars, Seen
<1>5. work \in [Worker -> [pc : {"idle", "hash", "block", "exited"}, h : 0..Target]]
  BY DEF TypeOK
<1>6. /\ \A v \in Worker : v # w => work'[v] = work[v]
      /\ \A v \in Worker : work'[v].h = work[v].h
      /\ work'[w].pc = "block"
      /\ work' \in [Worker -> [pc : {"idle", "hash", "block", "exited"}, h : 0..Target]]
  BY <1>1, <1>5
<1>7. \A i \in 1..Len(jobs) : jobs[i] \in Start..Target
  BY ElementOfSeq DEF TypeOK
<1> HIDE DEF g
<1>8. /\ \A h \in Start..Target : h # g => entry'[h] = entry[h]
      /\ \A h \in Start..Target : /\ entry'[h].done = entry[h].done
                                  /\ entry'[h].block = entry[h].block
                                  /\ entry'[h].err = entry[h].err
      /\ entry'[g].hash = Cut(node, g)
  BY <1>1, <1>2 DEF TypeOK
<1>9. TypeOK'
  <2>1. entry' \in [Start..Target ->
                      [hash : Block \union {NoBlock}, block : BOOLEAN, err : BOOLEAN, done : BOOLEAN]]
    BY <1>1, <1>2, <1>3 DEF TypeOK
  <2> QED BY <1>1, <1>2, <1>6, <2>1 DEF TypeOK, nodeVars, opVars
<1>10. JobsInv'
  BY <1>1, <1>2, <1>7, <1>8 DEF JobsInv
<1>11. WorkInv'
  <2>1. ASSUME NEW v \in Worker, v # w
        PROVE /\ ~InFlight(v)' => work'[v].h = 0
              /\ InFlight(v)' =>
                   /\ work'[v].h \in Start..Target /\ work'[v].h < next'
                   /\ ~entry'[work'[v].h].done /\ ~entry'[work'[v].h].block
                   /\ \A i \in 1..Len(jobs') : jobs'[i] # work'[v].h
                   /\ \A u \in Worker : work'[u].h = work'[v].h => u = v
                   /\ work'[v].h \in byHash' <=> work'[v].pc = "block"
    <3>1. work'[v] = work[v] /\ (InFlight(v)' <=> InFlight(v)) /\ work[v].h # g
      BY <2>1, <1>2, <1>6 DEF InFlight
    <3> QED BY <1>1, <1>6, <1>8, <3>1 DEF WorkInv
  <2>2. InFlight(w)' /\ work'[w].h = g
    BY <1>6 DEF InFlight, g
  <2> QED BY <1>1, <1>2, <1>6, <1>8, <2>1, <2>2 DEF WorkInv
<1>12. CarriedInv'
  BY <1>1, <1>6, <1>8 DEF CarriedInv
<1>13. EntryInv'
  <2>1. ASSUME NEW h \in Start..Target, h # g PROVE entry'[h] = entry[h] /\ (h \in byHash' <=> h \in byHash)
    BY <2>1, <1>1, <1>8
  <2> QED BY <1>1, <1>2, <1>3, <1>4, <1>8, <2>1 DEF EntryInv, HashReady
<1>14. WindowExact'
  <2>1. {h \in byHeight' : entry'[h].block} = {h \in byHeight : entry[h].block}
    BY <1>1, <1>8 DEF TypeOK
  <2> QED BY <1>1, <1>2, <2>1 DEF WindowExact
<1> QED BY <1>4, <1>9, <1>10, <1>11, <1>12, <1>13, <1>14

(* A worker returns, with the block or with an error. *)
LEMMA ReturnKeeps ==
  ASSUME PrefetchInv, NEW w \in Worker, InFlight(w), NEW e,
         Return(w, e), UNCHANGED <<nodeVars, opVars, byHeight, byHash, jobs, next, stop>>,
         \/ /\ e = [entry[work[w].h] EXCEPT !.block = TRUE]
            /\ work[w].pc = "block" /\ bytes' = bytes + 1
         \/ e = [entry[work[w].h] EXCEPT !.err = TRUE] /\ bytes' = bytes
  PROVE PrefetchInv'
<1> USE DEF PrefetchInv
<1> DEFINE g == work[w].h
           Fields == [hash : Block \union {NoBlock}, block : BOOLEAN, err : BOOLEAN, done : BOOLEAN]
<1>1. /\ g \in Start..Target /\ g < next /\ g \in byHeight /\ g \in Nat /\ g # 0
      /\ ~entry[g].done /\ ~entry[g].block /\ entry[g] \in Fields
      /\ \A i \in 1..Len(jobs) : jobs[i] # g
      /\ \A v \in Worker : work[v].h = g => v = w
      /\ g \in byHash <=> work[w].pc = "block"
  BY WorkerAt DEF WorkInv
<1>2. e \in Fields /\ e.hash = entry[g].hash /\ e.done = entry[g].done
  BY <1>1
<1>3. /\ entry' = [entry EXCEPT ![g] = [e EXCEPT !.done = TRUE]]
      /\ work' = [work EXCEPT ![w] = [pc |-> "idle", h |-> 0]]
  BY DEF Return
<1>4. e.block => ~e.err \/ entry[g].err
  BY <1>1
<1>5. /\ e.block => work[w].pc = "block" /\ bytes' = bytes + 1
      /\ ~e.block => e.err /\ bytes' = bytes
  BY <1>1
<1>6. WalkInv' /\ \A b : Seen(b) => Seen(b)'
  BY WorkWalk DEF nodeVars, Seen
<1>7. /\ entry \in [Start..Target -> Fields]
      /\ work \in [Worker -> [pc : {"idle", "hash", "block", "exited"}, h : 0..Target]]
  BY DEF TypeOK
<1>8. /\ \A v \in Worker : v # w => work'[v] = work[v]
      /\ work'[w].pc = "idle" /\ work'[w].h = 0
      /\ work' \in [Worker -> [pc : {"idle", "hash", "block", "exited"}, h : 0..Target]]
  <2>1. [pc |-> "idle", h |-> 0] \in [pc : {"idle", "hash", "block", "exited"}, h : 0..Target]
    BY PrefetchAssumption
  <2> QED BY <1>3, <1>7, <2>1
<1>9. \A i \in 1..Len(jobs) : jobs[i] \in Start..Target
  BY ElementOfSeq DEF TypeOK
<1> HIDE DEF g
<1>10. /\ entry' \in [Start..Target -> Fields]
       /\ \A h \in Start..Target : h # g => entry'[h] = entry[h]
       /\ entry'[g].done /\ entry'[g].block = e.block /\ entry'[g].err = e.err
       /\ entry'[g].hash = entry[g].hash
  BY <1>1, <1>2, <1>3, <1>7
<1>11. TypeOK'
  BY <1>5, <1>8, <1>10 DEF TypeOK, nodeVars, opVars
<1>12. JobsInv'
  BY <1>1, <1>9, <1>10 DEF JobsInv
<1>13. WorkInv'
  <2>1. ASSUME NEW v \in Worker, v # w
        PROVE /\ ~InFlight(v)' => work'[v].h = 0
              /\ InFlight(v)' =>
                   /\ work'[v].h \in Start..Target /\ work'[v].h < next'
                   /\ ~entry'[work'[v].h].done /\ ~entry'[work'[v].h].block
                   /\ \A i \in 1..Len(jobs') : jobs'[i] # work'[v].h
                   /\ \A u \in Worker : work'[u].h = work'[v].h => u = v
                   /\ work'[v].h \in byHash' <=> work'[v].pc = "block"
    <3>1. work'[v] = work[v] /\ (InFlight(v)' <=> InFlight(v)) /\ work[v].h # g
      BY <2>1, <1>1, <1>8 DEF InFlight
    <3>2. ASSUME InFlight(v) PROVE \A u \in Worker : work'[u].h = work[v].h => u = v
      BY <3>2, <1>8, PrefetchAssumption DEF WorkInv
    <3> QED BY <1>8, <1>10, <3>1, <3>2 DEF WorkInv
  <2> QED BY <1>8, <2>1 DEF WorkInv, InFlight
<1>14. CarriedInv'
  <2> SUFFICES ASSUME NEW h \in Start..Target, h < next, ~entry'[h].done
               PROVE \/ \E i \in 1..Len(jobs) : jobs[i] = h
                     \/ \E v \in Worker : work'[v].h = h
    BY DEF CarriedInv
  <2>1. h # g /\ ~entry[h].done
    BY <1>10
  <2>2. work[w].h # h
    BY <2>1 DEF g
  <2> QED BY <2>1, <2>2, <1>8 DEF CarriedInv
<1>15. EntryInv'
  <2>1. ASSUME NEW h \in Start..Target, h # g PROVE entry'[h] = entry[h]
    BY <2>1, <1>10
  <2>2. g \in byHash => Height(entry'[g].hash) = g /\ Seen(entry'[g].hash)
    BY <1>1, <1>10 DEF EntryInv
  <2>3. HashReady(entry'[g]) => g \in byHash
    BY <1>1, <1>5, <1>10 DEF HashReady
  <2> QED BY <1>1, <1>6, <1>10, <2>1, <2>2, <2>3 DEF EntryInv, HashReady
<1>16. WindowExact'
  <2>1. IsFiniteSet(Blocks) /\ Cardinality(Blocks) \in Nat
    BY FiniteCounts
  <2>2. \A h \in byHeight : h # g => entry'[h].block = entry[h].block
    BY <1>10 DEF TypeOK
  <2>3. CASE e.block
    <3>1. Blocks' = Blocks \union {g} /\ g \notin Blocks
      BY <2>2, <2>3, <1>1, <1>10 DEF Blocks
    <3>2. Cardinality(Blocks') = Cardinality(Blocks) + 1
      BY <2>1, <3>1, FS_AddElement
    <3> QED BY <2>3, <3>2, <1>5 DEF WindowExact, Blocks
  <2>4. CASE ~e.block
    <3>1. Blocks' = Blocks
      BY <2>2, <2>4, <1>1, <1>10 DEF Blocks
    <3> QED BY <2>4, <3>1, <1>5 DEF WindowExact, Blocks
  <2> QED BY <2>3, <2>4, <1>2
<1> QED BY <1>6, <1>11, <1>12, <1>13, <1>14, <1>15, <1>16

LEMMA WorkerKeeps == ASSUME PrefetchInv, NEW w \in Worker, WorkerNext(w) PROVE PrefetchInv'
<1>1. CASE FetchBlock(w)
  <2>1. /\ work[w].pc = "block" /\ bytes' = bytes + 1
        /\ Return(w, [entry[work[w].h] EXCEPT !.block = TRUE])
        /\ UNCHANGED <<nodeVars, opVars, byHeight, byHash, jobs, next, stop>>
    BY <1>1 DEF FetchBlock
  <2> QED BY <2>1, ReturnKeeps DEF InFlight
<1>2. CASE FetchFails(w)
  <2>1. /\ work[w].pc \in {"hash", "block"} /\ bytes' = bytes
        /\ Return(w, [entry[work[w].h] EXCEPT !.err = TRUE])
        /\ UNCHANGED <<nodeVars, opVars, byHeight, byHash, jobs, next, stop>>
    BY <1>2 DEF FetchFails
  <2> QED BY <2>1, ReturnKeeps DEF InFlight
<1> QED BY <1>1, <1>2, ExitKeeps, TakeJobKeeps, FetchHashKeeps DEF WorkerNext

-----------------------------------------------------------------------------
(* The operation takes a block out of the window, and fills it up again.   *)

LEMMA BlockArrivesKeeps == ASSUME PrefetchInv, BlockArrives PROVE PrefetchInv'
<1> USE DEF PrefetchInv
<1>1. /\ at = "waitBlock" /\ bytes' = Released /\ Apply("schedule") /\ at' = "schedule"
      /\ nodeVars' = nodeVars /\ jobs' = jobs /\ next' = next /\ stop' = stop
      /\ work' = work /\ goal' = goal /\ walk' = walk
  BY DEF BlockArrives, Apply, GoTo
<1>2. PICK g \in byHash :
        /\ entry[g].done /\ ~entry[g].err /\ entry[g].block
        /\ entry' = [entry EXCEPT ![g].hash = NoBlock, ![g].block = FALSE]
        /\ byHeight' = byHeight \ {g}
        /\ byHash' = byHash \ {g}
  BY DEF BlockArrives, Holding
<1>3. g \in Start..Target /\ g < next /\ g \in byHeight
  <2>1. g \in Start..Target /\ next \in Int
    BY DEF TypeOK
  <2>2. ~(g >= next)
    BY <1>2, <2>1 DEF EntryInv, Entry
  <2> QED BY <2>1, <2>2, <1>2 DEF EntryInv
<1>4. /\ \A h \in Start..Target : h # g => entry'[h] = entry[h]
      /\ entry'[g].done /\ ~entry'[g].block /\ entry'[g].hash = NoBlock
  BY <1>2, <1>3 DEF TypeOK
<1>5. WalkInv' /\ walked' \in Seq(Block)
  BY <1>1, ApplyKeeps
<1>6. bytes = Cardinality(Blocks) /\ IsFiniteSet(Blocks) /\ g \in Blocks
  BY <1>2, <1>3, FiniteCounts DEF WindowExact, Blocks
<1>7. bytes > 0 /\ bytes \in Nat
  BY <1>6, FS_EmptySet DEF TypeOK
<1>8. TypeOK'
  <2>1. entry' \in [Start..Target ->
                      [hash : Block \union {NoBlock}, block : BOOLEAN, err : BOOLEAN, done : BOOLEAN]]
    BY <1>2, <1>3 DEF TypeOK
  <2> QED BY <1>1, <1>2, <1>5, <1>7, <2>1 DEF TypeOK, nodeVars, Released, Pc
<1>9. \A i \in 1..Len(jobs) : jobs[i] \in Start..Target /\ jobs[i] # g
  BY <1>2, ElementOfSeq DEF TypeOK, JobsInv
<1>10. JobsInv'
  <2>1. \A i \in 1..Len(jobs) : entry'[jobs[i]] = entry[jobs[i]]
    BY <1>4, <1>9
  <2>2. byHash' \subseteq byHash
    BY <1>2
  <2> QED BY <1>1, <2>1, <2>2 DEF JobsInv
<1>11. \A v \in Worker : work[v].h # g
  <2>1. g # 0
    BY <1>3, PrefetchAssumption
  <2> QED BY <2>1, <1>2 DEF WorkInv
<1>12. WorkInv'
  <2> SUFFICES ASSUME NEW v \in Worker
               PROVE /\ ~InFlight(v) => work[v].h = 0
                     /\ InFlight(v) =>
                          /\ work[v].h \in Start..Target /\ work[v].h < next
                          /\ ~entry'[work[v].h].done /\ ~entry'[work[v].h].block
                          /\ \A i \in 1..Len(jobs) : jobs[i] # work[v].h
                          /\ \A u \in Worker : work[u].h = work[v].h => u = v
                          /\ work[v].h \in byHash' <=> work[v].pc = "block"
    BY <1>1 DEF WorkInv, InFlight
  <2>1. work[v].h \in byHash' <=> work[v].h \in byHash
    BY <1>2, <1>11
  <2>2. InFlight(v) => entry'[work[v].h] = entry[work[v].h]
    BY <1>4, <1>11 DEF WorkInv
  <2> QED BY <2>1, <2>2 DEF WorkInv
<1>13. CarriedInv'
  BY <1>1, <1>4 DEF CarriedInv
<1>14. EntryInv'
  <2>1. \A b : Seen(b) => Seen(b)'
    BY <1>1 DEF nodeVars, Seen
  <2>2. ASSUME NEW h \in Start..Target, h # g
        PROVE /\ entry'[h] = entry[h] /\ (h \in byHash' <=> h \in byHash)
              /\ h \in byHeight' <=> h \in byHeight
    BY <2>2, <1>2, <1>4
  <2>3. g \notin byHash' /\ g \notin byHeight'
    BY <1>2
  <2>4. ~(g >= next)
    BY <1>3 DEF TypeOK
  <2> QED BY <1>1, <1>4, <2>1, <2>2, <2>3, <2>4 DEF EntryInv, HashReady
<1>15. WindowExact'
  <2>1. Blocks' = Blocks \ {g}
    BY <1>2, <1>4 DEF Blocks, TypeOK
  <2>2. Cardinality(Blocks') = Cardinality(Blocks) - 1
    BY <2>1, <1>6, FS_RemoveElement
  <2>3. IsFiniteSet(byHeight) /\ Cardinality(byHeight) \in Nat
    BY FiniteCounts
  <2>4. Cardinality(byHeight') <= Ahead
    <3>1. Cardinality(byHeight \ {g}) = Cardinality(byHeight) - 1
      BY <2>3, <1>3, FS_RemoveElement
    <3> QED BY <3>1, <2>3, <1>2, PrefetchAssumption DEF WindowExact
  <2>5. byHash' \subseteq byHeight'
    BY <1>2 DEF WindowExact
  <2>6. bytes' = Cardinality(Blocks')
    BY <2>2, <1>1, <1>6, <1>7 DEF Released
  <2> QED BY <2>4, <2>5, <2>6 DEF WindowExact, Blocks
<1> QED BY <1>5, <1>8, <1>10, <1>12, <1>13, <1>14, <1>15

(* What scheduleMore adds to the channel comes after all that is in it.    *)
LEMMA JobsAdded ==
  ASSUME PrefetchInv, NEW n \in Nat, next + n - 1 <= Target,
         jobs' = jobs \o [i \in 1..n |-> next + i - 1]
  PROVE /\ jobs' \in Seq(Start..Target) /\ Len(jobs) \in Nat /\ Len(jobs') = Len(jobs) + n
        /\ \A i \in 1..Len(jobs) : jobs'[i] = jobs[i] /\ jobs[i] < next
        /\ \A i \in (Len(jobs) + 1)..(Len(jobs) + n) : jobs'[i] = next + (i - Len(jobs)) - 1
<1> USE DEF PrefetchInv
<1> DEFINE s == [i \in 1..n |-> next + i - 1]
<1>1. s \in Seq(Start..Target) /\ Len(s) = n
  <2>1. \A i \in 1..n : next + i - 1 \in Start..Target
    BY PrefetchAssumption DEF TypeOK
  <2>2. s \in [1..n -> Start..Target]
    BY <2>1
  <2> QED BY <2>2, SeqDef, LenProperties
<1>2. jobs \in Seq(Start..Target) /\ Len(jobs) \in Nat
  BY DEF TypeOK
<1>3. /\ jobs' \in Seq(Start..Target) /\ Len(jobs') = Len(jobs) + Len(s)
      /\ \A i \in 1..(Len(jobs) + Len(s)) :
           jobs'[i] = IF i <= Len(jobs) THEN jobs[i] ELSE s[i - Len(jobs)]
  BY <1>1, <1>2, ConcatProperties
<1>4. ASSUME NEW i \in 1..Len(jobs) PROVE jobs'[i] = jobs[i] /\ jobs[i] < next
  BY <1>1, <1>2, <1>3 DEF JobsInv
<1>5. ASSUME NEW i \in (Len(jobs) + 1)..(Len(jobs) + n)
      PROVE jobs'[i] = next + (i - Len(jobs)) - 1
  <2>1. i \in 1..(Len(jobs) + Len(s)) /\ ~(i <= Len(jobs)) /\ i - Len(jobs) \in 1..n
    BY <1>1, <1>2
  <2> QED BY <2>1, <1>3
<1> QED BY <1>1, <1>2, <1>3, <1>4, <1>5

LEMMA ScheduleKeeps == ASSUME PrefetchInv, ScheduleMore PROVE PrefetchInv'
<1> USE DEF PrefetchInv
<1> DEFINE n == Added(Cardinality(byHeight))
<1>1. /\ at = "schedule" /\ at' = "next"
      /\ byHeight' = byHeight \union (next..(next + n - 1))
      /\ jobs' = jobs \o [i \in 1..n |-> next + i - 1]
      /\ next' = next + n
      /\ UNCHANGED <<nodeVars, entry, byHash, bytes, stop, work, goal, walk, walked>>
  BY DEF ScheduleMore, Schedule, GoTo
<1>2. /\ n \in Nat /\ next + n - 1 <= Target /\ Cardinality(byHeight) + n <= Ahead
      /\ next \in Nat /\ next \in Start..(Target + 1) /\ Start \in Nat /\ Target \in Nat
  <2>1. Cardinality(byHeight) \in Nat /\ Cardinality(byHeight) <= Ahead
    BY FiniteCounts DEF WindowExact
  <2>2. n \in 0..(Ahead + 1) /\ next + n - 1 <= Target /\ Cardinality(byHeight) + n <= Ahead
    BY <2>1, AddedFits
  <2> HIDE DEF n
  <2> QED BY <2>2, PrefetchAssumption DEF TypeOK
<1> HIDE DEF n
<1>3. /\ jobs' \in Seq(Start..Target) /\ Len(jobs) \in Nat /\ Len(jobs') = Len(jobs) + n
      /\ \A i \in 1..Len(jobs) : jobs'[i] = jobs[i] /\ jobs[i] < next
      /\ \A i \in (Len(jobs) + 1)..(Len(jobs) + n) : jobs'[i] = next + (i - Len(jobs)) - 1
  BY <1>1, <1>2, JobsAdded
<1>4. \A h \in next..(next + n - 1) :
        /\ h \in Start..Target /\ h >= next
        /\ entry[h] = Entry /\ h \notin byHeight /\ h \notin byHash
  <2> SUFFICES ASSUME NEW h \in next..(next + n - 1)
               PROVE /\ h \in Start..Target /\ h >= next
                     /\ entry[h] = Entry /\ h \notin byHeight /\ h \notin byHash
    OBVIOUS
  <2>1. h \in Start..Target /\ h >= next
    BY <1>2
  <2>2. entry[h] = Entry /\ h \notin byHeight /\ (h \in byHash => entry[h].hash # NoBlock)
    BY <2>1 DEF EntryInv
  <2> QED BY <2>1, <2>2 DEF Entry
<1>5. ~Entry.done /\ ~Entry.block /\ Entry.hash = NoBlock
  BY DEF Entry
<1>6. TypeOK'
  <2>1. byHeight' \subseteq Start..Target /\ next' \in Start..(Target + 1)
    BY <1>1, <1>2, <1>4 DEF TypeOK
  <2> QED BY <1>1, <1>3, <2>1 DEF TypeOK, nodeVars, Pc
<1>7. ASSUME NEW i \in 1..Len(jobs')
      PROVE \/ i \in 1..Len(jobs) /\ jobs'[i] = jobs[i] /\ jobs[i] < next
            \/ /\ i \in (Len(jobs) + 1)..(Len(jobs) + n)
               /\ jobs'[i] = next + (i - Len(jobs)) - 1 /\ jobs'[i] \in next..(next + n - 1)
  <2>1. i \in 1..Len(jobs) \/ i \in (Len(jobs) + 1)..(Len(jobs) + n)
    BY <1>2, <1>3
  <2>2. ASSUME i \in (Len(jobs) + 1)..(Len(jobs) + n)
        PROVE next + (i - Len(jobs)) - 1 \in next..(next + n - 1)
    BY <2>2, <1>2, <1>3
  <2> QED BY <2>1, <2>2, <1>3
<1>8. \A i \in 1..Len(jobs) : jobs[i] \in Start..Target
  BY ElementOfSeq DEF TypeOK
<1>9. JobsInv'
  <2>1. ASSUME NEW i \in 1..Len(jobs')
        PROVE /\ jobs'[i] < next' /\ ~entry[jobs'[i]].done /\ ~entry[jobs'[i]].block
              /\ jobs'[i] \notin byHash
    <3>1. CASE i \in 1..Len(jobs) /\ jobs'[i] = jobs[i] /\ jobs[i] < next
      BY <3>1, <1>1, <1>2, <1>8 DEF JobsInv
    <3>2. CASE jobs'[i] \in next..(next + n - 1)
      BY <3>2, <1>1, <1>2, <1>4, <1>5
    <3> QED BY <3>1, <3>2, <1>7
  <2>2. ASSUME NEW i \in 1..Len(jobs'), NEW j \in 1..Len(jobs'), jobs'[i] = jobs'[j]
        PROVE i = j
    <3>1. CASE i \in 1..Len(jobs) /\ j \in 1..Len(jobs)
      BY <3>1, <2>2, <1>3 DEF JobsInv
    <3>2. CASE i \in (Len(jobs) + 1)..(Len(jobs) + n) /\ j \in (Len(jobs) + 1)..(Len(jobs) + n)
      BY <3>2, <2>2, <1>2, <1>3
    <3>3. jobs'[i] \in Int /\ jobs'[j] \in Int
      BY <1>3, ElementOfSeq, <1>2
    <3>4. (jobs'[i] < next <=> i \in 1..Len(jobs)) /\ (jobs'[j] < next <=> j \in 1..Len(jobs))
      <4>1. \A h \in next..(next + n - 1) : ~(h < next)
        BY <1>2
      <4>2. ~(i \in 1..Len(jobs) /\ i \in (Len(jobs) + 1)..(Len(jobs) + n))
        BY <1>2, <1>3
      <4>3. ~(j \in 1..Len(jobs) /\ j \in (Len(jobs) + 1)..(Len(jobs) + n))
        BY <1>2, <1>3
      <4> QED BY <4>1, <4>2, <4>3, <1>7
    <3> QED BY <3>1, <3>2, <3>4, <2>2, <1>7
  <2> QED BY <1>1, <2>1, <2>2 DEF JobsInv
<1>10. WorkInv'
  <2> SUFFICES ASSUME NEW v \in Worker, InFlight(v)
               PROVE /\ work[v].h < next'
                     /\ \A i \in 1..Len(jobs') : jobs'[i] # work[v].h
    BY <1>1 DEF WorkInv, InFlight
  <2>1. work[v].h \in Start..Target /\ work[v].h < next /\ \A i \in 1..Len(jobs) : jobs[i] # work[v].h
    BY DEF WorkInv
  <2>2. \A h \in next..(next + n - 1) : h # work[v].h
    BY <2>1, <1>2
  <2>3. work[v].h < next'
    BY <2>1, <1>1, <1>2
  <2> QED BY <2>1, <2>2, <2>3, <1>7
<1>11. CarriedInv'
  <2> SUFFICES ASSUME NEW h \in Start..Target, h < next + n, ~entry[h].done
               PROVE \/ \E i \in 1..Len(jobs') : jobs'[i] = h
                     \/ \E w \in Worker : work[w].h = h
    BY <1>1 DEF CarriedInv
  <2>1. CASE h < next
    <3>1. ASSUME NEW i \in 1..Len(jobs), jobs[i] = h PROVE i \in 1..Len(jobs') /\ jobs'[i] = h
      BY <3>1, <1>2, <1>3
    <3> QED BY <2>1, <3>1 DEF CarriedInv
  <2>2. CASE ~(h < next)
    <3> DEFINE i == Len(jobs) + (h - next) + 1
    <3>1. i \in (Len(jobs) + 1)..(Len(jobs) + n) /\ i \in 1..Len(jobs') /\ next + (i - Len(jobs)) - 1 = h
      BY <2>2, <1>2, <1>3
    <3> HIDE DEF i
    <3> QED BY <3>1, <1>3
  <2> QED BY <2>1, <2>2
<1>12. EntryInv'
  <2>1. been' = been /\ entry' = entry /\ byHash' = byHash
    BY <1>1 DEF nodeVars
  <2> SUFFICES ASSUME NEW h \in Start..Target
               PROVE /\ h >= next' => entry[h] = Entry /\ h \notin byHeight'
                     /\ h < next' /\ ~entry[h].done => h \in byHeight'
                     /\ entry[h].block => h \in byHeight'
                     /\ h \in byHeight' /\ HashReady(entry[h]) => h \in byHash
    BY <2>1 DEF EntryInv, Seen, HashReady
  <2>2. CASE h < next
    BY <2>2, <1>1, <1>2 DEF EntryInv
  <2>3. CASE h \in next..(next + n - 1)
    BY <2>3, <1>1, <1>2, <1>4, <1>5 DEF HashReady
  <2>4. CASE h >= next + n
    BY <2>4, <1>1, <1>2, <1>5 DEF EntryInv, HashReady
  <2> QED BY <2>2, <2>3, <2>4, <1>2
<1>13. WindowExact'
  <2>1. Blocks' = Blocks
    BY <1>1, <1>4, <1>5 DEF Blocks
  <2>2. Cardinality(byHeight') <= Ahead
    <3> DEFINE new == next..(next + n - 1)
    <3>1. IsFiniteSet(new) /\ Cardinality(new) = n
      <4>1. Cardinality(new) = IF next > next + n - 1 THEN 0 ELSE next + n - 1 - next + 1
        BY <1>2, FS_Interval
      <4> QED BY <4>1, <1>2, FS_Interval
    <3>2. byHeight \intersect new = {} /\ IsFiniteSet(byHeight) /\ Cardinality(byHeight) \in Nat
      BY <1>4, FiniteCounts
    <3>3. Cardinality(byHeight \union new) = Cardinality(byHeight) + n
      <4>1. Cardinality(byHeight \union new)
              = Cardinality(byHeight) + Cardinality(new) - Cardinality(byHeight \intersect new)
        BY <3>1, <3>2, FS_Union
      <4> HIDE DEF new
      <4> QED BY <4>1, <3>1, <3>2, FS_EmptySet, <1>2
    <3> QED BY <3>3, <1>1, <1>2
  <2> QED BY <1>1, <2>1, <2>2 DEF WindowExact, Blocks
<1>14. WalkInv'
  <2>1. Upcoming' = Upcoming /\ AnswersAreNodes'
    BY <1>1 DEF Upcoming, Tip, WalkInv, AnswersAreNodes, nodeVars
  <2> QED BY <1>1, <2>1 DEF WalkInv, nodeVars
<1> QED BY <1>6, <1>9, <1>10, <1>11, <1>12, <1>13, <1>14

-----------------------------------------------------------------------------
(* The invariant holds, and with it the properties the run checks.         *)

LEMMA NextInv == PrefetchInv /\ [Next]_vars => PrefetchInv'
<1> SUFFICES ASSUME PrefetchInv, [Next]_vars PROVE PrefetchInv'
  OBVIOUS
<1>1. CASE UNCHANGED vars
  <2>1. UNCHANGED <<nodeVars, cacheVars, work, walked>> /\ stop' = stop
        /\ at' = at /\ goal' = goal /\ walk' = walk
    BY <1>1 DEF vars, opVars
  <2> QED BY <2>1, OpFrame DEF PrefetchInv, TypeOK, WalkInv
<1>2. CASE NodeNext
  BY <1>2, MineKeeps, ReorgKeeps DEF NodeNext
<1>3. CASE OpNext
  BY <1>3, AnchorKeeps, CloseKeeps, RequestHashKeeps, HashArrivesKeeps, HashMissedKeeps,
     AskHashKeeps, RequestBlockKeeps, BlockArrivesKeeps, ScheduleKeeps, BlockMissedKeeps,
     AskBlockKeeps DEF OpNext, Finish, CallFails
<1>4. CASE \E w \in Worker : WorkerNext(w)
  BY <1>4, WorkerKeeps
<1> QED BY <1>1, <1>2, <1>3, <1>4 DEF Next

LEMMA PrefetchInvariant == Spec => []PrefetchInv
BY InitInv, NextInv, PTL DEF Spec

(* Every variable of the prefetcher, its workers and its operation keeps   *)
(* its type: no job is for a height past the target, and the buffered      *)
(* bytes never go below zero.                                              *)
THEOREM PrefetchTyped == Spec => []TypeOK
<1>1. PrefetchInv => TypeOK
  BY DEF PrefetchInv
<1> QED BY <1>1, PrefetchInvariant, PTL

(* Every block the operation applies is of the height it asked for, and of *)
(* a chain that was the node's during the operation, whatever the workers  *)
(* fetched ahead and whenever its waits ended.                             *)
THEOREM AnswersAreNodesBlocks == Spec => []AnswersAreNodes
<1>1. PrefetchInv => AnswersAreNodes
  BY DEF PrefetchInv, WalkInv
<1> QED BY <1>1, PrefetchInvariant, PTL

(* The indexes by height and by hash and the count of buffered bytes       *)
(* agree, and the window keeps to syncPrefetchAhead.                       *)
THEOREM WindowKept == Spec => []WindowExact
<1>1. PrefetchInv => WindowExact
  BY DEF PrefetchInv
<1> QED BY <1>1, PrefetchInvariant, PTL

(* One set or the other has one element where the height is on its way,    *)
(* and both are empty where it is not.                                     *)
LEMMA OneBearer ==
  ASSUME PrefetchInv, NEW h \in Start..Target
  PROVE Cardinality(Queued(h)) + Cardinality(Carrying(h)) = IF h < next /\ ~entry[h].done THEN 1 ELSE 0
<1> USE DEF PrefetchInv
<1>1. ASSUME NEW i \in Queued(h)
      PROVE Queued(h) = {i} /\ Carrying(h) = {} /\ h < next /\ ~entry[h].done
  <2>1. i \in 1..Len(jobs) /\ jobs[i] = h
    BY DEF Queued
  <2>2. Queued(h) = {i}
    BY <2>1 DEF Queued, JobsInv
  <2>3. \A w \in Worker : work[w].h # h
    BY <2>1, PrefetchAssumption DEF WorkInv
  <2> QED BY <2>1, <2>2, <2>3 DEF Carrying, JobsInv
<1>2. ASSUME NEW w \in Carrying(h)
      PROVE Carrying(h) = {w} /\ Queued(h) = {} /\ h < next /\ ~entry[h].done
  <2>1. w \in Worker /\ work[w].h = h /\ h # 0
    BY PrefetchAssumption DEF Carrying
  <2>2. InFlight(w)
    BY <2>1 DEF WorkInv
  <2> QED BY <2>1, <2>2 DEF WorkInv, Carrying, Queued
<1>3. CASE Queued(h) # {}
  <2>1. PICK i \in Queued(h) : TRUE
    BY <1>3
  <2>2. Queued(h) = {i} /\ Carrying(h) = {} /\ h < next /\ ~entry[h].done
    BY <1>1
  <2>3. Cardinality(Queued(h)) = 1 /\ Cardinality(Carrying(h)) = 0
    BY <2>2, FS_Singleton, FS_EmptySet
  <2> QED BY <2>2, <2>3
<1>4. CASE Carrying(h) # {}
  BY <1>2, <1>4, FS_Singleton, FS_EmptySet
<1>5. CASE Queued(h) = {} /\ Carrying(h) = {}
  <2>1. ~(h < next /\ ~entry[h].done)
    BY <1>5 DEF CarriedInv, Queued, Carrying
  <2> QED BY <1>5, <2>1, FS_EmptySet
<1> QED BY <1>3, <1>4, <1>5

(* The channel holds distinct heights of the window.                       *)
LEMMA ChannelBound == ASSUME PrefetchInv PROVE Len(jobs) <= Ahead
<1> USE DEF PrefetchInv
<1>1. jobs \in Seq(Start..Target) /\ Len(jobs) \in Nat /\ jobs \in [1..Len(jobs) -> Start..Target]
  BY LenProperties DEF TypeOK
<1>2. \A i \in 1..Len(jobs) : jobs[i] \in byHeight
  BY <1>1 DEF JobsInv, EntryInv
<1>3. jobs \in Injection(1..Len(jobs), byHeight)
  BY <1>1, <1>2 DEF JobsInv, Injection, IsInjective
<1>4. Cardinality(1..Len(jobs)) <= Cardinality(byHeight)
  BY <1>3, FiniteCounts, FS_Injection
<1>5. Cardinality(1..Len(jobs)) = Len(jobs)
  <2>1. Cardinality(1..Len(jobs)) = IF 1 > Len(jobs) THEN 0 ELSE Len(jobs) - 1 + 1
    BY <1>1, FS_Interval, 1 \in Int, Len(jobs) \in Int
  <2> QED BY <2>1, <1>1
<1> QED BY <1>1, <1>4, <1>5, FiniteCounts, PrefetchAssumption DEF WindowExact

(* Until its entry is done a scheduled height is in the channel once or    *)
(* with one worker, and afterwards with neither; and the channel, made for *)
(* syncPrefetchAhead jobs, always has room, so scheduleMore never blocks   *)
(* the operation while it holds the mutex.                                 *)
THEOREM NothingForgotten == Spec => []NoneForgotten
<1>1. PrefetchInv => NoneForgotten
  BY OneBearer, ChannelBound DEF NoneForgotten
<1> QED BY <1>1, PrefetchInvariant, PTL
=============================================================================
