------------------------ MODULE OyoLedgerChainProofs ------------------------
(***************************************************************************)
(* How the coins of OyoLedger stand to the chain: no two tracked           *)
(* transactions conflict, the cached totals are what the flags say, and    *)
(* an address without the desync flag has the coins of the node's chain.   *)
(*                                                                         *)
(* The chains come first, then what the flags of a coin say of them, then  *)
(* the totals, and the coins last.                                         *)
(***************************************************************************)
EXTENDS OyoLedgerProofs

-----------------------------------------------------------------------------
(* The chains, and what the engine has listed of the mempool.              *)

(* In a chain of heights h an input is created no later than it is spent,  *)
(* and spent once.                                                         *)
Ordered(h) ==
  \A t \in Tx : h[t] > 0 => \A k \in Ins[t] :
    /\ \E p \in Tx : k \in Outs[p] /\ h[p] > 0 /\ h[p] <= h[t]
    /\ \A q \in Tx : h[q] > 0 /\ k \in Ins[q] => q = t

NodeInv ==
  /\ Consistent(NodeChain \union pool)
  /\ pool \cap NodeChain = {}
  /\ \A t \in Tx : nodeAt[t] <= nodeTip
  /\ Ordered(nodeAt)

(* Up to the fork the two chains are one. *)
AppliedInv ==
  /\ fork <= tip /\ fork <= nodeTip /\ durable <= tip
  /\ \A t \in Tx : at[t] <= tip
  /\ \A t \in Tx : at[t] \in 1..fork \/ nodeAt[t] \in 1..fork => at[t] = nodeAt[t]
  /\ Ordered(at)

(* All that is tracked or still to be fetched was in one mempool, the last *)
(* that was listed; what is to be fetched was in no block then, and no     *)
(* block has been applied since.                                           *)
Listed(t) == Tracked(t) \/ t \in fetching
ListedInv ==
  /\ \A s, t \in Tx : Listed(s) /\ Listed(t) /\ s # t => Ins[s] \cap Ins[t] = {}
  /\ \A t \in fetching : at[t] \notin 1..fork

ChainInv == NodeInv /\ AppliedInv /\ ListedInv

(* What the flags of a coin say of the applied chain.  A coin that is      *)
(* known as pending is of no common block (created); a spent one has its   *)
(* spender applied (spent); a confirmed one its creator (applied).         *)
Fits(u, created, applied, spent) ==
  /\ u.spent => u.confirmed
  /\ u.confirmed => u.known
  /\ u.known /\ ~u.confirmed => ~created
  /\ u.spent => spent
  /\ u.confirmed => applied

Spent(k, h) == \E t \in Tx : at[t] \in 1..h /\ k \in Spends(t)

FlagsInv ==
  \A k \in Key : Fits(utxo[k], CreatedBy(k, fork), CreatedBy(k, tip), Spent(k, tip))

(* As long as no address is given up, what is tracked is some wallet's,    *)
(* and what is pending is of no common block.                              *)
OursInv ==
  "close" \notin Env =>
    \A t \in Tx : /\ Tracked(t) => AnyOurs(t)
                  /\ Pending(t) => at[t] \notin 1..fork

Live(u) == u.confirmed /\ ~u.spent

(* The coins whose spending an input shows, of addresses that are derived  *)
(* when the wallet is opened, or watched: deriving one on request takes it *)
(* to have no history.                                                     *)
Booked == {k \in Key \ Opaque : \A w \in Wallet : Owner[k] \notin Later[w]}

(* No coin of the common chain is lost without the flag, and none is live  *)
(* that the applied chain has spent.                                       *)
Matches(k) ==
  /\ Live(utxo[k]) => ~SpentBy(k, tip)
  /\ Known(k) /\ ~desync[Owner[k]] /\ CreatedBy(k, fork) /\ ~SpentBy(k, tip)
       => Live(utxo[k])

MatchInv ==
  /\ durable = tip
  /\ \A a \in Addr : ~Registered(a) => desync[a]
  /\ \A k \in Booked : Matches(k)

(* No address is watched again after it was given up. *)
Steady == Watching = {} \/ "close" \notin Env

-----------------------------------------------------------------------------
(* The node's steps.                                                       *)

LEMMA SurvivorsStay ==
  ASSUME NEW C, NEW S, Consistent(C),
         \A s, t \in S : s # t => Ins[s] \cap Ins[t] = {}
  PROVE Survivors(S, C) \subseteq S /\ Consistent(C \union Survivors(S, C))
<1> DEFINE V == Survivors(S, C)
<1>1. \A t \in V : t \in S /\ \E P \in SUBSET S : t \in P /\ P \subseteq V /\ Consistent(C \union P)
  BY DEF Survivors
<1> HIDE DEF V
<1> SUFFICES ASSUME NEW t \in C \union V, NEW k \in Ins[t]
             PROVE /\ \E p \in C \union V : k \in Outs[p]
                   /\ \A q \in (C \union V) \ {t} : k \notin Ins[q]
  BY <1>1 DEF Consistent, V
<1>2. \E p \in C \union V : k \in Outs[p]
  <2>1. CASE t \in C
    BY <2>1 DEF Consistent
  <2>2. CASE t \in V
    BY <2>2, <1>1 DEF Consistent
  <2> QED BY <2>1, <2>2
<1>3. ASSUME NEW q \in (C \union V) \ {t}, k \in Ins[q] PROVE FALSE
  <2>1. CASE t \in C /\ q \in C
    BY <2>1, <1>3 DEF Consistent
  <2>2. CASE t \in V /\ q \in C
    BY <2>2, <1>1, <1>3 DEF Consistent
  <2>3. CASE t \in C /\ q \in V
    BY <2>3, <1>1, <1>3 DEF Consistent
  <2>4. CASE t \in V /\ q \in V
    BY <2>4, <1>1, <1>3
  <2> QED BY <1>3, <2>1, <2>2, <2>3, <2>4
<1> QED BY <1>2, <1>3

(* What is left of a chain up to a height. *)
LEMMA OrderedCut ==
  ASSUME NEW h \in [Tx -> Nat], NEW n \in Nat, Ordered(h)
  PROVE Ordered([t \in Tx |-> IF h[t] > n THEN 0 ELSE h[t]])
<1> DEFINE g == [t \in Tx |-> IF h[t] > n THEN 0 ELSE h[t]]
<1>1. \A t \in Tx : h[t] \in Nat /\ g[t] = IF h[t] > n THEN 0 ELSE h[t]
  OBVIOUS
<1> HIDE DEF g
<1> SUFFICES ASSUME NEW t \in Tx, g[t] > 0, NEW k \in Ins[t]
             PROVE /\ \E p \in Tx : k \in Outs[p] /\ g[p] > 0 /\ g[p] <= g[t]
                   /\ \A q \in Tx : g[q] > 0 /\ k \in Ins[q] => q = t
  BY DEF Ordered, g
<1>2. h[t] > 0 /\ h[t] <= n /\ g[t] = h[t]
  BY <1>1
<1>3. PICK p \in Tx : k \in Outs[p] /\ h[p] > 0 /\ h[p] <= h[t]
  BY <1>2 DEF Ordered
<1>4. g[p] = h[p]
  BY <1>1, <1>2, <1>3
<1>5. \A q \in Tx : g[q] > 0 => h[q] > 0
  BY <1>1
<1> QED BY <1>2, <1>3, <1>4, <1>5 DEF Ordered

LEMMA NodeChainConsistent == ASSUME NodeInv PROVE Consistent(NodeChain)
BY DEF NodeInv, Ordered, NodeChain, Consistent

LEMMA PoolDisjoint ==
  ASSUME NodeInv, NEW s \in pool, NEW t \in pool, s # t
  PROVE Ins[s] \cap Ins[t] = {}
BY DEF NodeInv, Consistent

LEMMA AcceptChain == ASSUME TypeOK, ChainInv, NEW t \in Tx, NodeAccept(t) PROVE ChainInv'
<1>1. /\ t \notin pool \union NodeChain /\ pool' = pool \union {t}
      /\ Consistent(NodeChain \union pool \union {t})
      /\ UNCHANGED <<nodeAt, nodeTip, fork, at, tip, ringBase, durable, mempool, notOurs, fetching>>
  BY DEF NodeAccept, chainVars, poolVars
<1>2. NodeChain' = NodeChain /\ NodeChain \union pool' = NodeChain \union pool \union {t}
  BY <1>1 DEF NodeChain
<1>3. NodeInv'
  BY <1>1, <1>2 DEF ChainInv, NodeInv, Ordered
<1> QED BY <1>1, <1>3 DEF ChainInv, AppliedInv, ListedInv, Listed, Tracked, Ordered

LEMMA EvictChain == ASSUME TypeOK, ChainInv, NEW t \in Tx, NodeEvict(t) PROVE ChainInv'
<1>1. /\ pool' = Survivors(pool \ {t}, NodeChain)
      /\ UNCHANGED <<nodeAt, nodeTip, fork, at, tip, ringBase, durable, mempool, notOurs, fetching>>
  BY DEF NodeEvict, chainVars, poolVars
<1>2. NodeChain' = NodeChain
  BY <1>1 DEF NodeChain
<1>3. pool' \subseteq pool \ {t} /\ Consistent(NodeChain \union pool')
  BY <1>1, NodeChainConsistent, PoolDisjoint, SurvivorsStay DEF ChainInv
<1>4. NodeInv'
  BY <1>1, <1>2, <1>3 DEF ChainInv, NodeInv, Ordered
<1> QED BY <1>1, <1>4 DEF ChainInv, AppliedInv, ListedInv, Listed, Tracked, Ordered

LEMMA MineChain == ASSUME TypeOK, ChainInv, NEW S \in SUBSET Tx, NodeMine(S) PROVE ChainInv'
<1> USE DEF ChainInv
<1>1. /\ S \cap NodeChain = {} /\ Consistent(NodeChain \union S)
      /\ nodeTip' = nodeTip + 1
      /\ nodeAt' = [t \in Tx |-> IF t \in S THEN nodeTip + 1 ELSE nodeAt[t]]
      /\ pool' = Survivors(pool \ S, NodeChain \union S)
      /\ UNCHANGED <<fork, at, tip, ringBase, durable, mempool, notOurs, fetching>>
  BY DEF NodeMine, chainVars, poolVars
<1>2. /\ nodeTip \in Nat /\ fork \in Nat
      /\ \A t \in Tx : nodeAt[t] \in Nat /\ at[t] \in Nat
      /\ \A t \in Tx : nodeAt'[t] = IF t \in S THEN nodeTip + 1 ELSE nodeAt[t]
  BY <1>1 DEF TypeOK
<1>3. NodeChain' = NodeChain \union S
  BY <1>1, <1>2 DEF NodeChain
<1>4. \A t \in S : nodeAt[t] = 0
  BY <1>1, <1>2 DEF NodeChain
<1>5. pool' \subseteq pool \ S /\ Consistent(NodeChain \union S \union pool')
  BY <1>1, PoolDisjoint, SurvivorsStay
<1>6. Ordered(nodeAt')
  <2> SUFFICES ASSUME NEW t \in Tx, nodeAt'[t] > 0, NEW k \in Ins[t]
               PROVE /\ \E p \in Tx : k \in Outs[p] /\ nodeAt'[p] > 0 /\ nodeAt'[p] <= nodeAt'[t]
                     /\ \A q \in Tx : nodeAt'[q] > 0 /\ k \in Ins[q] => q = t
    BY DEF Ordered
  <2>1. t \in NodeChain \union S /\ \A q \in Tx : nodeAt'[q] > 0 => q \in NodeChain \union S
    BY <1>3 DEF NodeChain
  <2>2. \A q \in Tx : nodeAt'[q] > 0 /\ k \in Ins[q] => q = t
    BY <1>1, <2>1 DEF Consistent
  <2>3. CASE t \in S
    <3>1. PICK p \in NodeChain \union S : k \in Outs[p]
      BY <1>1, <2>1 DEF Consistent
    <3>2. p \in Tx /\ nodeAt'[p] > 0
      BY <1>3 DEF NodeChain
    <3>3. nodeAt'[p] <= nodeAt'[t]
      BY <1>2, <2>3, <3>2 DEF NodeInv
    <3> QED BY <2>2, <3>1, <3>2, <3>3
  <2>4. CASE t \notin S
    <3>1. nodeAt[t] > 0 /\ nodeAt'[t] = nodeAt[t]
      BY <1>2, <2>4
    <3>2. PICK p \in Tx : k \in Outs[p] /\ nodeAt[p] > 0 /\ nodeAt[p] <= nodeAt[t]
      BY <3>1 DEF NodeInv, Ordered
    <3>3. nodeAt'[p] = nodeAt[p]
      BY <1>2, <1>4, <3>2
    <3> QED BY <2>2, <3>1, <3>2, <3>3
  <2> QED BY <2>3, <2>4
<1>7. NodeInv'
  <2>1. \A t \in Tx : nodeAt'[t] <= nodeTip'
    BY <1>1, <1>2 DEF NodeInv
  <2>2. Consistent(NodeChain \union pool)'
    <3>1. (NodeChain \union pool)' = NodeChain \union S \union pool'
      BY <1>3
    <3> QED BY <1>5, <3>1 DEF Consistent
  <2>3. pool' \cap NodeChain' = {}
    BY <1>3, <1>5 DEF NodeInv
  <2> QED BY <1>6, <2>1, <2>2, <2>3 DEF NodeInv
<1>8. AppliedInv'
  <2>1. fork <= nodeTip'
    BY <1>1, <1>2 DEF AppliedInv
  <2>2. ASSUME NEW t \in Tx, at[t] \in 1..fork \/ nodeAt'[t] \in 1..fork PROVE at[t] = nodeAt'[t]
    BY <2>2, <1>2, <1>4 DEF AppliedInv
  <2> QED BY <1>1, <2>1, <2>2 DEF AppliedInv, Ordered
<1> QED BY <1>1, <1>7, <1>8 DEF ListedInv, Listed, Tracked

LEMMA ReorgChain == ASSUME TypeOK, ChainInv, NEW h \in 0..MaxHeight, NodeReorg(h) PROVE ChainInv'
<1> USE DEF ChainInv
<1>1. /\ h < nodeTip /\ nodeTip' = h /\ fork' = Min2(fork, h)
      /\ nodeAt' = [t \in Tx |-> IF nodeAt[t] > h THEN 0 ELSE nodeAt[t]]
      /\ pool' = pool \union {t \in Tx : nodeAt[t] > h}
      /\ UNCHANGED <<at, tip, ringBase, durable, mempool, notOurs, fetching>>
  BY DEF NodeReorg, chainVars, poolVars
<1>2. /\ h \in Nat /\ fork \in Nat /\ tip \in Nat /\ nodeAt \in [Tx -> Nat]
      /\ \A t \in Tx : nodeAt[t] \in Nat /\ at[t] \in Nat
      /\ \A t \in Tx : nodeAt'[t] = IF nodeAt[t] > h THEN 0 ELSE nodeAt[t]
  BY <1>1, BoundAssumption DEF TypeOK
<1>3. /\ NodeChain' \union pool' = NodeChain \union pool
      /\ pool' \cap NodeChain' = {}
  BY <1>1, <1>2 DEF NodeChain, NodeInv
<1>4. Ordered(nodeAt')
  BY <1>1, <1>2, OrderedCut DEF NodeInv
<1>5. NodeInv'
  <2>1. \A t \in Tx : nodeAt'[t] <= nodeTip'
    BY <1>1, <1>2
  <2>2. Consistent(NodeChain \union pool)'
    BY <1>3 DEF NodeInv, Consistent
  <2> QED BY <1>3, <1>4, <2>1, <2>2 DEF NodeInv
<1>6. fork' \in Nat /\ fork' <= fork /\ fork' <= h
  BY <1>1, <1>2 DEF Min2
<1>7. AppliedInv'
  <2>1. ASSUME NEW t \in Tx, at[t] \in 1..fork' \/ nodeAt'[t] \in 1..fork'
        PROVE at[t] = nodeAt'[t]
    BY <2>1, <1>2, <1>6 DEF AppliedInv
  <2>2. fork' <= tip /\ fork' <= nodeTip' /\ durable <= tip
    BY <1>1, <1>2, <1>6 DEF AppliedInv
  <2> QED BY <1>1, <2>1, <2>2 DEF AppliedInv, Ordered
<1>8. ListedInv'
  <2>1. \A t \in fetching : at[t] \notin 1..fork'
    BY <1>2, <1>6 DEF ListedInv, TypeOK
  <2> QED BY <1>1, <2>1 DEF ListedInv, Listed, Tracked
<1> QED BY <1>5, <1>7, <1>8

-----------------------------------------------------------------------------
(* The engine's steps.                                                     *)

(* A step of the engine leaves the node alone. *)
LEMMA NodeKept == ASSUME NodeInv, UNCHANGED nodeVars PROVE NodeInv'
BY DEF NodeInv, NodeChain, Ordered, nodeVars

(* The applied chain cut at a height n the two chains still share, or at   *)
(* which the engine stays ahead of the fork.                               *)
LEMMA CutApplied ==
  ASSUME TypeOK, AppliedInv, UNCHANGED nodeVars, NEW n \in Nat,
         at' = [t \in Tx |-> IF at[t] > n THEN 0 ELSE at[t]],
         tip' = n, fork' \in Nat, fork' <= fork, fork' <= n,
         durable' <= n
  PROVE  AppliedInv'
<1>1. /\ \A t \in Tx : at[t] \in Nat /\ at'[t] = IF at[t] > n THEN 0 ELSE at[t]
      /\ at \in [Tx -> Nat] /\ fork \in Nat /\ nodeTip \in Nat
      /\ nodeAt' = nodeAt /\ nodeTip' = nodeTip
  BY DEF TypeOK, nodeVars
<1>2. Ordered(at')
  BY <1>1, OrderedCut DEF AppliedInv
<1>3. ASSUME NEW t \in Tx, at'[t] \in 1..fork' \/ nodeAt'[t] \in 1..fork' PROVE at'[t] = nodeAt'[t]
  <2>1. at[t] \in 1..fork \/ nodeAt[t] \in 1..fork
    BY <1>1, <1>3
  <2>2. at[t] = nodeAt[t]
    BY <2>1 DEF AppliedInv
  <2> QED BY <1>1, <1>3, <2>2
<1>4. \A t \in Tx : at'[t] <= tip'
  BY <1>1
<1>5. fork' <= tip' /\ fork' <= nodeTip' /\ durable' <= tip'
  BY <1>1 DEF AppliedInv
<1> QED BY <1>2, <1>3, <1>4, <1>5 DEF AppliedInv, Ordered

LEMMA ApplyChain == ASSUME TypeOK, ChainInv, ApplyBlock PROVE ChainInv'
<1> USE DEF ChainInv
<1> DEFINE B == {t \in Tx : nodeAt[t] = tip + 1}
<1>1. /\ fetching = {} /\ fork = tip /\ tip < nodeTip
      /\ mempool' = [t \in Tx |-> IF t \in B /\ Tracked(t) /\ AnyOurs(t)
                              THEN "promoted" ELSE mempool[t]]
      /\ at' = [t \in Tx |-> IF t \in B THEN tip + 1 ELSE at[t]]
      /\ tip' = tip + 1 /\ fork' = tip + 1
      /\ durable' = IF tip + 1 - durable >= BatchTarget THEN tip + 1 ELSE durable
      /\ UNCHANGED nodeVars /\ fetching' = fetching
  BY DEF ApplyBlock
<1>2. /\ tip \in Nat /\ nodeTip \in Nat /\ durable \in Nat /\ nodeAt \in [Tx -> Nat]
      /\ \A t \in Tx : at[t] \in Nat /\ nodeAt[t] \in Nat
      /\ nodeAt' = nodeAt /\ nodeTip' = nodeTip
  BY <1>1 DEF TypeOK, nodeVars
<1>3. ASSUME NEW t \in Tx
      PROVE (IF t \in B THEN tip + 1 ELSE at[t]) = (IF nodeAt[t] > tip + 1 THEN 0 ELSE nodeAt[t])
  <2>1. at[t] <= tip /\ (at[t] \in 1..tip \/ nodeAt[t] \in 1..tip => at[t] = nodeAt[t])
    BY <1>1 DEF AppliedInv
  <2> QED BY <1>2, <2>1
<1>4. at' = [t \in Tx |-> IF nodeAt[t] > tip + 1 THEN 0 ELSE nodeAt[t]]
  BY <1>1, <1>3
<1>5. Ordered(at')
  BY <1>2, <1>4, OrderedCut DEF NodeInv
<1>6. \A t \in Tx : at'[t] = IF nodeAt[t] > tip + 1 THEN 0 ELSE nodeAt[t]
  BY <1>4
<1>7. AppliedInv'
  <2>1. \A t \in Tx : at'[t] <= tip'
    BY <1>1, <1>2, <1>6
  <2>2. \A t \in Tx : at'[t] \in 1..fork' \/ nodeAt'[t] \in 1..fork' => at'[t] = nodeAt'[t]
    BY <1>1, <1>2, <1>6
  <2>3. fork' <= tip' /\ fork' <= nodeTip' /\ durable' <= tip'
    BY <1>1, <1>2 DEF AppliedInv
  <2> QED BY <1>5, <2>1, <2>2, <2>3 DEF AppliedInv, Ordered
<1>8. ListedInv'
  <2>1. \A t \in Tx : mempool'[t] # "none" => mempool[t] # "none"
    BY <1>1 DEF Tracked
  <2>2. ASSUME NEW s \in Tx, NEW t \in Tx, Listed(s)', Listed(t)', s # t PROVE Ins[s] \cap Ins[t] = {}
    BY <1>1, <2>1, <2>2 DEF ListedInv, Listed, Tracked
  <2> QED BY <1>1, <2>2 DEF ListedInv
<1> QED BY <1>1, <1>7, <1>8, NodeKept

LEMMA RollbackChain == ASSUME TypeOK, ChainInv, RollbackTip \/ RollbackBelowRing PROVE ChainInv'
<1> USE DEF ChainInv
<1>1. /\ fetching = {} /\ fork < tip
      /\ at' = [t \in Tx |-> IF t \in TipTxs THEN 0 ELSE at[t]]
      /\ tip' = tip - 1 /\ durable' = tip - 1 /\ fork' = fork
      /\ UNCHANGED nodeVars /\ fetching' = fetching
  BY DEF RollbackTip, RollbackBelowRing, poolVars
<1>2. /\ tip \in Nat /\ fork \in Nat /\ tip - 1 \in Nat /\ fork <= tip - 1
      /\ \A t \in Tx : at[t] \in Nat
  BY <1>1 DEF TypeOK
<1>3. ASSUME NEW t \in Tx
      PROVE (IF t \in TipTxs THEN 0 ELSE at[t]) = (IF at[t] > tip - 1 THEN 0 ELSE at[t])
  BY <1>2 DEF AppliedInv, TipTxs
<1>4. at' = [t \in Tx |-> IF at[t] > tip - 1 THEN 0 ELSE at[t]]
  BY <1>1, <1>3
<1>5. AppliedInv'
  <2> DEFINE n == tip - 1
  <2>1. /\ n \in Nat /\ tip' = n /\ durable' <= n /\ fork' \in Nat /\ fork' <= fork /\ fork' <= n
        /\ at' = [t \in Tx |-> IF at[t] > n THEN 0 ELSE at[t]]
    BY <1>1, <1>2, <1>4
  <2> HIDE DEF n
  <2> QED BY <1>1, <2>1, CutApplied
<1>6. ListedInv'
  <2>1. \A t \in Tx : mempool'[t] # "none" => mempool[t] # "none"
    BY DEF RollbackTip, RollbackBelowRing, poolVars, Tracked
  <2>2. ASSUME NEW s \in Tx, NEW t \in Tx, Listed(s)', Listed(t)', s # t PROVE Ins[s] \cap Ins[t] = {}
    BY <1>1, <2>1, <2>2 DEF ListedInv, Listed, Tracked
  <2> QED BY <1>1, <2>2 DEF ListedInv
<1> QED BY <1>1, <1>5, <1>6, NodeKept

(* What is listed after the diff is in the node's mempool. *)
LEMMA ListChain == ASSUME TypeOK, ChainInv, MempoolList PROVE ChainInv'
<1> USE DEF ChainInv
<1>1. /\ fetching = {}
      /\ mempool' = [t \in Tx |-> IF t \in pool THEN mempool[t] ELSE "none"]
      /\ fetching' = {t \in pool : ~Tracked(t) /\ t \notin notOurs}
      /\ UNCHANGED <<nodeAt, nodeTip, pool, at, tip, durable, fork>>
  BY DEF MempoolList, nodeVars, chainVars
<1>2. AppliedInv'
  BY <1>1 DEF AppliedInv, Ordered
<1>3. \A t \in Tx : Listed(t)' => t \in pool
  BY <1>1 DEF Listed, Tracked
<1>4. \A s, t \in Tx : Listed(s)' /\ Listed(t)' /\ s # t => Ins[s] \cap Ins[t] = {}
  BY <1>3, PoolDisjoint
<1>5. \A t \in fetching' : at[t] \notin 1..fork
  <2> SUFFICES ASSUME NEW t \in pool, at[t] \in 1..fork PROVE FALSE
    BY <1>1
  <2>1. t \in Tx /\ fork \in Nat /\ at[t] = nodeAt[t]
    BY DEF TypeOK, AppliedInv
  <2>2. t \in NodeChain
    BY <2>1 DEF NodeChain
  <2> QED BY <2>2 DEF NodeInv
<1>6. ListedInv'
  BY <1>1, <1>4, <1>5 DEF ListedInv
<1> QED BY <1>1, <1>2, <1>6, NodeKept DEF nodeVars

LEMMA FetchChain == ASSUME TypeOK, ChainInv, NEW t \in Tx, MempoolFetch(t) PROVE ChainInv'
<1> USE DEF ChainInv
<1>1. /\ t \in fetching /\ fetching' = fetching \ {t}
      /\ mempool' = mempool \/ mempool' = [mempool EXCEPT ![t] = "pending"]
      /\ UNCHANGED <<nodeAt, nodeTip, pool, at, tip, durable, fork>>
  BY DEF MempoolFetch, nodeVars, chainVars
<1>2. \A s \in Tx : Listed(s)' => Listed(s)
  BY <1>1 DEF Listed, Tracked, TypeOK
<1>3. AppliedInv'
  BY <1>1 DEF AppliedInv, Ordered
<1>4. \A s \in fetching' : at'[s] \notin 1..fork'
  BY <1>1 DEF ListedInv
<1>5. ListedInv'
  BY <1>2, <1>4 DEF ListedInv
<1> QED BY <1>1, <1>3, <1>5, NodeKept DEF nodeVars

(* A step that leaves the chains and the mempool alone. *)
LEMMA ChainKept ==
  ASSUME ChainInv, UNCHANGED <<nodeVars, chainVars, fork, mempool>>, fetching' \subseteq fetching
  PROVE  ChainInv'
<1>1. NodeInv'
  BY NodeKept DEF ChainInv
<1>2. AppliedInv'
  BY DEF ChainInv, AppliedInv, Ordered, chainVars, nodeVars
<1>3. ListedInv'
  BY DEF ChainInv, ListedInv, Listed, Tracked, chainVars, nodeVars
<1> QED BY <1>1, <1>2, <1>3 DEF ChainInv

LEMMA FinishChain == ASSUME TypeOK, ChainInv, FinishSync PROVE ChainInv'
<1>1. /\ UNCHANGED <<nodeVars, at, tip, fork, mempool, fetching>> /\ durable' = tip
  BY DEF FinishSync, poolVars
<1>2. NodeInv'
  BY <1>1, NodeKept DEF ChainInv
<1>3. AppliedInv'
  BY <1>1 DEF ChainInv, AppliedInv, Ordered, nodeVars, TypeOK
<1>4. ListedInv'
  BY <1>1 DEF ChainInv, ListedInv, Listed, Tracked, nodeVars
<1> QED BY <1>2, <1>3, <1>4 DEF ChainInv

LEMMA BroadcastChain == ASSUME TypeOK, ChainInv, NEW s \in sends, SendBroadcast(s) PROVE ChainInv'
<1> DEFINE t == s.tx
<1>1. /\ t \notin NodeChain /\ pool' = pool \union {t}
      /\ Consistent(NodeChain \union pool \union {t})
      /\ UNCHANGED <<nodeAt, nodeTip, fork, at, tip, ringBase, durable, mempool, notOurs, fetching>>
  BY DEF SendBroadcast, chainVars, poolVars
<1> HIDE DEF t
<1>2. NodeChain' = NodeChain /\ NodeChain \union pool' = NodeChain \union pool \union {t}
  BY <1>1 DEF NodeChain
<1>3. NodeInv'
  BY <1>1, <1>2 DEF ChainInv, NodeInv, Ordered
<1> QED BY <1>1, <1>3 DEF ChainInv, AppliedInv, ListedInv, Listed, Tracked, Ordered

LEMMA CrashChain == ASSUME TypeOK, ChainInv, Crash PROVE ChainInv'
<1> USE DEF ChainInv
<1>1. /\ at' = [t \in Tx |-> IF at[t] > durable THEN 0 ELSE at[t]]
      /\ tip' = durable /\ fork' = Min2(fork, durable) /\ durable' = durable
      /\ mempool' = [t \in Tx |-> "none"] /\ fetching' = {}
      /\ UNCHANGED nodeVars
  BY DEF Crash
<1>2. durable \in Nat /\ fork \in Nat
  BY DEF TypeOK
<1>3. fork' \in Nat /\ fork' <= fork /\ fork' <= durable
  BY <1>1, <1>2 DEF Min2
<1>4. AppliedInv'
  BY <1>1, <1>2, <1>3, CutApplied
<1>5. ListedInv'
  BY <1>1 DEF ListedInv, Listed, Tracked
<1> QED BY <1>1, <1>4, <1>5, NodeKept

LEMMA InitChain == Init => ChainInv
<1> SUFFICES ASSUME Init PROVE ChainInv
  OBVIOUS
<1> USE DEF Init
<1>1. NodeInv
  BY DEF NodeInv, NodeChain, Ordered, Consistent
<1>2. AppliedInv
  BY DEF AppliedInv, Ordered
<1>3. ListedInv
  BY DEF ListedInv, Listed, Tracked
<1> QED BY <1>1, <1>2, <1>3 DEF ChainInv

LEMMA ChainStep == ASSUME TypeOK, ChainInv, [Next]_vars PROVE ChainInv'
<1>1. CASE NodeNext
  BY <1>1, AcceptChain, EvictChain, MineChain, ReorgChain DEF NodeNext
<1>2. CASE TailerNext
  <2>1. CASE MempoolAbort
    BY <2>1, ChainKept DEF MempoolAbort
  <2> QED BY <1>2, <2>1, ApplyChain, RollbackChain, ListChain, FetchChain, FinishChain DEF TailerNext
<1>3. CASE WalletNext
  <2>1. UNCHANGED <<nodeVars, chainVars, fork, mempool>> /\ fetching' = fetching
    BY <1>3 DEF WalletNext, OpenWallet, CloseWallet, Rescan, NewAddress, Derive, WatchAdd,
                WatchRemove, Attach, Detach, poolVars
  <2> QED BY <2>1, ChainKept
<1>4. CASE SendNext
  <2>1. ASSUME NEW s \in sends, SendBroadcast(s) PROVE ChainInv'
    BY <2>1, BroadcastChain
  <2>2. ASSUME NEW s \in sends, SendAnswer(s) \/ SendFail(s) PROVE ChainInv'
    BY <2>2, ChainKept DEF SendAnswer, SendFail, poolVars
  <2>3. ASSUME NEW w \in Wallet, NEW t \in Tx, SendBuild(w, t) PROVE ChainInv'
    BY <2>3, ChainKept DEF SendBuild, Derive, Attach
  <2> QED BY <1>4, <2>1, <2>2, <2>3 DEF SendNext
<1>5. CASE Crash
  BY <1>5, CrashChain
<1>6. CASE UNCHANGED vars
  BY <1>6, ChainKept DEF vars, poolVars
<1> QED BY <1>1, <1>2, <1>3, <1>4, <1>5, <1>6 DEF Next

LEMMA ChainInvariant == Spec => []ChainInv
<1>1. ChainInv /\ TypeOK /\ [Next]_vars => ChainInv'
  BY ChainStep
<1> QED BY <1>1, InitChain, TypeCorrect, PTL DEF Spec

(* The first-spender rule of PendingSpendUtxoLocked leaves conflicts to    *)
(* the mempool diff, and rightly so: no two tracked transactions ever      *)
(* spend one outpoint.                                                     *)
THEOREM TrackedNeverConflict == Spec => []TrackedConsistent
<1>1. ChainInv => TrackedConsistent
  BY DEF ChainInv, ListedInv, Listed, Tracked, TrackedConsistent, Pending
<1> QED BY <1>1, ChainInvariant, PTL

-----------------------------------------------------------------------------
(* What each handler makes of the flags of one coin.                       *)

LEMMA AddFlags ==
  ASSUME NEW u \in Cell, NEW c \in BOOLEAN
  PROVE  /\ AddUtxo(u, c).known
         /\ AddUtxo(u, c).confirmed = (u.confirmed \/ (~u.known /\ c))
         /\ AddUtxo(u, c).spent = u.spent
BY DEF AddUtxo, PendingIn, Confirmed, Cell

LEMMA SpendFlags ==
  ASSUME NEW u \in Cell
  PROVE  /\ SpendUtxo(u).known = u.known
         /\ SpendUtxo(u).confirmed = u.confirmed
         /\ SpendUtxo(u).spent = (u.spent \/ u.known)
BY DEF SpendUtxo, PendingOut, PendingIn, Confirmed, Missed, Cell

LEMMA PromoteFlags ==
  ASSUME NEW u \in Cell, u.known
  PROVE  PromoteUtxo(u).known /\ PromoteUtxo(u).confirmed /\ PromoteUtxo(u).spent = u.spent
BY DEF PromoteUtxo, PendingOut, PendingIn, Confirmed, Cell

LEMMA PendingSpendFlags ==
  ASSUME NEW u \in Cell, NEW t \in Tx
  PROVE  /\ PendingSpendUtxo(u, t).known = u.known
         /\ PendingSpendUtxo(u, t).confirmed = u.confirmed
         /\ PendingSpendUtxo(u, t).spent = u.spent
         /\ PendingSpendUtxo(u, t).missed = (u.missed \/ ~u.known)
BY DEF PendingSpendUtxo, PendingOut, PendingIn, Confirmed, Missed, Cell,
       InConfirmed, InPendingIn, Spendable, SpentPending

LEMMA UnspendFlags ==
  ASSUME NEW u \in Cell
  PROVE  /\ UnspendUtxo(u).known = u.known
         /\ UnspendUtxo(u).confirmed = u.confirmed
         /\ UnspendUtxo(u).spent = (u.spent /\ ~u.known)
         /\ UnspendUtxo(u).missed = (u.missed \/ ~u.known)
BY DEF UnspendUtxo, PendingIn, Confirmed, Missed, Cell

LEMMA SettleFlags ==
  ASSUME NEW u \in Cell
  PROVE  /\ Settle(u).known = u.known
         /\ Settle(u).confirmed = u.confirmed
         /\ Settle(u).spent = u.spent
BY DEF Settle, Cell

(* ApplyBlockLocked, before the ring is pruned. *)
LEMMA ApplyFlags ==
  ASSUME NEW u \in Cell, NEW k, NEW B, u.confirmed => u.known
  PROVE  LET c == \E t \in B : k \in Outs[t]
             s == \E t \in B : k \in Spends(t)
             v == ApplyEvents(u, k, B)
         IN  /\ v \in Cell
             /\ v.known = (u.known \/ c)
             /\ v.confirmed = (u.confirmed \/ c)
             /\ v.spent = (u.spent \/ (s /\ (u.known \/ c)))
<1> DEFINE c == \E t \in B : k \in Outs[t]
           s == \E t \in B : k \in Spends(t)
           add == CASE \A t \in B : k \notin Outs[t] -> u
                    [] (\E t \in B : k \in Outs[t]) /\ u.known  -> PromoteUtxo(u)
                    [] (\E t \in B : k \in Outs[t]) /\ ~u.known -> AddUtxo(u, TRUE)
<1>1. u.known \in BOOLEAN /\ u.confirmed \in BOOLEAN /\ u.spent \in BOOLEAN
  BY DEF Cell
<1>2. /\ add \in Cell
      /\ add.known = (u.known \/ c)
      /\ add.confirmed = (u.confirmed \/ c)
      /\ add.spent = u.spent
  <2>1. CASE ~c
    BY <1>1, <2>1
  <2>2. CASE c /\ u.known
    <3>1. add = PromoteUtxo(u)
      BY <2>2
    <3> HIDE DEF add
    <3> QED BY <1>1, <2>2, <3>1, PromoteFlags, PromoteFollows DEF Follows
  <2>3. CASE c /\ ~u.known
    <3>1. add = AddUtxo(u, TRUE)
      BY <2>3
    <3> HIDE DEF add
    <3> QED BY <1>1, <2>3, <3>1, AddFlags, AddFollows DEF Follows
  <2> QED BY <1>1, <2>1, <2>2, <2>3
<1>3. ApplyEvents(u, k, B) = IF s THEN SpendUtxo(add) ELSE add
  BY DEF ApplyEvents
<1> HIDE DEF add
<1>4. SpendUtxo(add) \in Cell
  BY <1>2, SpendFollows DEF Follows
<1> QED BY <1>1, <1>2, <1>3, <1>4, SpendFlags

LEMMA GcFlags ==
  ASSUME NEW u \in Cell
  PROVE  /\ GcUtxo(u) \in Cell
         /\ GcUtxo(u).known = (u.known /\ ~(u.spent /\ u.confirmed))
         /\ GcUtxo(u).confirmed = (u.confirmed /\ ~(u.known /\ u.spent))
         /\ GcUtxo(u).spent = (u.spent /\ ~(u.known /\ u.confirmed))
<1>1. GcUtxo(u) \in Cell
  BY GcFollows DEF Follows
<1> QED BY <1>1 DEF GcUtxo, Erase, Cell

(* RollbackTipLocked, the spends of the block and then its adds. *)
LEMMA UndoSpendFlags ==
  ASSUME NEW u \in Cell, NEW k
  PROVE  LET s == \E t \in TipTxs : k \in Spends(t)
             v == UndoSpend(u, k)
         IN  /\ v \in Cell
             /\ v.known = u.known
             /\ v.confirmed = u.confirmed
             /\ v.spent = (u.spent /\ ~(s /\ u.known))
             /\ v.missed = (u.missed \/ (s /\ ~u.known))
<1> DEFINE s == \E t \in TipTxs : k \in Spends(t)
           S == {t \in TipTxs : k \in Spends(t)}
           t == CHOOSE t \in S : TRUE
           b == UnspendUtxo(u)
<1>1. /\ u.known \in BOOLEAN /\ u.confirmed \in BOOLEAN /\ u.spent \in BOOLEAN
      /\ u.missed \in BOOLEAN
  BY DEF Cell
<1>2. UndoSpend(u, k) \in Cell
  BY UndoSpendFollows DEF Follows
<1>3. CASE ~s
  BY <1>1, <1>2, <1>3 DEF UndoSpend
<1>4. CASE s
  <2>1. S # {} /\ t \in Tx
    BY <1>4 DEF TipTxs
  <2>2. UndoSpend(u, k) = IF Tracked(t) THEN PendingSpendUtxo(b, t) ELSE b
    BY <2>1 DEF UndoSpend
  <2> HIDE DEF t, b
  <2>3. b \in Cell
    BY UnspendFollows DEF Follows, b
  <2>4. /\ b.known = u.known /\ b.confirmed = u.confirmed /\ b.spent = (u.spent /\ ~u.known)
        /\ b.missed = (u.missed \/ ~u.known)
    BY UnspendFlags DEF b
  <2>5. LET p == PendingSpendUtxo(b, t) IN
        /\ p.known = b.known /\ p.confirmed = b.confirmed /\ p.spent = b.spent
        /\ p.missed = (b.missed \/ ~b.known)
    BY <2>1, <2>3, PendingSpendFlags
  <2> QED BY <1>1, <1>2, <1>4, <2>2, <2>4, <2>5
<1> QED BY <1>3, <1>4

LEMMA UndoAddFlags ==
  ASSUME NEW u \in Cell, NEW k, u.confirmed => u.known,
         (\E t \in TipTxs : k \in Outs[t]) => ~u.spent
  PROVE  LET c == \E t \in TipTxs : k \in Outs[t]
             v == UndoAdd(u, k)
         IN  /\ v \in Cell
             /\ ~c => v = u
             /\ c => ~v.confirmed /\ ~v.spent /\ (v.known => u.known)
             /\ v.missed = u.missed
<1> DEFINE c == \E t \in TipTxs : k \in Outs[t]
<1>1. UndoAdd(u, k) \in Cell
  BY UndoAddFollows DEF Follows
<1>2. CASE ~c
  BY <1>1, <1>2 DEF UndoAdd
<1>3. CASE c
  <2>1. (UndoAdd(u, k) = DemoteUtxo(u) /\ u.known) \/ UndoAdd(u, k) = RemoveUtxo(u)
    <3>1. CASE u.known /\ u.confirmed
      <4>1. CASE \A t \in TipTxs : k \in Outs[t] => Demotes(t, u)
        BY <1>3, <4>1, <3>1 DEF UndoAdd
      <4>2. CASE \A t \in TipTxs : k \in Outs[t] => ~Demotes(t, u)
        BY <1>3, <4>2 DEF UndoAdd
      <4>3. \A s, t \in TipTxs : k \in Outs[s] /\ k \in Outs[t] => s = t
        BY TxAssumption DEF TipTxs
      <4> QED BY <4>1, <4>2, <4>3
    <3>2. CASE ~(u.known /\ u.confirmed)
      <4>1. \A t \in TipTxs : ~Demotes(t, u)
        BY <3>2 DEF Demotes
      <4> QED BY <1>3, <4>1 DEF UndoAdd
    <3> QED BY <3>1, <3>2
  <2>2. u.known => ~DemoteUtxo(u).confirmed /\ DemoteUtxo(u).spent = u.spent /\ DemoteUtxo(u).missed = u.missed
    BY DEF DemoteUtxo, PendingOut, PendingIn, Confirmed, Cell
  <2>3. /\ ~u.spent => ~RemoveUtxo(u).confirmed /\ ~RemoveUtxo(u).spent
        /\ RemoveUtxo(u).known => u.known
        /\ RemoveUtxo(u).missed = u.missed
    BY DEF RemoveUtxo, PendingOut, PendingIn, Confirmed, Erase, Cell, InConfirmed, InPendingIn,
           InPendingOut, Spendable
  <2> QED BY <1>1, <1>3, <2>1, <2>2, <2>3 DEF Cell
<1> QED BY <1>2, <1>3

LEMMA InvalidateFlags ==
  ASSUME NEW u \in Cell, u.confirmed => u.known, u.spent => u.confirmed
  PROVE  LET v == Missed(InvalidateUtxo(u)) IN
         /\ v \in Cell
         /\ v.known = (u.known /\ ~u.confirmed)
         /\ ~v.confirmed /\ ~v.spent /\ v.missed
<1>1. InvalidateUtxo(u) \in Cell
  BY InvalidateFollows DEF Follows
<1>2. Missed(InvalidateUtxo(u)) \in Cell
  BY <1>1, EraseCell
<1>3. /\ InvalidateUtxo(u).known = (u.known /\ ~u.confirmed)
      /\ ~InvalidateUtxo(u).confirmed /\ ~InvalidateUtxo(u).spent
  BY DEF InvalidateUtxo, PendingOut, Confirmed, Erase, Cell, InConfirmed, InPendingOut, Spendable
<1> DEFINE i == InvalidateUtxo(u)
<1> HIDE DEF i
<1>4. Missed(i).known = i.known /\ Missed(i).confirmed = i.confirmed /\ Missed(i).spent = i.spent /\ Missed(i).missed
  BY <1>1 DEF Missed, Cell, i
<1> QED BY <1>2, <1>3, <1>4 DEF i

(* RollbackPendingTxLocked forgets nothing that is confirmed. *)
LEMMA RollbackPendingFlags ==
  ASSUME NEW u \in Cell, NEW k, u.confirmed => u.known, u.spent => u.confirmed
  PROVE  LET v == RollbackPending(u, k) IN
         /\ v \in Cell
         /\ v.known => u.known
         /\ u.confirmed => v.known
         /\ v.confirmed = u.confirmed
         /\ v.spent = u.spent
<1> DEFINE add == IF \E t \in Gone : k \in Outs[t] THEN RollbackPendingAdd(u) ELSE u
<1>1. RollbackPending(u, k) \in Cell
  BY RollbackPendingFollows DEF Follows
<1>2. add \in Cell
  BY RollbackPendingAddFollows DEF Follows
<1>3. (add.known => u.known) /\ (u.confirmed => add.known) /\ add.confirmed = u.confirmed /\ add.spent = u.spent
  BY DEF RollbackPendingAdd, PendingIn, Erase, Cell
<1>4. RollbackPending(u, k) \in {add, RollbackPendingSpend(add)}
  BY DEF RollbackPending
<1> HIDE DEF add
<1>5. /\ RollbackPendingSpend(add).known = add.known
      /\ RollbackPendingSpend(add).confirmed = add.confirmed
      /\ RollbackPendingSpend(add).spent = add.spent
  BY <1>2 DEF RollbackPendingSpend, PendingOut, PendingIn, Confirmed, Cell
<1> QED BY <1>1, <1>3, <1>4, <1>5

LEMMA ApplyPendingFlags ==
  ASSUME NEW u \in Cell, NEW k, NEW t \in Tx
  PROVE  LET v == ApplyPending(u, k, t) IN
         /\ v \in Cell
         /\ v.known = (u.known \/ k \in Outs[t])
         /\ v.confirmed = u.confirmed
         /\ v.spent = u.spent
<1>1. ApplyPending(u, k, t) \in Cell
  BY ApplyPendingFollows DEF Follows
<1>2. k \notin Outs[t] \/ k \notin Spends(t)
  BY TxAssumption DEF Spends
<1>3. u.known \in BOOLEAN /\ u.confirmed \in BOOLEAN /\ u.spent \in BOOLEAN
  BY DEF Cell
<1>4. CASE k \in Outs[t]
  <2>1. ApplyPending(u, k, t) = AddUtxo(u, FALSE)
    BY <1>2, <1>4 DEF ApplyPending, Events
  <2>2. AddUtxo(u, FALSE).known /\ AddUtxo(u, FALSE).confirmed = u.confirmed /\ AddUtxo(u, FALSE).spent = u.spent
    BY <1>3, AddFlags
  <2> QED BY <1>1, <1>3, <1>4, <2>1, <2>2
<1>5. CASE k \in Spends(t)
  <2>1. ApplyPending(u, k, t) = PendingSpendUtxo(u, t)
    BY <1>2, <1>5 DEF ApplyPending, Events
  <2> QED BY <1>1, <1>2, <1>3, <1>5, <2>1, PendingSpendFlags
<1>6. CASE k \notin Outs[t] /\ k \notin Spends(t)
  BY <1>1, <1>3, <1>6 DEF ApplyPending, Events
<1> QED BY <1>4, <1>5, <1>6

(* ReplayMempoolForAddressLocked, of an address that is new. *)
LEMMA ReplayFlags ==
  ASSUME NEW k, NEW order
  PROVE  LET v == ReplayMempool(NoCell, k, order) IN
         /\ v \in Cell
         /\ v.known => \E t \in Tx : Pending(t) /\ k \in Outs[t]
         /\ ~v.confirmed /\ ~v.spent
<1> DEFINE adders   == {t \in Tx : Pending(t) /\ k \in Outs[t]}
           spenders == {t \in Tx : Pending(t) /\ k \in Spends(t)}
           c == CHOOSE c \in spenders : TRUE
           Spend(v) == IF spenders = {} THEN v ELSE PendingSpendUtxo(v, c)
           Add(v) == IF adders = {} THEN v ELSE AddUtxo(v, FALSE)
           Good(v) == v \in Cell /\ (v.known => adders # {}) /\ ~v.confirmed /\ ~v.spent
<1>1. spenders # {} => c \in Tx
  OBVIOUS
<1>2. ASSUME NEW v, Good(v) PROVE Good(Add(v))
  <2>1. CASE adders = {}
    BY <1>2, <2>1
  <2>2. CASE adders # {}
    <3>1. AddUtxo(v, FALSE) \in Cell
      BY <1>2, AddFollows DEF Follows
    <3>2. AddUtxo(v, FALSE).confirmed = v.confirmed /\ AddUtxo(v, FALSE).spent = v.spent
      BY <1>2, AddFlags DEF Cell
    <3> HIDE DEF adders
    <3> QED BY <1>2, <2>2, <3>1, <3>2
  <2> QED BY <2>1, <2>2
<1>3. ASSUME NEW v, Good(v) PROVE Good(Spend(v))
  <2>1. CASE spenders = {}
    BY <1>3, <2>1
  <2>2. CASE spenders # {}
    <3> HIDE DEF c, spenders, adders
    <3>1. PendingSpendUtxo(v, c) \in Cell
      BY <1>1, <1>3, <2>2, PendingSpendFollows DEF Follows
    <3>2. LET p == PendingSpendUtxo(v, c) IN p.known = v.known /\ p.confirmed = v.confirmed /\ p.spent = v.spent
      BY <1>1, <1>3, <2>2, PendingSpendFlags
    <3> QED BY <1>3, <2>2, <3>1, <3>2
  <2> QED BY <2>1, <2>2
<1>4. ReplayMempool(NoCell, k, order) \in {Spend(Add(NoCell)), Add(Spend(NoCell))}
  BY DEF ReplayMempool
<1>5. Good(NoCell)
  BY NoCellSound DEF NoCell
<1>6. Good(ReplayMempool(NoCell, k, order))
  <2> HIDE DEF Good, Add, Spend
  <2>1. Good(Add(NoCell)) /\ Good(Spend(NoCell))
    BY <1>2, <1>3, <1>5
  <2>2. Good(Spend(Add(NoCell))) /\ Good(Add(Spend(NoCell)))
    BY <1>2, <1>3, <2>1
  <2> QED BY <1>4, <2>2
<1> QED BY <1>6

(* RunWalletRescanFromMirrorLocked. *)
LEMMA RescanFlags ==
  ASSUME NEW u \in Cell, NEW b \in BOOLEAN, u.confirmed => u.known, u.spent => u.confirmed
  PROVE  LET v == RescanUtxo(u, b) IN
         /\ v \in Cell
         /\ v.known /\ ~v.confirmed => u.known /\ ~u.confirmed
         /\ v.confirmed => b \/ u.confirmed
         /\ v.spent => v.confirmed /\ u.spent
         /\ v.confirmed => v.known
         /\ Live(v) => b \/ Live(u)
         /\ b /\ (u.known => Live(u)) => Live(v)
<1> DEFINE d == IF Spendable(u) THEN Erase(Confirmed(u, -1)) ELSE u
<1>1. RescanUtxo(u, b) \in Cell
  BY RescanFollows DEF Follows
<1>2. d \in Cell
  BY MoveCell, EraseCell
<1>3. /\ Spendable(u) => ~d.known /\ ~d.confirmed /\ ~d.spent
      /\ ~Spendable(u) => d = u
  BY DEF Erase, Confirmed, Cell
<1>4. RescanUtxo(u, b) = IF b THEN AddUtxo(d, TRUE) ELSE d
  BY DEF RescanUtxo
<1> HIDE DEF d
<1>5. /\ AddUtxo(d, TRUE).known
      /\ AddUtxo(d, TRUE).confirmed = (d.confirmed \/ ~d.known)
      /\ AddUtxo(d, TRUE).spent = d.spent
  BY <1>2, AddFlags DEF Cell
<1> QED BY <1>1, <1>3, <1>4, <1>5 DEF Cell, Live, Spendable

LEMMA MarkSentFlags ==
  ASSUME NEW u \in Cell, NEW t \in Tx
  PROVE  /\ MarkSent(u, t) \in Cell
         /\ MarkSent(u, t).known = u.known
         /\ MarkSent(u, t).confirmed = u.confirmed
         /\ MarkSent(u, t).spent = u.spent
<1>1. MarkSent(u, t) \in Cell
  BY MarkSentFollows DEF Follows
<1> QED BY <1>1 DEF MarkSent, PendingOut, Confirmed, Cell, InConfirmed, Spendable, SpentPending

-----------------------------------------------------------------------------
(* The flags and the chain.                                                *)

(* A coin has one creator, which no height of the chain can hide. *)
LEMMA OneCreator ==
  ASSUME NEW k, NEW p \in Tx, NEW q \in Tx, k \in Outs[p], k \in Outs[q]
  PROVE  p = q
BY TxAssumption

(* In the applied chain the creator comes no later than a spender. *)
LEMMA CreatorFirst ==
  ASSUME TypeOK, AppliedInv, NEW t \in Tx, at[t] > 0, NEW k \in Ins[t], NEW p \in Tx, k \in Outs[p]
  PROVE  at[p] > 0 /\ at[p] <= at[t]
BY OneCreator DEF AppliedInv, Ordered

(* What the invariant says of one coin. *)
LEMMA CoinFlags ==
  ASSUME BalanceInv, FlagsInv, NEW k \in Key
  PROVE  /\ utxo[k] \in Cell
         /\ utxo[k].known \in BOOLEAN /\ utxo[k].confirmed \in BOOLEAN /\ utxo[k].spent \in BOOLEAN
         /\ utxo[k].confirmed => utxo[k].known
         /\ utxo[k].spent => utxo[k].confirmed
         /\ utxo[k].known /\ ~utxo[k].confirmed => ~CreatedBy(k, fork)
         /\ utxo[k].spent => Spent(k, tip)
         /\ utxo[k].confirmed => CreatedBy(k, tip)
<1>1. utxo[k] \in Cell
  BY DEF BalanceInv, CoinInv, CoinTypeOK
<1>2. Fits(utxo[k], CreatedBy(k, fork), CreatedBy(k, tip), Spent(k, tip))
  BY DEF FlagsInv
<1> QED BY <1>1, <1>2 DEF Fits, Cell

LEMMA NoCellFits == ASSUME NEW a, NEW b, NEW c PROVE Fits(NoCell, a, b, c)
BY DEF Fits, NoCell

LEMMA SettleFits ==
  ASSUME NEW u \in Cell, NEW a, NEW b, NEW c, Fits(u, a, b, c)
  PROVE  Fits(Settle(u), a, b, c)
BY SettleFlags DEF Fits

(* A handler that writes cells that fit the chain it leaves. *)
LEMMA WriteFits ==
  ASSUME BalanceInv, NEW n, Write(n),
         \A k \in Key : /\ n[k] \in Cell
                        /\ Fits(n[k], CreatedBy(k, fork)', CreatedBy(k, tip)', Spent(k, tip)')
  PROVE  FlagsInv'
<1> SUFFICES ASSUME NEW k \in Key
             PROVE Fits(utxo'[k], CreatedBy(k, fork)', CreatedBy(k, tip)', Spent(k, tip)')
  BY DEF FlagsInv
<1>1. utxo'[k] = IF Known(k) THEN Settle(n[k]) ELSE utxo[k]
  BY DEF Write
<1>2. ~Known(k) => utxo[k] = NoCell
  BY DEF BalanceInv, CoinInv, Absent
<1> QED BY <1>1, <1>2, SettleFits, NoCellFits

(* A step that leaves the coins and the applied chain alone. *)
LEMMA FlagsKept ==
  ASSUME TypeOK, FlagsInv, UNCHANGED <<at, tip, utxo>>, fork' \in Nat, fork' <= fork
  PROVE  FlagsInv'
<1> SUFFICES ASSUME NEW k \in Key
             PROVE Fits(utxo[k], CreatedBy(k, fork)', CreatedBy(k, tip)', Spent(k, tip)')
  BY DEF FlagsInv
<1>1. Fits(utxo[k], CreatedBy(k, fork), CreatedBy(k, tip), Spent(k, tip))
  BY DEF FlagsInv
<1>2. CreatedBy(k, fork)' => CreatedBy(k, fork)
  BY DEF CreatedBy, TypeOK
<1>3. CreatedBy(k, tip)' = CreatedBy(k, tip) /\ Spent(k, tip)' = Spent(k, tip)
  BY DEF CreatedBy, Spent
<1> QED BY <1>1, <1>2, <1>3 DEF Fits

LEMMA OursKept ==
  ASSUME OursInv, \A a \in Addr : watchers[a] \subseteq watchers'[a],
         \A t \in Tx : Tracked(t)' => Tracked(t) \/ AnyOurs(t),
         "close" \notin Env => \A t \in Tx : Pending(t)' => at'[t] \notin 1..fork'
  PROVE  OursInv'
<1>1. ASSUME NEW t \in Tx, AnyOurs(t) PROVE AnyOurs(t)'
  <2>1. PICK k \in Events(t) : Known(k)
    BY <1>1 DEF AnyOurs
  <2>2. k \in Key
    BY TxAssumption DEF Events, Spends
  <2>3. Owner[k] \in Addr
    BY <2>2, OwnerAssumption
  <2>4. Registered(Owner[k])'
    BY <2>1, <2>3 DEF Known, Registered
  <2> QED BY <2>1, <2>4 DEF AnyOurs, Known, Events
<1> QED BY <1>1 DEF OursInv

-----------------------------------------------------------------------------
(* The steps, one by one.                                                  *)

FitInv == FlagsInv /\ OursInv

LEMMA NodeFit == ASSUME BalanceInv, FitInv, NodeNext PROVE FitInv'
<1>1. UNCHANGED <<at, tip, utxo, mempool, watchers>>
  BY DEF NodeNext, NodeAccept, NodeEvict, NodeMine, NodeReorg, chainVars, coinVars, poolVars
<1>2. fork' \in Nat /\ fork' <= fork /\ fork \in Nat
  <2>1. fork \in Nat
    BY DEF BalanceInv, TypeOK
  <2>2. fork' = fork \/ \E h \in 0..MaxHeight : fork' = Min2(fork, h)
    BY DEF NodeNext, NodeAccept, NodeEvict, NodeMine, NodeReorg
  <2> QED BY <2>1, <2>2, BoundAssumption DEF Min2
<1>3. FlagsInv'
  BY <1>1, <1>2, FlagsKept DEF FitInv, BalanceInv
<1>4. \A t \in Tx : at[t] \in Nat
  BY DEF BalanceInv, TypeOK
<1>5. ASSUME "close" \notin Env, NEW t \in Tx, Pending(t)' PROVE at'[t] \notin 1..fork'
  BY <1>1, <1>2, <1>4, <1>5 DEF FitInv, OursInv, Pending
<1>6. OursInv'
  BY <1>1, <1>5, OursKept DEF FitInv, Tracked
<1> QED BY <1>3, <1>6 DEF FitInv

(* What a block makes of the chain, for one coin. *)
LEMMA ApplyCreated ==
  ASSUME TypeOK, AppliedInv, ApplyBlock, NEW k,
         NEW c \in BOOLEAN, c = \E t \in Tx : nodeAt[t] = tip + 1 /\ k \in Outs[t],
         NEW s \in BOOLEAN, s = \E t \in Tx : nodeAt[t] = tip + 1 /\ k \in Ins[t]
  PROVE  /\ CreatedBy(k, tip)' = (CreatedBy(k, tip) \/ c)
         /\ CreatedBy(k, fork)' = CreatedBy(k, tip)'
         /\ SpentBy(k, tip)' = (SpentBy(k, tip) \/ s)
         /\ k \notin Opaque => Spent(k, tip) = SpentBy(k, tip)
         /\ Spent(k, tip) => Spent(k, tip)'
         /\ (\E t \in Tx : nodeAt[t] = tip + 1 /\ k \in Spends(t)) => Spent(k, tip)'
<1>1. /\ fork = tip /\ at' = [t \in Tx |-> IF nodeAt[t] = tip + 1 THEN tip + 1 ELSE at[t]]
      /\ tip' = tip + 1 /\ fork' = tip + 1
  BY DEF ApplyBlock
<1>2. tip \in Nat /\ \A t \in Tx : at[t] \in Nat /\ at[t] <= tip /\ nodeAt[t] \in Nat
  BY DEF TypeOK, AppliedInv
<1>3. \A t \in Tx : nodeAt[t] = tip + 1 => at[t] = 0
  BY <1>1, <1>2 DEF AppliedInv
<1>4. \A t \in Tx : at'[t] \in 1..tip' <=> at[t] \in 1..tip \/ nodeAt[t] = tip + 1
  BY <1>1, <1>2
<1> QED BY <1>1, <1>4 DEF CreatedBy, SpentBy, Spent, Spends

(* What a block spends has been created, in it or before it. *)
LEMMA SpentWasCreated ==
  ASSUME TypeOK, ChainInv, ApplyBlock, NEW t \in Tx, nodeAt[t] = tip + 1, NEW k \in Ins[t]
  PROVE  CreatedBy(k, tip)'
<1>1. /\ at' = [q \in Tx |-> IF nodeAt[q] = tip + 1 THEN tip + 1 ELSE at[q]]
      /\ tip' = tip + 1
  BY DEF ApplyBlock
<1>2. at'[t] = tip + 1 /\ tip \in Nat
  BY <1>1 DEF TypeOK
<1>3. AppliedInv'
  BY ApplyChain DEF ChainInv
<1>4. PICK p \in Tx : k \in Outs[p] /\ at'[p] > 0 /\ at'[p] <= at'[t]
  BY <1>2, <1>3 DEF AppliedInv, Ordered
<1>5. at'[p] \in Nat
  BY <1>1, <1>2 DEF TypeOK
<1> QED BY <1>1, <1>2, <1>4, <1>5 DEF CreatedBy

LEMMA ApplyFit == ASSUME BalanceInv, ChainInv, FitInv, ApplyBlock PROVE FitInv'
<1> DEFINE B == {t \in Tx : nodeAt[t] = tip + 1}
           e(k) == ApplyEvents(utxo[k], k, B)
           n == [k \in Key |-> IF LeavesRing(k) THEN GcUtxo(e(k)) ELSE e(k)]
<1>1. /\ fetching = {} /\ fork = tip /\ Write(n)
      /\ mempool' = [t \in Tx |-> IF t \in B /\ Tracked(t) /\ AnyOurs(t)
                                  THEN "promoted" ELSE mempool[t]]
      /\ at' = [t \in Tx |-> IF t \in B THEN tip + 1 ELSE at[t]]
      /\ tip' = tip + 1 /\ fork' = tip + 1
  BY DEF ApplyBlock
<1>2. TypeOK /\ AppliedInv /\ FlagsInv /\ OursInv
  BY DEF BalanceInv, ChainInv, FitInv
<1>3. ASSUME NEW k \in Key
      PROVE n[k] \in Cell /\ Fits(n[k], CreatedBy(k, fork)', CreatedBy(k, tip)', Spent(k, tip)')
  <2> DEFINE u == utxo[k]
             c == \E t \in Tx : nodeAt[t] = tip + 1 /\ k \in Outs[t]
             i == \E t \in Tx : nodeAt[t] = tip + 1 /\ k \in Ins[t]
             s == \E t \in Tx : nodeAt[t] = tip + 1 /\ k \in Spends(t)
  <2>1. /\ u \in Cell
        /\ u.known \in BOOLEAN /\ u.confirmed \in BOOLEAN /\ u.spent \in BOOLEAN
        /\ u.confirmed => u.known
        /\ u.spent => u.confirmed
        /\ u.known /\ ~u.confirmed => ~CreatedBy(k, fork)
        /\ u.spent => Spent(k, tip)
        /\ u.confirmed => CreatedBy(k, tip)
    BY <1>2, CoinFlags
  <2>2. /\ CreatedBy(k, tip)' = (CreatedBy(k, tip) \/ c)
        /\ CreatedBy(k, fork)' = CreatedBy(k, tip)'
        /\ Spent(k, tip) => Spent(k, tip)'
        /\ s => Spent(k, tip)'
    <3> i \in BOOLEAN /\ c \in BOOLEAN
      OBVIOUS
    <3> QED BY <1>2, ApplyCreated
  <2>3. c = (\E t \in B : k \in Outs[t]) /\ s = (\E t \in B : k \in Spends(t))
    OBVIOUS
  <2>4. s => CreatedBy(k, tip)'
    BY <1>2, SpentWasCreated DEF Spends
  <2> c \in BOOLEAN /\ s \in BOOLEAN
    OBVIOUS
  <2> HIDE DEF c, s, i, u
  <2>5. /\ e(k) \in Cell
        /\ e(k).known = (u.known \/ c)
        /\ e(k).confirmed = (u.confirmed \/ c)
        /\ e(k).spent = (u.spent \/ (s /\ (u.known \/ c)))
    <3> HIDE DEF B
    <3>1. u.confirmed => u.known
      BY <2>1
    <3> QED BY <2>1, <2>3, <3>1, ApplyFlags DEF u
  <2> HIDE DEF e
  <2>6. Fits(e(k), CreatedBy(k, fork)', CreatedBy(k, tip)', Spent(k, tip)')
    BY <1>1, <2>1, <2>2, <2>4, <2>5 DEF Fits
  <2>7. GcUtxo(e(k)) \in Cell /\ Fits(GcUtxo(e(k)), CreatedBy(k, fork)', CreatedBy(k, tip)', Spent(k, tip)')
    BY <2>5, <2>6, GcFlags DEF Fits
  <2> QED BY <2>5, <2>6, <2>7
<1> HIDE DEF n, e
<1>4. FlagsInv'
  BY <1>1, <1>3, WriteFits
<1>5. ASSUME "close" \notin Env, NEW t \in Tx, Pending(t)' PROVE at'[t] \notin 1..fork'
  <2>1. tip \in Nat /\ at[t] \in Nat /\ at[t] <= tip
    BY <1>2 DEF TypeOK, AppliedInv
  <2>2. Pending(t) /\ ~(t \in B /\ Tracked(t) /\ AnyOurs(t))
    BY <1>1, <1>5 DEF Pending
  <2>3. t \notin B /\ at[t] \notin 1..fork
    BY <1>2, <1>5, <2>2 DEF OursInv, Tracked, Pending
  <2> QED BY <1>1, <2>1, <2>3
<1>6. OursInv'
  <2>1. \A t \in Tx : Tracked(t)' => Tracked(t)
    BY <1>1 DEF Tracked
  <2>2. \A a \in Addr : watchers[a] \subseteq watchers'[a]
    BY <1>1 DEF Write
  <2> QED BY <1>2, <1>5, <2>1, <2>2, OursKept
<1> QED BY <1>4, <1>6 DEF FitInv

(* What undoing the tip makes of the chain, for one coin. *)
LEMMA UndoCreated ==
  ASSUME TypeOK, AppliedInv, RollbackTip \/ RollbackBelowRing, NEW k
  PROVE  /\ CreatedBy(k, fork)' = CreatedBy(k, fork)
         /\ SpentBy(k, tip) => SpentBy(k, tip)' \/ \E t \in TipTxs : k \in Ins[t]
         /\ SpentBy(k, tip)' => SpentBy(k, tip)
         /\ Spent(k, tip) => Spent(k, tip)' \/ \E t \in TipTxs : k \in Spends(t)
         /\ CreatedBy(k, tip) => CreatedBy(k, tip)' \/ \E t \in TipTxs : k \in Outs[t]
         /\ (\E t \in TipTxs : k \in Outs[t]) => ~CreatedBy(k, tip)' /\ ~CreatedBy(k, fork)
<1>1. /\ fork < tip /\ at' = [t \in Tx |-> IF t \in TipTxs THEN 0 ELSE at[t]]
      /\ tip' = tip - 1 /\ fork' = fork
  BY DEF RollbackTip, RollbackBelowRing
<1>2. tip \in Nat /\ fork \in Nat /\ \A t \in Tx : at[t] \in Nat /\ at[t] <= tip
  BY DEF TypeOK, AppliedInv
<1>3. \A t \in Tx : /\ t \in TipTxs <=> at[t] = tip
                    /\ at'[t] \in 1..tip' <=> at[t] \in 1..tip /\ t \notin TipTxs
                    /\ at'[t] \in 1..fork' <=> at[t] \in 1..fork
  BY <1>1, <1>2 DEF TipTxs
<1>4. ASSUME NEW p \in TipTxs, k \in Outs[p] PROVE ~CreatedBy(k, tip)' /\ ~CreatedBy(k, fork)
  <2>1. \A q \in Tx : k \in Outs[q] => q = p
    BY <1>4, OneCreator DEF TipTxs
  <2> QED BY <1>1, <1>2, <1>3, <1>4, <2>1 DEF CreatedBy
<1> QED BY <1>3, <1>4 DEF CreatedBy, SpentBy, Spent

(* A coin that the tip creates is spent by the tip or not at all. *)
LEMMA TipSpends ==
  ASSUME TypeOK, AppliedInv, NEW k, NEW p \in TipTxs, k \in Outs[p], Spent(k, tip), tip > 0
  PROVE  \E t \in TipTxs : k \in Spends(t)
<1>1. PICK t \in Tx : at[t] \in 1..tip /\ k \in Spends(t)
  BY DEF Spent
<1>2. at[p] <= at[t] /\ at[p] = tip /\ tip \in Nat /\ at[t] \in Nat
  BY <1>1, CreatorFirst DEF TipTxs, Spends, TypeOK
<1> QED BY <1>1, <1>2 DEF TipTxs

LEMMA RollbackFit == ASSUME BalanceInv, ChainInv, FitInv, RollbackTip PROVE FitInv'
<1> DEFINE d(k) == UndoSpend(utxo[k], k)
           n == [k \in Key |-> UndoAdd(d(k), k)]
<1>1. /\ fork < tip /\ Write(n)
      /\ at' = [t \in Tx |-> IF t \in TipTxs THEN 0 ELSE at[t]]
      /\ tip' = tip - 1 /\ fork' = fork
  BY DEF RollbackTip
<1>2. TypeOK /\ AppliedInv /\ FlagsInv /\ OursInv /\ tip \in Nat /\ fork \in Nat
  BY DEF BalanceInv, ChainInv, FitInv, TypeOK
<1>3. ASSUME NEW k \in Key
      PROVE n[k] \in Cell /\ Fits(n[k], CreatedBy(k, fork)', CreatedBy(k, tip)', Spent(k, tip)')
  <2> DEFINE u == utxo[k]
             c == \E t \in TipTxs : k \in Outs[t]
             s == \E t \in TipTxs : k \in Spends(t)
  <2>1. /\ u \in Cell
        /\ u.known \in BOOLEAN /\ u.confirmed \in BOOLEAN /\ u.spent \in BOOLEAN
        /\ u.confirmed => u.known
        /\ u.spent => u.confirmed
        /\ u.known /\ ~u.confirmed => ~CreatedBy(k, fork)
        /\ u.spent => Spent(k, tip)
        /\ u.confirmed => CreatedBy(k, tip)
    BY <1>2, CoinFlags
  <2>2. /\ CreatedBy(k, fork)' = CreatedBy(k, fork)
        /\ Spent(k, tip) => Spent(k, tip)' \/ s
        /\ CreatedBy(k, tip) => CreatedBy(k, tip)' \/ c
        /\ c => ~CreatedBy(k, fork)
    BY <1>2, UndoCreated
  <2>3. c /\ u.spent => s
    BY <1>1, <1>2, <2>1, TipSpends
  <2>4. /\ d(k) \in Cell
        /\ d(k).known = u.known
        /\ d(k).confirmed = u.confirmed
        /\ d(k).spent = (u.spent /\ ~(s /\ u.known))
    BY <2>1, UndoSpendFlags
  <2> HIDE DEF d, u
  <2>5. d(k).confirmed => d(k).known
    BY <2>1, <2>4
  <2>6. c => ~d(k).spent
    BY <2>1, <2>3, <2>4
  <2>7. /\ n[k] \in Cell
        /\ ~c => n[k] = d(k)
        /\ c => ~n[k].confirmed /\ ~n[k].spent /\ (n[k].known => d(k).known)
    BY <2>4, <2>5, <2>6, UndoAddFlags
  <2> HIDE DEF c, s, n
  <2>8. CASE c
    BY <2>2, <2>7, <2>8 DEF Fits
  <2>9. CASE ~c
    BY <2>1, <2>2, <2>4, <2>7, <2>9 DEF Fits
  <2> QED BY <2>7, <2>8, <2>9
<1> HIDE DEF n, d
<1>4. FlagsInv'
  BY <1>1, <1>3, WriteFits
<1>5. ASSUME "close" \notin Env, NEW t \in Tx, Pending(t)' PROVE at'[t] \notin 1..fork'
  <2>1. at[t] \in Nat
    BY <1>2 DEF TypeOK
  <2>2. Pending(t) \/ t \in TipTxs
    BY <1>5 DEF RollbackTip, Pending
  <2>3. CASE t \in TipTxs
    BY <1>1, <2>3
  <2>4. CASE Pending(t)
    BY <1>1, <1>2, <1>5, <2>4 DEF OursInv
  <2> QED BY <2>2, <2>3, <2>4
<1>6. OursInv'
  <2>1. \A t \in Tx : Tracked(t)' => Tracked(t)
    BY DEF Tracked, RollbackTip
  <2>2. \A a \in Addr : watchers[a] \subseteq watchers'[a]
    BY <1>1 DEF Write
  <2> QED BY <1>2, <1>5, <2>1, <2>2, OursKept
<1> QED BY <1>4, <1>6 DEF FitInv

LEMMA BelowFit == ASSUME BalanceInv, ChainInv, FitInv, RollbackBelowRing PROVE FitInv'
<1> DEFINE n == [k \in Key |-> Missed(InvalidateUtxo(utxo[k]))]
<1>1. /\ fork < tip /\ Write(n)
      /\ at' = [t \in Tx |-> IF t \in TipTxs THEN 0 ELSE at[t]]
      /\ tip' = tip - 1 /\ fork' = fork /\ mempool' = mempool
  BY DEF RollbackBelowRing, poolVars
<1>2. TypeOK /\ AppliedInv /\ FlagsInv /\ OursInv /\ tip \in Nat /\ fork \in Nat
  BY DEF BalanceInv, ChainInv, FitInv, TypeOK
<1>3. ASSUME NEW k \in Key
      PROVE n[k] \in Cell /\ Fits(n[k], CreatedBy(k, fork)', CreatedBy(k, tip)', Spent(k, tip)')
  <2>1. /\ utxo[k] \in Cell
        /\ utxo[k].confirmed => utxo[k].known
        /\ utxo[k].spent => utxo[k].confirmed
        /\ utxo[k].known /\ ~utxo[k].confirmed => ~CreatedBy(k, fork)
    BY <1>2, CoinFlags
  <2>2. CreatedBy(k, fork)' = CreatedBy(k, fork)
    BY <1>2, UndoCreated
  <2>3. /\ n[k] \in Cell /\ n[k].known = (utxo[k].known /\ ~utxo[k].confirmed)
        /\ ~n[k].confirmed /\ ~n[k].spent
    BY <2>1, InvalidateFlags
  <2> QED BY <2>1, <2>2, <2>3 DEF Fits
<1> HIDE DEF n
<1>4. FlagsInv'
  BY <1>1, <1>3, WriteFits
<1>5. ASSUME "close" \notin Env, NEW t \in Tx, Pending(t)' PROVE at'[t] \notin 1..fork'
  BY <1>1, <1>2, <1>5 DEF OursInv, Pending
<1>6. OursInv'
  <2>1. \A a \in Addr : watchers[a] \subseteq watchers'[a]
    BY <1>1 DEF Write
  <2> QED BY <1>1, <1>2, <1>5, <2>1, OursKept DEF Tracked
<1> QED BY <1>4, <1>6 DEF FitInv

LEMMA ListFit == ASSUME BalanceInv, ChainInv, FitInv, MempoolList PROVE FitInv'
<1> DEFINE n == [k \in Key |-> RollbackPending(utxo[k], k)]
<1>1. /\ Write(n) /\ UNCHANGED <<at, tip, fork>>
      /\ mempool' = [t \in Tx |-> IF t \in pool THEN mempool[t] ELSE "none"]
  BY DEF MempoolList, chainVars
<1>2. FlagsInv /\ OursInv
  BY DEF FitInv
<1>3. ASSUME NEW k \in Key
      PROVE n[k] \in Cell /\ Fits(n[k], CreatedBy(k, fork)', CreatedBy(k, tip)', Spent(k, tip)')
  <2>1. /\ utxo[k] \in Cell
        /\ utxo[k].confirmed => utxo[k].known
        /\ utxo[k].spent => utxo[k].confirmed
        /\ utxo[k].known /\ ~utxo[k].confirmed => ~CreatedBy(k, fork)
        /\ utxo[k].spent => Spent(k, tip)
        /\ utxo[k].confirmed => CreatedBy(k, tip)
    BY <1>2, CoinFlags
  <2>2. /\ CreatedBy(k, fork)' = CreatedBy(k, fork)
        /\ CreatedBy(k, tip)' = CreatedBy(k, tip)
        /\ Spent(k, tip)' = Spent(k, tip)
    BY <1>1 DEF CreatedBy, Spent
  <2>3. /\ n[k] \in Cell
        /\ n[k].known => utxo[k].known
        /\ utxo[k].confirmed => n[k].known
        /\ n[k].confirmed = utxo[k].confirmed
        /\ n[k].spent = utxo[k].spent
    BY <2>1, RollbackPendingFlags
  <2> HIDE DEF n
  <2> QED BY <2>1, <2>2, <2>3 DEF Fits
<1> HIDE DEF n
<1>4. FlagsInv'
  BY <1>1, <1>3, WriteFits
<1>5. ASSUME "close" \notin Env, NEW t \in Tx, Pending(t)' PROVE at'[t] \notin 1..fork'
  BY <1>1, <1>2, <1>5 DEF OursInv, Pending
<1>6. OursInv'
  <2>1. \A a \in Addr : watchers[a] \subseteq watchers'[a]
    BY <1>1 DEF Write
  <2>2. \A t \in Tx : Tracked(t)' => Tracked(t)
    BY <1>1 DEF Tracked
  <2> QED BY <1>1, <1>2, <1>5, <2>1, <2>2, OursKept
<1> QED BY <1>4, <1>6 DEF FitInv

LEMMA FetchFit == ASSUME BalanceInv, ChainInv, FitInv, NEW t \in Tx, MempoolFetch(t) PROVE FitInv'
<1> DEFINE n == [k \in Key |-> ApplyPending(utxo[k], k, t)]
<1>1. /\ Write(n) /\ UNCHANGED <<at, tip, fork>> /\ t \in fetching
      /\ AnyOurs(t) => mempool' = [mempool EXCEPT ![t] = "pending"]
      /\ ~AnyOurs(t) => mempool' = mempool
  BY DEF MempoolFetch, chainVars
<1>2. FlagsInv /\ OursInv /\ TypeOK /\ at[t] \notin 1..fork
  BY <1>1 DEF FitInv, BalanceInv, ChainInv, ListedInv
<1>3. ASSUME NEW k \in Key
      PROVE n[k] \in Cell /\ Fits(n[k], CreatedBy(k, fork)', CreatedBy(k, tip)', Spent(k, tip)')
  <2>1. /\ utxo[k] \in Cell
        /\ utxo[k].confirmed => utxo[k].known
        /\ utxo[k].spent => utxo[k].confirmed
        /\ utxo[k].known /\ ~utxo[k].confirmed => ~CreatedBy(k, fork)
        /\ utxo[k].spent => Spent(k, tip)
        /\ utxo[k].confirmed => CreatedBy(k, tip)
    BY <1>2, CoinFlags
  <2>2. /\ CreatedBy(k, fork)' = CreatedBy(k, fork)
        /\ CreatedBy(k, tip)' = CreatedBy(k, tip)
        /\ Spent(k, tip)' = Spent(k, tip)
    BY <1>1 DEF CreatedBy, Spent
  <2>3. /\ n[k] \in Cell
        /\ n[k].known = (utxo[k].known \/ k \in Outs[t])
        /\ n[k].confirmed = utxo[k].confirmed
        /\ n[k].spent = utxo[k].spent
    BY <2>1, ApplyPendingFlags
  <2>4. k \in Outs[t] => ~CreatedBy(k, fork)
    BY <1>2, OneCreator DEF CreatedBy
  <2> HIDE DEF n
  <2> QED BY <2>1, <2>2, <2>3, <2>4 DEF Fits
<1> HIDE DEF n
<1>4. FlagsInv'
  BY <1>1, <1>3, WriteFits
<1>5. ASSUME NEW s \in Tx, mempool'[s] # mempool[s] PROVE s = t /\ AnyOurs(t)
  BY <1>1, <1>2, <1>5 DEF TypeOK
<1>6. ASSUME "close" \notin Env, NEW s \in Tx, Pending(s)' PROVE at'[s] \notin 1..fork'
  BY <1>1, <1>2, <1>5, <1>6 DEF OursInv, Pending
<1>7. OursInv'
  <2>1. \A a \in Addr : watchers[a] \subseteq watchers'[a]
    BY <1>1 DEF Write
  <2>2. \A s \in Tx : Tracked(s)' => Tracked(s) \/ AnyOurs(s)
    BY <1>5 DEF Tracked
  <2> QED BY <1>2, <1>6, <2>1, <2>2, OursKept
<1> QED BY <1>4, <1>7 DEF FitInv

(* An address is attached with cells that fit the chain. *)
LEMMA AttachFit ==
  ASSUME BalanceInv, FitInv, NEW w \in Wallet, NEW A, NEW n, Attach(w, A, n),
         \A k \in Key : ~Known(k) =>
           n[k] \in Cell /\ Fits(n[k], CreatedBy(k, fork), CreatedBy(k, tip), Spent(k, tip))
  PROVE  FitInv'
<1>1. /\ UNCHANGED <<at, tip, fork, mempool>>
      /\ watchers' = [a \in Addr |-> IF a \in A THEN watchers[a] \union {w} ELSE watchers[a]]
      /\ utxo' = [k \in Key |-> IF Owner[k] \in {a \in A : ~Registered(a)}
                                THEN Settle(n[k]) ELSE utxo[k]]
  BY DEF Attach, chainVars
<1>2. ASSUME NEW k \in Key
      PROVE Fits(utxo'[k], CreatedBy(k, fork)', CreatedBy(k, tip)', Spent(k, tip)')
  <2>1. /\ CreatedBy(k, fork)' = CreatedBy(k, fork)
        /\ CreatedBy(k, tip)' = CreatedBy(k, tip)
        /\ Spent(k, tip)' = Spent(k, tip)
    BY <1>1 DEF CreatedBy, Spent
  <2>2. Fits(utxo[k], CreatedBy(k, fork), CreatedBy(k, tip), Spent(k, tip))
    BY DEF FitInv, FlagsInv
  <2>3. (utxo'[k] = Settle(n[k]) /\ ~Known(k)) \/ utxo'[k] = utxo[k]
    BY <1>1 DEF Known
  <2>4. ~Known(k) => Fits(Settle(n[k]), CreatedBy(k, fork), CreatedBy(k, tip), Spent(k, tip))
    BY SettleFits
  <2> QED BY <2>1, <2>2, <2>3, <2>4
<1>3. OursInv'
  <2>1. \A a \in Addr : watchers[a] \subseteq watchers'[a]
    BY <1>1
  <2>2. \A t \in Tx : Tracked(t)' => Tracked(t)
    BY <1>1 DEF Tracked
  <2>3. "close" \notin Env => \A t \in Tx : Pending(t)' => at'[t] \notin 1..fork'
    BY <1>1 DEF FitInv, OursInv, Pending
  <2> QED BY <2>1, <2>2, <2>3, OursKept DEF FitInv
<1> QED BY <1>2, <1>3 DEF FitInv, FlagsInv

(* The new addresses of a wallet that is opened, or derives them. *)
LEMMA AttachEmptyFit ==
  ASSUME BalanceInv, FitInv, NEW w \in Wallet, NEW A, Attach(w, A, utxo)
  PROVE  FitInv'
<1>1. \A k \in Key : ~Known(k) => utxo[k] = NoCell
  BY DEF BalanceInv, CoinInv, Absent
<1>2. \A k \in Key : ~Known(k) =>
        utxo[k] \in Cell /\ Fits(utxo[k], CreatedBy(k, fork), CreatedBy(k, tip), Spent(k, tip))
  BY <1>1, NoCellSound, NoCellFits
<1> QED BY <1>2, AttachFit

LEMMA WatchFit ==
  ASSUME Steady, BalanceInv, FitInv, NEW w \in Wallet, NEW a \in Addr, WatchAdd(w, a)
  PROVE  FitInv'
<1>1. "close" \notin Env
  BY DEF WatchAdd, Steady
<1>2. PICK order : Attach(w, {a}, [k \in Key |-> ReplayMempool(utxo[k], k, order)])
  BY DEF WatchAdd
<1> DEFINE n == [k \in Key |-> ReplayMempool(utxo[k], k, order)]
<1>3. ASSUME NEW k \in Key, ~Known(k)
      PROVE n[k] \in Cell /\ Fits(n[k], CreatedBy(k, fork), CreatedBy(k, tip), Spent(k, tip))
  <2>1. n[k] = ReplayMempool(NoCell, k, order)
    BY <1>3 DEF BalanceInv, CoinInv, Absent
  <2>2. /\ n[k] \in Cell
        /\ n[k].known => \E t \in Tx : Pending(t) /\ k \in Outs[t]
        /\ ~n[k].confirmed /\ ~n[k].spent
    BY <2>1, ReplayFlags
  <2>3. ASSUME NEW t \in Tx, Pending(t), k \in Outs[t] PROVE ~CreatedBy(k, fork)
    BY <1>1, <2>3, OneCreator DEF CreatedBy, FitInv, OursInv
  <2> HIDE DEF n
  <2> QED BY <2>2, <2>3 DEF Fits
<1> HIDE DEF n
<1>4. Attach(w, {a}, n)
  BY <1>2 DEF n
<1> QED BY <1>3, <1>4, AttachFit

LEMMA DetachFit ==
  ASSUME FitInv, "close" \in Env, NEW w, NEW A, Detach(w, A)
  PROVE  FitInv'
<1>1. /\ UNCHANGED <<at, tip, fork>>
      /\ utxo' = [k \in Key |-> IF Owner[k] \in {a \in A : watchers[a] = {w}} THEN NoCell ELSE utxo[k]]
  BY DEF Detach, chainVars
<1>2. ASSUME NEW k \in Key
      PROVE Fits(utxo'[k], CreatedBy(k, fork)', CreatedBy(k, tip)', Spent(k, tip)')
  <2>1. /\ CreatedBy(k, fork)' = CreatedBy(k, fork)
        /\ CreatedBy(k, tip)' = CreatedBy(k, tip)
        /\ Spent(k, tip)' = Spent(k, tip)
    BY <1>1 DEF CreatedBy, Spent
  <2>2. Fits(utxo[k], CreatedBy(k, fork), CreatedBy(k, tip), Spent(k, tip))
    BY DEF FitInv, FlagsInv
  <2> QED BY <1>1, <2>1, <2>2, NoCellFits
<1> QED BY <1>2 DEF FitInv, FlagsInv, OursInv

LEMMA RescanFit ==
  ASSUME BalanceInv, ChainInv, FitInv, NEW w, NEW A, Rescan(w, A)
  PROVE  FitInv'
<1> DEFINE r(k) == RescanUtxo(utxo[k], Unspent(k, durable))
<1>1. /\ UNCHANGED <<at, tip, fork, mempool, watchers>>
      /\ \A k \in Key : utxo'[k] = IF Owner[k] \in A THEN Settle(r(k)) ELSE utxo[k]
  BY DEF Rescan, chainVars, poolVars
<1>2. durable <= tip /\ durable \in Nat /\ tip \in Nat /\ \A t \in Tx : at[t] \in Nat
  BY DEF BalanceInv, TypeOK, ChainInv, AppliedInv
<1>3. ASSUME NEW k \in Key
      PROVE Fits(utxo'[k], CreatedBy(k, fork)', CreatedBy(k, tip)', Spent(k, tip)')
  <2>1. /\ CreatedBy(k, fork)' = CreatedBy(k, fork)
        /\ CreatedBy(k, tip)' = CreatedBy(k, tip)
        /\ Spent(k, tip)' = Spent(k, tip)
    BY <1>1 DEF CreatedBy, Spent
  <2>2. Fits(utxo[k], CreatedBy(k, fork), CreatedBy(k, tip), Spent(k, tip))
    BY DEF FitInv, FlagsInv
  <2>3. Unspent(k, durable) => CreatedBy(k, tip)
    BY <1>2 DEF Unspent, CreatedBy
  <2>4. utxo[k] \in Cell /\ (utxo[k].confirmed => utxo[k].known) /\ (utxo[k].spent => utxo[k].confirmed)
    BY CoinFlags DEF FitInv
  <2>5. Unspent(k, durable) \in BOOLEAN
    BY DEF Unspent, CreatedBy
  <2>6. /\ r(k) \in Cell
        /\ r(k).known /\ ~r(k).confirmed => utxo[k].known /\ ~utxo[k].confirmed
        /\ r(k).confirmed => Unspent(k, durable) \/ utxo[k].confirmed
        /\ r(k).spent => r(k).confirmed /\ utxo[k].spent
        /\ r(k).confirmed => r(k).known
    BY <2>4, <2>5, RescanFlags
  <2> HIDE DEF r
  <2>7. Fits(r(k), CreatedBy(k, fork), CreatedBy(k, tip), Spent(k, tip))
    BY <2>2, <2>3, <2>6 DEF Fits
  <2> QED BY <1>1, <2>1, <2>2, <2>6, <2>7, SettleFits
<1>4. OursInv'
  BY <1>1 DEF FitInv, OursInv, Tracked, Pending, AnyOurs, Known, Registered, Events
<1> QED BY <1>3, <1>4 DEF FitInv, FlagsInv

LEMMA AnswerFit == ASSUME BalanceInv, FitInv, NEW s \in sends, SendAnswer(s) PROVE FitInv'
<1> DEFINE n == [k \in Key |-> IF k \in Ins[s.tx] /\ s.wallet \in watchers[Owner[k]]
                               THEN MarkSent(utxo[k], s.tx) ELSE utxo[k]]
<1>1. Write(n) /\ UNCHANGED <<at, tip, fork, mempool>> /\ s.tx \in Tx
  BY DEF SendAnswer, chainVars, poolVars, BalanceInv, TypeOK, Send
<1>2. ASSUME NEW k \in Key
      PROVE n[k] \in Cell /\ Fits(n[k], CreatedBy(k, fork)', CreatedBy(k, tip)', Spent(k, tip)')
  <2>1. /\ CreatedBy(k, fork)' = CreatedBy(k, fork)
        /\ CreatedBy(k, tip)' = CreatedBy(k, tip)
        /\ Spent(k, tip)' = Spent(k, tip)
    BY <1>1 DEF CreatedBy, Spent
  <2>2. Fits(utxo[k], CreatedBy(k, fork), CreatedBy(k, tip), Spent(k, tip)) /\ utxo[k] \in Cell
    BY DEF FitInv, FlagsInv, BalanceInv, CoinInv, CoinTypeOK
  <2>3. LET v == MarkSent(utxo[k], s.tx) IN
        v \in Cell /\ v.known = utxo[k].known /\ v.confirmed = utxo[k].confirmed /\ v.spent = utxo[k].spent
    BY <1>1, <2>2, MarkSentFlags
  <2>4. n[k] = utxo[k] \/ n[k] = MarkSent(utxo[k], s.tx)
    OBVIOUS
  <2> HIDE DEF n
  <2> QED BY <2>1, <2>2, <2>3, <2>4 DEF Fits
<1> HIDE DEF n
<1>3. FlagsInv'
  BY <1>1, <1>2, WriteFits
<1>4. OursInv'
  BY <1>1 DEF FitInv, OursInv, Tracked, Pending, AnyOurs, Known, Registered, Events, Write
<1> QED BY <1>3, <1>4 DEF FitInv

(* A step that leaves the coins, the mempool and the applied chain alone. *)
LEMMA FitKept ==
  ASSUME FitInv, UNCHANGED <<at, tip, fork, utxo, mempool, watchers>>
  PROVE  FitInv'
<1>1. OursInv'
  BY DEF FitInv, OursInv, Tracked, Pending, AnyOurs, Known, Registered, Events
<1>2. FlagsInv'
  BY DEF FitInv, FlagsInv, CreatedBy, Spent
<1> QED BY <1>1, <1>2 DEF FitInv

LEMMA FitStep ==
  ASSUME Steady, BalanceInv, ChainInv, FitInv, [Next]_vars
  PROVE  FitInv'
<1>1. CASE NodeNext
  BY <1>1, NodeFit
<1>2. CASE TailerNext
  <2>1. CASE FinishSync \/ MempoolAbort
    BY <2>1, FitKept DEF FinishSync, MempoolAbort, chainVars, coinVars, poolVars
  <2> QED BY <1>2, <2>1, ApplyFit, RollbackFit, BelowFit, ListFit, FetchFit DEF TailerNext
<1>3. CASE WalletNext
  <2>1. ASSUME NEW w \in Wallet, OpenWallet(w) PROVE FitInv'
    BY <2>1, AttachEmptyFit DEF OpenWallet
  <2>2. ASSUME NEW w \in Wallet, CloseWallet(w) PROVE FitInv'
    BY <2>2, DetachFit DEF CloseWallet
  <2>3. ASSUME NEW w \in Wallet, NEW A \in SUBSET Addr, Rescan(w, A) PROVE FitInv'
    BY <2>3, RescanFit
  <2>4. ASSUME NEW w \in Wallet, NEW a \in Addr, NewAddress(w, a) PROVE FitInv'
    BY <2>4, AttachEmptyFit DEF NewAddress, Derive
  <2>5. ASSUME NEW w \in Wallet, NEW a \in Addr, WatchAdd(w, a) PROVE FitInv'
    BY <2>5, WatchFit
  <2>6. ASSUME NEW w \in Wallet, NEW a \in Addr, WatchRemove(w, a) PROVE FitInv'
    BY <2>6, DetachFit DEF WatchRemove
  <2> QED BY <1>3, <2>1, <2>2, <2>3, <2>4, <2>5, <2>6 DEF WalletNext
<1>4. CASE SendNext
  <2>1. ASSUME NEW w \in Wallet, NEW t \in Tx, SendBuild(w, t) PROVE FitInv'
    BY <2>1, AttachEmptyFit DEF SendBuild, Derive
  <2>2. ASSUME NEW s \in sends, SendBroadcast(s) \/ SendFail(s) PROVE FitInv'
    BY <2>2, FitKept DEF SendBroadcast, SendFail, chainVars, coinVars, poolVars
  <2>3. ASSUME NEW s \in sends, SendAnswer(s) PROVE FitInv'
    BY <2>3, AnswerFit
  <2> QED BY <1>4, <2>1, <2>2, <2>3 DEF SendNext
<1>5. CASE Crash
  <2>1. OursInv'
    BY <1>5 DEF Crash, OursInv, Tracked, Pending
  <2>2. FlagsInv'
    BY <1>5, NoCellFits DEF Crash, FlagsInv
  <2> QED BY <2>1, <2>2 DEF FitInv
<1>6. CASE UNCHANGED vars
  BY <1>6, FitKept DEF vars, chainVars, coinVars, poolVars
<1> QED BY <1>1, <1>2, <1>3, <1>4, <1>5, <1>6 DEF Next

(* The flags fit the chain, as long as no address is watched again after   *)
(* it was given up.                                                        *)
LEMMA FitInvariant == ASSUME Steady PROVE Spec => []FitInv
<1>1. Init => FitInv
  <2>1. Init => FlagsInv
    BY NoCellFits DEF Init, FlagsInv
  <2>2. Init => OursInv
    BY DEF Init, OursInv, Tracked, Pending
  <2> QED BY <2>1, <2>2 DEF FitInv
<1>2. BalanceInv /\ ChainInv /\ FitInv /\ [Next]_vars => FitInv'
  BY FitStep
<1> QED BY <1>1, <1>2, BalanceInvariant, ChainInvariant, PTL DEF Spec

-----------------------------------------------------------------------------
(* The totals.                                                             *)

(* Without sends, whose answer marks inputs on its own, the totals of      *)
(* every coin are what its flags say.                                      *)
SoundInv == sends = {} /\ \A k \in Key : Sound(utxo[k])

LEMMA WriteSound ==
  ASSUME SoundInv, NEW n, Write(n), \A k \in Key : n[k] \in Cell /\ Sound(n[k])
  PROVE  \A k \in Key : Sound(utxo'[k])
BY SettleSound DEF SoundInv, Write

(* ApplyBlockLocked: a coin that is spent in the block is a confirmed one. *)
LEMMA ApplySound ==
  ASSUME NEW u \in Cell, NEW k, NEW B, Sound(u),
         (\E t \in B : k \in Spends(t)) =>
           \/ \E t \in B : k \in Outs[t]
           \/ ~u.known
           \/ u.confirmed
  PROVE  Sound(ApplyEvents(u, k, B))
<1> DEFINE c == \E t \in B : k \in Outs[t]
           s == \E t \in B : k \in Spends(t)
           add == CASE \A t \in B : k \notin Outs[t] -> u
                    [] (\E t \in B : k \in Outs[t]) /\ u.known  -> PromoteUtxo(u)
                    [] (\E t \in B : k \in Outs[t]) /\ ~u.known -> AddUtxo(u, TRUE)
<1>1. add \in Cell /\ Sound(add) /\ (s => (add.known => add.confirmed))
  <2>1. CASE ~c
    BY <2>1
  <2>2. CASE c /\ u.known
    <3>1. add = PromoteUtxo(u)
      BY <2>2
    <3> HIDE DEF add
    <3> QED BY <2>2, <3>1, PromoteFlags, PromoteFollows DEF Follows
  <2>3. CASE c /\ ~u.known
    <3>1. add = AddUtxo(u, TRUE)
      BY <2>3
    <3> HIDE DEF add
    <3> QED BY <2>3, <3>1, AddFlags, AddFollows DEF Follows
  <2> QED BY <2>1, <2>2, <2>3
<1>2. ApplyEvents(u, k, B) = IF s THEN SpendUtxo(add) ELSE add
  BY DEF ApplyEvents
<1> HIDE DEF add
<1> QED BY <1>1, <1>2, SpendFollows

(* RollbackTipLocked: a coin that is demoted has been unspent. *)
LEMMA UndoSpendSound == ASSUME NEW u \in Cell, NEW k, Sound(u) PROVE Sound(UndoSpend(u, k))
<1> DEFINE S == {t \in TipTxs : k \in Spends(t)}
           t == CHOOSE t \in S : TRUE
<1>1. CASE S = {}
  BY <1>1 DEF UndoSpend
<1>2. CASE S # {}
  <2>1. t \in Tx
    BY <1>2 DEF TipTxs
  <2>2. UndoSpend(u, k) = IF Tracked(t) THEN PendingSpendUtxo(UnspendUtxo(u), t) ELSE UnspendUtxo(u)
    BY <1>2 DEF UndoSpend
  <2> HIDE DEF t
  <2>3. UnspendUtxo(u) \in Cell /\ Sound(UnspendUtxo(u))
    BY UnspendFollows DEF Follows
  <2>4. Sound(PendingSpendUtxo(UnspendUtxo(u), t))
    BY <2>1, <2>3, PendingSpendFollows
  <2> QED BY <2>2, <2>3, <2>4
<1> QED BY <1>1, <1>2

LEMMA UndoAddSound ==
  ASSUME NEW u \in Cell, NEW k, Sound(u), (\E t \in TipTxs : k \in Outs[t]) => ~u.spent
  PROVE  Sound(UndoAdd(u, k))
<1>1. CASE \A t \in TipTxs : k \notin Outs[t]
  BY <1>1 DEF UndoAdd
<1>2. CASE \E t \in TipTxs : k \in Outs[t]
  <2>1. Sound(DemoteUtxo(u)) /\ Sound(RemoveUtxo(u))
    BY <1>2, DemoteFollows, RemoveFollows
  <2> QED BY <1>2, <2>1 DEF UndoAdd
<1> QED BY <1>1, <1>2

LEMMA RollbackPendingSound ==
  ASSUME NEW u \in Cell, NEW k, Sound(u)
  PROVE  Sound(RollbackPending(u, k))
<1> DEFINE add == IF \E t \in Gone : k \in Outs[t] THEN RollbackPendingAdd(u) ELSE u
<1>1. add \in Cell /\ Sound(add)
  BY RollbackPendingAddFollows DEF Follows
<1>2. RollbackPending(u, k) \in {add, RollbackPendingSpend(add)}
  BY DEF RollbackPending
<1> HIDE DEF add
<1> QED BY <1>1, <1>2, RollbackPendingSpendFollows

LEMMA ApplyPendingSound ==
  ASSUME NEW u \in Cell, NEW k, NEW t \in Tx, Sound(u)
  PROVE  Sound(ApplyPending(u, k, t))
BY AddFollows, PendingSpendFollows DEF ApplyPending, Events

LEMMA ReplaySound == ASSUME NEW k, NEW order PROVE Sound(ReplayMempool(NoCell, k, order))
<1> DEFINE adders   == {t \in Tx : Pending(t) /\ k \in Outs[t]}
           spenders == {t \in Tx : Pending(t) /\ k \in Spends(t)}
           c == CHOOSE c \in spenders : TRUE
           Spend(v) == IF spenders = {} THEN v ELSE PendingSpendUtxo(v, c)
           Add(v) == IF adders = {} THEN v ELSE AddUtxo(v, FALSE)
<1>1. spenders # {} => c \in Tx
  OBVIOUS
<1>2. ASSUME NEW v \in Cell, Sound(v) PROVE Add(v) \in Cell /\ Sound(Add(v))
  BY <1>2, AddFollows DEF Follows
<1>3. ASSUME NEW v \in Cell, Sound(v) PROVE Spend(v) \in Cell /\ Sound(Spend(v))
  <2> HIDE DEF c, spenders
  <2> QED BY <1>1, <1>3, PendingSpendFollows DEF Follows
<1>4. ReplayMempool(NoCell, k, order) \in {Spend(Add(NoCell)), Add(Spend(NoCell))}
  BY DEF ReplayMempool
<1> HIDE DEF Add, Spend
<1>5. Sound(Spend(Add(NoCell))) /\ Sound(Add(Spend(NoCell)))
  BY <1>2, <1>3, NoCellSound
<1> QED BY <1>4, <1>5

LEMMA TailerSound ==
  ASSUME BalanceInv, ChainInv, FitInv, SoundInv, TailerNext
  PROVE  SoundInv'
<1>1. sends' = sends
  BY DEF TailerNext, ApplyBlock, RollbackTip, RollbackBelowRing, FinishSync, MempoolList,
         MempoolAbort, MempoolFetch
<1>2. \A k \in Key : utxo[k] \in Cell /\ Sound(utxo[k])
  BY DEF BalanceInv, CoinInv, CoinTypeOK, SoundInv
<1>3. TypeOK /\ AppliedInv /\ FlagsInv
  BY DEF BalanceInv, ChainInv, FitInv
<1>4. CASE ApplyBlock
  <2> DEFINE B == {t \in Tx : nodeAt[t] = tip + 1}
             e(k) == ApplyEvents(utxo[k], k, B)
             n == [k \in Key |-> IF LeavesRing(k) THEN GcUtxo(e(k)) ELSE e(k)]
  <2>1. Write(n)
    BY <1>4 DEF ApplyBlock
  <2>2. ASSUME NEW k \in Key PROVE n[k] \in Cell /\ Sound(n[k])
    <3>1. e(k) \in Cell
      BY <1>2, ApplyEventsFollows DEF Follows
    <3>2. ASSUME NEW t \in Tx, nodeAt[t] = tip + 1, k \in Ins[t], \A p \in B : k \notin Outs[p]
          PROVE ~utxo[k].known \/ utxo[k].confirmed
      <4>1. CreatedBy(k, tip)'
        BY <1>3, <1>4, <3>2, SpentWasCreated
      <4>2. CreatedBy(k, fork)
        BY <1>3, <1>4, <3>2, <4>1 DEF ApplyBlock, CreatedBy, TypeOK, AppliedInv
      <4> QED BY <1>3, <4>2, CoinFlags
    <3>3. Sound(e(k))
      BY <1>2, <3>2, ApplySound DEF Spends
    <3> HIDE DEF e
    <3>4. GcUtxo(e(k)) \in Cell /\ Sound(GcUtxo(e(k)))
      BY <3>1, <3>3, GcFollows DEF Follows
    <3> QED BY <3>1, <3>3, <3>4
  <2> HIDE DEF n
  <2> QED BY <1>1, <2>1, <2>2, WriteSound DEF SoundInv
<1>5. CASE RollbackTip
  <2> DEFINE d(k) == UndoSpend(utxo[k], k)
             n == [k \in Key |-> UndoAdd(d(k), k)]
  <2>1. Write(n)
    BY <1>5 DEF RollbackTip
  <2>2. ASSUME NEW k \in Key PROVE n[k] \in Cell /\ Sound(n[k])
    <3>1. d(k) \in Cell /\ Sound(d(k))
      BY <1>2, UndoSpendFollows, UndoSpendSound DEF Follows
    <3>2. ASSUME NEW p \in TipTxs, k \in Outs[p] PROVE ~d(k).spent
      <4>1. tip > 0
        BY <1>3, <1>5 DEF TypeOK, RollbackTip
      <4>2. utxo[k].spent => \E t \in TipTxs : k \in Spends(t)
        BY <1>3, <3>2, <4>1, CoinFlags, TipSpends
      <4>3. utxo[k].spent => utxo[k].known
        BY <1>3, CoinFlags
      <4>4. d(k).spent = (utxo[k].spent /\ ~((\E t \in TipTxs : k \in Spends(t)) /\ utxo[k].known))
        BY <1>2, UndoSpendFlags
      <4> QED BY <4>2, <4>3, <4>4
    <3> HIDE DEF d
    <3>3. UndoAdd(d(k), k) \in Cell /\ Sound(UndoAdd(d(k), k))
      BY <3>1, <3>2, UndoAddFollows, UndoAddSound DEF Follows
    <3> QED BY <3>3
  <2> HIDE DEF n
  <2> QED BY <1>1, <2>1, <2>2, WriteSound DEF SoundInv
<1>6. CASE RollbackBelowRing
  <2> DEFINE n == [k \in Key |-> Missed(InvalidateUtxo(utxo[k]))]
  <2>1. Write(n)
    BY <1>6 DEF RollbackBelowRing
  <2>2. ASSUME NEW k \in Key PROVE n[k] \in Cell /\ Sound(n[k])
    <3> DEFINE i == InvalidateUtxo(utxo[k])
    <3>1. i \in Cell /\ Sound(i)
      BY <1>2, InvalidateFollows DEF Follows
    <3> HIDE DEF i
    <3>2. Missed(i) \in Cell /\ Sound(Missed(i))
      BY <3>1, MissedFollows DEF Follows
    <3> QED BY <3>2 DEF i
  <2> HIDE DEF n
  <2> QED BY <1>1, <2>1, <2>2, WriteSound DEF SoundInv
<1>7. CASE MempoolList
  <2> DEFINE n == [k \in Key |-> RollbackPending(utxo[k], k)]
  <2>1. Write(n)
    BY <1>7 DEF MempoolList
  <2>2. ASSUME NEW k \in Key PROVE n[k] \in Cell /\ Sound(n[k])
    BY <1>2, RollbackPendingFollows, RollbackPendingSound DEF Follows
  <2> HIDE DEF n
  <2> QED BY <1>1, <2>1, <2>2, WriteSound DEF SoundInv
<1>8. ASSUME NEW t \in Tx, MempoolFetch(t) PROVE SoundInv'
  <2> DEFINE n == [k \in Key |-> ApplyPending(utxo[k], k, t)]
  <2>1. Write(n)
    BY <1>8 DEF MempoolFetch
  <2>2. ASSUME NEW k \in Key PROVE n[k] \in Cell /\ Sound(n[k])
    BY <1>2, ApplyPendingFollows, ApplyPendingSound DEF Follows
  <2> HIDE DEF n
  <2> QED BY <1>1, <2>1, <2>2, WriteSound DEF SoundInv
<1>9. CASE FinishSync \/ MempoolAbort
  BY <1>9 DEF FinishSync, MempoolAbort, coinVars, SoundInv
<1> QED BY <1>4, <1>5, <1>6, <1>7, <1>8, <1>9 DEF TailerNext

LEMMA WalletSound ==
  ASSUME BalanceInv, SoundInv, WalletNext
  PROVE  SoundInv'
<1>1. \A k \in Key : utxo[k] \in Cell /\ Sound(utxo[k]) /\ (~Known(k) => utxo[k] = NoCell)
  BY DEF BalanceInv, CoinInv, CoinTypeOK, SoundInv, Absent
<1>2. ASSUME NEW w, NEW A, NEW n, Attach(w, A, n), sends' = sends,
             \A k \in Key : ~Known(k) => n[k] \in Cell /\ Sound(n[k])
      PROVE SoundInv'
  <2> SUFFICES ASSUME NEW k \in Key PROVE Sound(utxo'[k])
    BY <1>2 DEF SoundInv
  <2>1. (utxo'[k] = Settle(n[k]) /\ ~Known(k)) \/ utxo'[k] = utxo[k]
    BY <1>2 DEF Attach, Known
  <2> QED BY <1>1, <1>2, <2>1, SettleSound
<1>3. ASSUME NEW w, NEW A, Detach(w, A), sends' = {} PROVE SoundInv'
  BY <1>1, <1>3, NoCellSound DEF Detach, SoundInv
<1>4. ASSUME NEW w, NEW A, Rescan(w, A) PROVE SoundInv'
  <2> SUFFICES ASSUME NEW k \in Key PROVE Sound(utxo'[k])
    BY <1>4 DEF SoundInv, Rescan
  <2> DEFINE r == RescanUtxo(utxo[k], Unspent(k, durable))
  <2>1. Unspent(k, durable) \in BOOLEAN
    BY DEF Unspent, CreatedBy
  <2>2. r \in Cell /\ Sound(r)
    BY <1>1, <2>1, RescanFollows DEF Follows
  <2>3. utxo'[k] = Settle(r) \/ utxo'[k] = utxo[k]
    BY <1>4 DEF Rescan
  <2> HIDE DEF r
  <2> QED BY <1>1, <2>2, <2>3, SettleSound
<1>5. ASSUME NEW w \in Wallet, NEW a \in Addr, WatchAdd(w, a) PROVE SoundInv'
  <2>1. PICK order : Attach(w, {a}, [k \in Key |-> ReplayMempool(utxo[k], k, order)])
    BY <1>5 DEF WatchAdd
  <2> DEFINE n == [k \in Key |-> ReplayMempool(utxo[k], k, order)]
  <2>2. \A k \in Key : ~Known(k) => n[k] \in Cell /\ Sound(n[k])
    BY <1>1, ReplayFlags, ReplaySound
  <2> HIDE DEF n
  <2>3. Attach(w, {a}, n) /\ sends' = sends
    BY <1>5, <2>1 DEF n, WatchAdd
  <2> QED BY <1>2, <2>2, <2>3
<1>6. ASSUME NEW w \in Wallet, OpenWallet(w) PROVE SoundInv'
  BY <1>1, <1>2, <1>6 DEF OpenWallet
<1>7. ASSUME NEW w \in Wallet, NEW a \in Addr, NewAddress(w, a) PROVE SoundInv'
  BY <1>1, <1>2, <1>7 DEF NewAddress, Derive
<1>8. ASSUME NEW w \in Wallet, CloseWallet(w) PROVE SoundInv'
  BY <1>3, <1>8 DEF CloseWallet, SoundInv
<1>9. ASSUME NEW w \in Wallet, NEW a \in Addr, WatchRemove(w, a) PROVE SoundInv'
  BY <1>3, <1>9 DEF WatchRemove, SoundInv
<1> QED BY <1>4, <1>5, <1>6, <1>7, <1>8, <1>9 DEF WalletNext

LEMMA SoundInvariant == ASSUME Steady, "send" \notin Env PROVE Spec => []SoundInv
<1>1. Init => SoundInv
  BY NoCellSound DEF Init, SoundInv
<1>2. ASSUME BalanceInv, ChainInv, FitInv, SoundInv, [Next]_vars PROVE SoundInv'
  <2>1. CASE NodeNext
    BY <1>2, <2>1 DEF NodeNext, NodeAccept, NodeEvict, NodeMine, NodeReorg, coinVars, SoundInv
  <2>2. CASE SendNext
    BY <1>2, <2>2 DEF SendNext, SendBuild, SoundInv
  <2>3. CASE Crash
    BY <2>3, NoCellSound DEF Crash, SoundInv
  <2>4. CASE UNCHANGED vars
    BY <1>2, <2>4 DEF vars, coinVars, SoundInv
  <2> QED BY <1>2, <2>1, <2>2, <2>3, <2>4, TailerSound, WalletSound DEF Next
<1> QED BY <1>1, <1>2, BalanceInvariant, ChainInvariant, FitInvariant, PTL DEF Spec

(* The cached totals say what their field comments in Address say: a coin  *)
(* is counted in confirmed_sat, or in pending_out_sat, exactly when its    *)
(* flags put it there, however applies, rollbacks, mempool diffs, rescans, *)
(* wallets and restarts were interleaved.                                  *)
THEOREM TotalsCorrect ==
  ASSUME Steady, "send" \notin Env
  PROVE  Spec => []TotalsExact
<1>1. SoundInv => TotalsExact
  BY DEF SoundInv, Sound, TotalsExact, Bit
<1> QED BY <1>1, SoundInvariant, PTL

(* The same of pending_in_sat. *)
THEOREM PendingInCorrect ==
  ASSUME Steady, "send" \notin Env
  PROVE  Spec => []PendingInExact
<1>1. SoundInv => PendingInExact
  BY DEF SoundInv, Sound, PendingInExact, Bit
<1> QED BY <1>1, SoundInvariant, PTL

-----------------------------------------------------------------------------
(* The coins.                                                              *)

LEMMA BookedKey == ASSUME NEW k \in Booked PROVE k \in Key /\ k \notin Opaque /\ Owner[k] \in Addr
BY OwnerAssumption DEF Booked

(* A handler that writes cells that match the chain it leaves, or raises   *)
(* the flag.                                                               *)
LEMMA WriteMatch ==
  ASSUME BalanceInv, MatchInv, NEW n, Write(n), durable' = tip',
         \A k \in Booked :
           /\ n[k] \in Cell
           /\ Live(n[k]) => ~SpentBy(k, tip)'
           /\ /\ ~desync[Owner[k]] /\ ~n[k].missed
              /\ CreatedBy(k, fork)' /\ ~SpentBy(k, tip)'
              /\ Known(k)
              => Live(n[k])
  PROVE  MatchInv'
<1>1. \A a \in Addr : ~Registered(a)' => desync'[a]
  BY DEF Write, MatchInv, Registered
<1>2. ASSUME NEW k \in Booked PROVE Matches(k)'
  <2>1. k \in Key /\ Owner[k] \in Addr
    BY BookedKey
  <2>2. utxo'[k] = IF Known(k) THEN Settle(n[k]) ELSE utxo[k]
    BY <2>1 DEF Write
  <2>3. ~Known(k) => ~Live(utxo[k])
    BY <2>1 DEF BalanceInv, CoinInv, Absent, NoCell, Live
  <2>4. Live(Settle(n[k])) = Live(n[k])
    BY SettleFlags DEF Live
  <2>5. Known(k)' = Known(k)
    BY DEF Write, Known, Registered
  <2>6. Known(k) /\ ~desync'[Owner[k]] => ~desync[Owner[k]] /\ ~n[k].missed
    BY <2>1 DEF Write, Known
  <2> QED BY <2>2, <2>3, <2>4, <2>5, <2>6 DEF Matches
<1> QED BY <1>1, <1>2 DEF MatchInv

LEMMA ApplyMatch ==
  ASSUME BatchTarget = 1, BalanceInv, ChainInv, FitInv, MatchInv, ApplyBlock
  PROVE  MatchInv'
<1> DEFINE B == {t \in Tx : nodeAt[t] = tip + 1}
           e(k) == ApplyEvents(utxo[k], k, B)
           n == [k \in Key |-> IF LeavesRing(k) THEN GcUtxo(e(k)) ELSE e(k)]
<1>0. fork = tip
  BY DEF ApplyBlock
<1>1. Write(n)
  BY DEF ApplyBlock
<1>2. TypeOK /\ AppliedInv /\ FlagsInv
  BY DEF BalanceInv, ChainInv, FitInv
<1>3. durable' = tip'
  <2>1. durable = tip /\ tip \in Nat
    BY <1>2 DEF MatchInv, TypeOK
  <2> QED BY <2>1 DEF ApplyBlock
<1>4. ASSUME NEW k \in Booked
      PROVE /\ n[k] \in Cell
            /\ Live(n[k]) => ~SpentBy(k, tip)'
            /\ /\ ~desync[Owner[k]] /\ ~n[k].missed
               /\ CreatedBy(k, fork)' /\ ~SpentBy(k, tip)'
               /\ Known(k)
               => Live(n[k])
  <2> DEFINE u == utxo[k]
             c == \E t \in Tx : nodeAt[t] = tip + 1 /\ k \in Outs[t]
             s == \E t \in Tx : nodeAt[t] = tip + 1 /\ k \in Ins[t]
  <2>1. /\ u \in Cell
        /\ u.known \in BOOLEAN /\ u.confirmed \in BOOLEAN /\ u.spent \in BOOLEAN
        /\ u.confirmed => u.known
        /\ u.spent => u.confirmed
        /\ u.spent => Spent(k, tip)
        /\ u.confirmed => CreatedBy(k, tip)
    BY <1>2, BookedKey, CoinFlags
  <2>2. /\ CreatedBy(k, tip)' = (CreatedBy(k, tip) \/ c)
        /\ CreatedBy(k, fork)' = CreatedBy(k, tip)'
        /\ SpentBy(k, tip)' = (SpentBy(k, tip) \/ s)
        /\ Spent(k, tip) = SpentBy(k, tip)
    <3> s \in BOOLEAN /\ c \in BOOLEAN
      OBVIOUS
    <3> QED BY <1>2, BookedKey, ApplyCreated
  <2>3. c = (\E t \in B : k \in Outs[t]) /\ s = (\E t \in B : k \in Spends(t))
    BY BookedKey DEF Spends
  <2>4. ASSUME c, SpentBy(k, tip) PROVE FALSE
    <3>1. PICK p \in Tx : nodeAt[p] = tip + 1 /\ k \in Outs[p]
      BY <2>4
    <3>2. PICK t \in Tx : at[t] \in 1..tip /\ k \in Ins[t]
      BY <2>4 DEF SpentBy
    <3>3. at[p] > 0 /\ at[p] <= at[t]
      BY <1>2, <3>1, <3>2, CreatorFirst DEF TypeOK
    <3>4. tip \in Nat /\ at[p] \in Nat /\ at[t] \in Nat
      BY <1>2 DEF TypeOK
    <3>5. at[p] \in 1..tip
      BY <3>2, <3>3, <3>4
    <3>6. at[p] = tip + 1
      BY <1>0, <1>2, <3>1, <3>5 DEF AppliedInv
    <3> QED BY <3>4, <3>5, <3>6
  <2>5. SpentBy(k, tip) => ~Live(u)
    BY DEF MatchInv, Matches
  <2>6. ~desync[Owner[k]] /\ CreatedBy(k, tip) /\ ~SpentBy(k, tip) /\ Known(k) => Live(u)
    BY <1>0 DEF MatchInv, Matches
  <2> HIDE DEF c, s, u
  <2>7. /\ e(k) \in Cell
        /\ e(k).known = (u.known \/ c)
        /\ e(k).confirmed = (u.confirmed \/ c)
        /\ e(k).spent = (u.spent \/ (s /\ (u.known \/ c)))
    <3> HIDE DEF B
    <3>1. u.confirmed => u.known
      BY <2>1
    <3> QED BY <2>1, <2>3, <3>1, ApplyFlags DEF u
  <2> HIDE DEF e
  <2>8. /\ Live(e(k)) => ~SpentBy(k, tip)'
        /\ /\ ~desync[Owner[k]] /\ CreatedBy(k, fork)' /\ ~SpentBy(k, tip)' /\ Known(k)
           => Live(e(k))
    BY <2>1, <2>2, <2>4, <2>5, <2>6, <2>7 DEF Live
  <2>9. /\ GcUtxo(e(k)) \in Cell
        /\ Live(GcUtxo(e(k))) = Live(e(k))
    BY <2>7, GcFlags DEF Live, Cell
  <2>10. n[k] = e(k) \/ n[k] = GcUtxo(e(k))
    BY BookedKey
  <2> QED BY <2>7, <2>8, <2>9, <2>10
<1> HIDE DEF n
<1> QED BY <1>1, <1>3, <1>4, WriteMatch

LEMMA RollbackMatch ==
  ASSUME BalanceInv, ChainInv, FitInv, MatchInv, RollbackTip
  PROVE  MatchInv'
<1> DEFINE d(k) == UndoSpend(utxo[k], k)
           n == [k \in Key |-> UndoAdd(d(k), k)]
<1>1. Write(n) /\ durable' = tip' /\ fork < tip
  BY DEF RollbackTip
<1>2. TypeOK /\ AppliedInv /\ FlagsInv /\ tip \in Nat /\ fork \in Nat
  BY DEF BalanceInv, ChainInv, FitInv, TypeOK
<1>3. ASSUME NEW k \in Booked
      PROVE /\ n[k] \in Cell
            /\ Live(n[k]) => ~SpentBy(k, tip)'
            /\ /\ ~desync[Owner[k]] /\ ~n[k].missed
               /\ CreatedBy(k, fork)' /\ ~SpentBy(k, tip)'
               /\ Known(k)
               => Live(n[k])
  <2> DEFINE u == utxo[k]
             c == \E t \in TipTxs : k \in Outs[t]
             s == \E t \in TipTxs : k \in Spends(t)
  <2>1. /\ u \in Cell
        /\ u.known \in BOOLEAN /\ u.confirmed \in BOOLEAN /\ u.spent \in BOOLEAN
        /\ u.confirmed => u.known
        /\ u.spent => u.confirmed
        /\ u.known /\ ~u.confirmed => ~CreatedBy(k, fork)
        /\ u.spent => Spent(k, tip)
    BY <1>2, BookedKey, CoinFlags
  <2>2. /\ CreatedBy(k, fork)' = CreatedBy(k, fork)
        /\ SpentBy(k, tip) => SpentBy(k, tip)' \/ s
        /\ SpentBy(k, tip)' => SpentBy(k, tip)
        /\ c => ~CreatedBy(k, fork)
    <3>1. (\E t \in TipTxs : k \in Ins[t]) => s
      BY BookedKey DEF Spends
    <3> QED BY <1>2, <3>1, UndoCreated
  <2>3. c /\ u.spent => s
    BY <1>1, <1>2, <2>1, TipSpends
  <2>4. /\ d(k) \in Cell
        /\ d(k).known = u.known
        /\ d(k).confirmed = u.confirmed
        /\ d(k).spent = (u.spent /\ ~(s /\ u.known))
        /\ d(k).missed = (u.missed \/ (s /\ ~u.known))
    BY <2>1, UndoSpendFlags
  <2>5. /\ SpentBy(k, tip) => ~Live(u)
        /\ ~desync[Owner[k]] /\ CreatedBy(k, fork) /\ ~SpentBy(k, tip) /\ Known(k) => Live(u)
    BY DEF MatchInv, Matches
  <2>6. u.confirmed => CreatedBy(k, tip)
    BY <1>2, BookedKey, CoinFlags
  <2> HIDE DEF d, u
  <2>7. d(k).confirmed => d(k).known
    BY <2>1, <2>4
  <2>8. c => ~d(k).spent
    BY <2>1, <2>3, <2>4
  <2>9. /\ n[k] \in Cell
        /\ ~c => n[k] = d(k)
        /\ c => ~n[k].confirmed
        /\ n[k].missed = d(k).missed
    BY <2>4, <2>7, <2>8, BookedKey, UndoAddFlags
  <2>10. SpentBy(k, tip)' => ~s
    <3> SUFFICES ASSUME NEW t \in TipTxs, k \in Ins[t], SpentBy(k, tip)' PROVE FALSE
      BY DEF Spends, s
    <3>1. PICK q \in Tx : at'[q] \in 1..tip' /\ k \in Ins[q]
      BY DEF SpentBy
    <3>2. at[q] > 0 /\ q \notin TipTxs
      BY <1>2, <3>1 DEF RollbackTip, TypeOK
    <3>3. t \in Tx /\ at[t] > 0
      BY <1>1, <1>2 DEF TipTxs
    <3>4. q = t
      BY <1>2, <3>1, <3>2, <3>3 DEF AppliedInv, Ordered
    <3> QED BY <3>2, <3>4
  <2> HIDE DEF c, s, n
  <2>11. Live(n[k]) => ~SpentBy(k, tip)'
    BY <2>1, <2>2, <2>4, <2>5, <2>9, <2>10 DEF Live
  <2>12. ASSUME ~desync[Owner[k]], ~n[k].missed, CreatedBy(k, fork)', ~SpentBy(k, tip)', Known(k)
         PROVE  Live(n[k])
    <3>1. ~c /\ n[k] = d(k) /\ CreatedBy(k, fork)
      BY <2>2, <2>9, <2>12
    <3>2. CASE ~SpentBy(k, tip)
      <4>1. Live(u)
        BY <2>5, <2>12, <3>1, <3>2
      <4> QED BY <2>1, <2>4, <3>1, <4>1 DEF Live
    <3>3. CASE SpentBy(k, tip)
      <4>1. s
        BY <2>2, <2>12, <3>3
      <4>2. u.known /\ u.confirmed
        BY <2>1, <2>4, <2>12, <3>1, <4>1
      <4> QED BY <2>1, <2>4, <3>1, <4>1, <4>2 DEF Live
    <3> QED BY <3>2, <3>3
  <2> QED BY <2>9, <2>11, <2>12
<1> HIDE DEF n
<1> QED BY <1>1, <1>3, WriteMatch

LEMMA BelowMatch ==
  ASSUME BalanceInv, FitInv, MatchInv, RollbackBelowRing
  PROVE  MatchInv'
<1> DEFINE n == [k \in Key |-> Missed(InvalidateUtxo(utxo[k]))]
<1>1. Write(n) /\ durable' = tip'
  BY DEF RollbackBelowRing
<1>2. ASSUME NEW k \in Booked
      PROVE n[k] \in Cell /\ ~Live(n[k]) /\ n[k].missed
  <2>1. utxo[k] \in Cell /\ (utxo[k].confirmed => utxo[k].known) /\ (utxo[k].spent => utxo[k].confirmed)
    BY BookedKey, CoinFlags DEF FitInv
  <2>2. n[k] = Missed(InvalidateUtxo(utxo[k]))
    BY BookedKey
  <2> QED BY <2>1, <2>2, InvalidateFlags DEF Live
<1> HIDE DEF n
<1> QED BY <1>1, <1>2, WriteMatch

(* A handler that leaves the chains alone, and the liveness of every coin. *)
LEMMA SameLiveMatch ==
  ASSUME BalanceInv, MatchInv, NEW n, Write(n), UNCHANGED <<at, tip, fork, durable>>,
         \A k \in Booked : n[k] \in Cell /\ Live(n[k]) = Live(utxo[k])
  PROVE  MatchInv'
<1>1. durable' = tip'
  BY DEF MatchInv
<1>2. ASSUME NEW k \in Booked
      PROVE CreatedBy(k, fork)' = CreatedBy(k, fork) /\ SpentBy(k, tip)' = SpentBy(k, tip)
  BY DEF CreatedBy, SpentBy
<1>3. \A k \in Booked :
           /\ n[k] \in Cell
           /\ Live(n[k]) => ~SpentBy(k, tip)'
           /\ /\ ~desync[Owner[k]] /\ ~n[k].missed
              /\ CreatedBy(k, fork)' /\ ~SpentBy(k, tip)'
              /\ Known(k)
              => Live(n[k])
  BY <1>2 DEF MatchInv, Matches
<1> QED BY <1>1, <1>3, WriteMatch

LEMMA ListMatch ==
  ASSUME BalanceInv, FitInv, MatchInv, MempoolList
  PROVE  MatchInv'
<1> DEFINE n == [k \in Key |-> RollbackPending(utxo[k], k)]
<1>1. Write(n) /\ UNCHANGED <<at, tip, fork, durable>>
  BY DEF MempoolList, chainVars
<1>2. ASSUME NEW k \in Booked PROVE n[k] \in Cell /\ Live(n[k]) = Live(utxo[k])
  <2>1. utxo[k] \in Cell /\ (utxo[k].confirmed => utxo[k].known) /\ (utxo[k].spent => utxo[k].confirmed)
    BY BookedKey, CoinFlags DEF FitInv
  <2>2. n[k] = RollbackPending(utxo[k], k)
    BY BookedKey
  <2> QED BY <2>1, <2>2, RollbackPendingFlags DEF Live
<1> HIDE DEF n
<1> QED BY <1>1, <1>2, SameLiveMatch

LEMMA FetchMatch ==
  ASSUME BalanceInv, FitInv, MatchInv, NEW t \in Tx, MempoolFetch(t)
  PROVE  MatchInv'
<1> DEFINE n == [k \in Key |-> ApplyPending(utxo[k], k, t)]
<1>1. Write(n) /\ UNCHANGED <<at, tip, fork, durable>>
  BY DEF MempoolFetch, chainVars
<1>2. ASSUME NEW k \in Booked PROVE n[k] \in Cell /\ Live(n[k]) = Live(utxo[k])
  <2>1. utxo[k] \in Cell
    BY BookedKey, CoinFlags DEF FitInv
  <2>2. n[k] = ApplyPending(utxo[k], k, t)
    BY BookedKey
  <2> QED BY <2>1, <2>2, ApplyPendingFlags DEF Live
<1> HIDE DEF n
<1> QED BY <1>1, <1>2, SameLiveMatch

LEMMA AnswerMatch ==
  ASSUME BalanceInv, FitInv, MatchInv, NEW s \in sends, SendAnswer(s)
  PROVE  MatchInv'
<1> DEFINE n == [k \in Key |-> IF k \in Ins[s.tx] /\ s.wallet \in watchers[Owner[k]]
                               THEN MarkSent(utxo[k], s.tx) ELSE utxo[k]]
<1>1. Write(n) /\ UNCHANGED <<at, tip, fork, durable>> /\ s.tx \in Tx
  BY DEF SendAnswer, chainVars, BalanceInv, TypeOK, Send
<1>2. ASSUME NEW k \in Booked PROVE n[k] \in Cell /\ Live(n[k]) = Live(utxo[k])
  <2>1. utxo[k] \in Cell
    BY BookedKey, CoinFlags DEF FitInv
  <2>2. n[k] = utxo[k] \/ n[k] = MarkSent(utxo[k], s.tx)
    BY BookedKey
  <2> HIDE DEF n
  <2> QED BY <1>1, <2>1, <2>2, MarkSentFlags DEF Live
<1> HIDE DEF n
<1> QED BY <1>1, <1>2, SameLiveMatch

(* Addresses come with no live coin; the flag of a booked one stays up.    *)
LEMMA AttachMatch ==
  ASSUME BalanceInv, MatchInv, NEW w \in Wallet, NEW A, NEW n, Attach(w, A, n),
         \A k \in Key : ~Known(k) => n[k] \in Cell /\ ~Live(n[k]),
         \A a \in Addr : desync'[a] # desync[a] => a \in A /\ \E v \in Wallet : a \in Later[v]
  PROVE  MatchInv'
<1>1. /\ UNCHANGED <<at, tip, fork, durable>>
      /\ watchers' = [a \in Addr |-> IF a \in A THEN watchers[a] \union {w} ELSE watchers[a]]
      /\ utxo' = [k \in Key |-> IF Owner[k] \in {a \in A : ~Registered(a)}
                                THEN Settle(n[k]) ELSE utxo[k]]
  BY DEF Attach, chainVars
<1>2. durable' = tip'
  BY <1>1 DEF MatchInv
<1>3. ASSUME NEW a \in Addr, ~Registered(a)' PROVE desync'[a]
  <2>1. a \notin A /\ ~Registered(a)
    BY <1>1, <1>3 DEF Registered
  <2> QED BY <2>1 DEF MatchInv
<1>4. ASSUME NEW k \in Booked PROVE Matches(k)'
  <2>1. k \in Key /\ Owner[k] \in Addr
    BY BookedKey
  <2>2. desync'[Owner[k]] = desync[Owner[k]]
    BY <2>1 DEF Booked
  <2>3. CreatedBy(k, fork)' = CreatedBy(k, fork) /\ SpentBy(k, tip)' = SpentBy(k, tip)
    BY <1>1 DEF CreatedBy, SpentBy
  <2>4. ~desync[Owner[k]] => Known(k)
    BY <2>1 DEF MatchInv, Known
  <2>5. CASE utxo'[k] = utxo[k]
    BY <2>2, <2>3, <2>4, <2>5 DEF MatchInv, Matches
  <2>6. CASE utxo'[k] # utxo[k]
    <3>1. utxo'[k] = Settle(n[k]) /\ ~Known(k)
      BY <1>1, <2>1, <2>6 DEF Known
    <3>2. ~Live(utxo'[k])
      BY <2>1, <3>1, SettleFlags DEF Live
    <3> QED BY <2>2, <2>4, <3>1, <3>2 DEF Matches
  <2> QED BY <2>5, <2>6
<1> QED BY <1>2, <1>3, <1>4 DEF MatchInv

LEMMA AttachEmptyMatch ==
  ASSUME BalanceInv, MatchInv, NEW w \in Wallet, NEW A, Attach(w, A, utxo),
         \A a \in Addr : desync'[a] # desync[a] => a \in A /\ \E v \in Wallet : a \in Later[v]
  PROVE  MatchInv'
<1>1. \A k \in Key : ~Known(k) => utxo[k] = NoCell
  BY DEF BalanceInv, CoinInv, Absent
<1>2. \A k \in Key : ~Known(k) => utxo[k] \in Cell /\ ~Live(utxo[k])
  BY <1>1, NoCellSound DEF NoCell, Live
<1> QED BY <1>2, AttachMatch

LEMMA DeriveMatch ==
  ASSUME BalanceInv, MatchInv, NEW w \in Wallet, NEW A \in SUBSET Later[w], Derive(w, A)
  PROVE  MatchInv'
<1>1. Attach(w, A, utxo)
  BY DEF Derive
<1>2. \A a \in Addr : desync'[a] # desync[a] => a \in A
  BY DEF Derive, BalanceInv, TypeOK
<1> QED BY <1>1, <1>2, AttachEmptyMatch

LEMMA WatchMatch ==
  ASSUME BalanceInv, MatchInv, NEW w \in Wallet, NEW a \in Addr, WatchAdd(w, a)
  PROVE  MatchInv'
<1>1. PICK order : Attach(w, {a}, [k \in Key |-> ReplayMempool(utxo[k], k, order)])
  BY DEF WatchAdd
<1> DEFINE n == [k \in Key |-> ReplayMempool(utxo[k], k, order)]
<1>2. ASSUME NEW k \in Key, ~Known(k) PROVE n[k] \in Cell /\ ~Live(n[k])
  <2>1. n[k] = ReplayMempool(NoCell, k, order)
    BY <1>2 DEF BalanceInv, CoinInv, Absent
  <2> QED BY <2>1, ReplayFlags DEF Live
<1> HIDE DEF n
<1>3. Attach(w, {a}, n) /\ desync' = desync
  BY <1>1 DEF n, WatchAdd
<1> QED BY <1>2, <1>3, AttachMatch

LEMMA DetachMatch ==
  ASSUME MatchInv, NEW w, NEW A, Detach(w, A)
  PROVE  MatchInv'
<1>1. /\ UNCHANGED <<at, tip, fork, durable>>
      /\ watchers' = [a \in Addr |-> IF a \in A THEN watchers[a] \ {w} ELSE watchers[a]]
      /\ utxo' = [k \in Key |-> IF Owner[k] \in {a \in A : watchers[a] = {w}} THEN NoCell ELSE utxo[k]]
      /\ desync' = [a \in Addr |-> desync[a] \/ a \in {b \in A : watchers[b] = {w}}]
  BY DEF Detach, chainVars
<1>2. durable' = tip'
  BY <1>1 DEF MatchInv
<1>3. ASSUME NEW a \in Addr, ~Registered(a)' PROVE desync'[a]
  <2>1. ~Registered(a) \/ (a \in A /\ watchers[a] = {w})
    <3>1. watchers'[a] = IF a \in A THEN watchers[a] \ {w} ELSE watchers[a]
      BY <1>1
    <3>2. watchers'[a] = {}
      BY <1>3 DEF Registered
    <3>3. CASE a \notin A
      BY <3>1, <3>2, <3>3 DEF Registered
    <3>4. CASE a \in A /\ watchers[a] # {}
      <4>1. \A v \in watchers[a] : v = w
        BY <3>1, <3>2, <3>4
      <4> QED BY <3>4, <4>1
    <3> QED BY <3>3, <3>4 DEF Registered
  <2> QED BY <1>1, <2>1 DEF MatchInv
<1>4. ASSUME NEW k \in Booked PROVE Matches(k)'
  <2>1. k \in Key /\ Owner[k] \in Addr
    BY BookedKey
  <2>2. CreatedBy(k, fork)' = CreatedBy(k, fork) /\ SpentBy(k, tip)' = SpentBy(k, tip)
    BY <1>1 DEF CreatedBy, SpentBy
  <2>3. CASE Owner[k] \in {a \in A : watchers[a] = {w}}
    <3>1. utxo'[k] = NoCell /\ desync'[Owner[k]]
      BY <1>1, <2>1, <2>3
    <3> QED BY <3>1 DEF Matches, NoCell, Live
  <2>4. CASE Owner[k] \notin {a \in A : watchers[a] = {w}}
    <3>1. utxo'[k] = utxo[k] /\ (~desync'[Owner[k]] => ~desync[Owner[k]])
      BY <1>1, <2>1, <2>4
    <3>2. ~desync[Owner[k]] => Known(k)
      BY <2>1 DEF MatchInv, Known
    <3> QED BY <2>2, <3>1, <3>2 DEF MatchInv, Matches
  <2> QED BY <2>3, <2>4
<1> QED BY <1>2, <1>3, <1>4 DEF MatchInv

LEMMA RescanMatch ==
  ASSUME BalanceInv, ChainInv, FitInv, MatchInv, NEW w, NEW A, Rescan(w, A)
  PROVE  MatchInv'
<1> DEFINE r(k) == RescanUtxo(utxo[k], Unspent(k, durable))
<1>1. /\ UNCHANGED <<at, tip, fork, durable, watchers>>
      /\ \A k \in Key : utxo'[k] = IF Owner[k] \in A THEN Settle(r(k)) ELSE utxo[k]
      /\ desync' = [a \in Addr |-> desync[a] /\ a \notin A]
      /\ \A a \in A : Registered(a)
  BY DEF Rescan, chainVars, Registered
<1>2. durable' = tip' /\ \A a \in Addr : ~Registered(a)' => desync'[a]
  BY <1>1 DEF MatchInv, Registered
<1>3. ASSUME NEW k \in Booked PROVE Matches(k)'
  <2>1. k \in Key /\ Owner[k] \in Addr /\ k \notin Opaque
    BY BookedKey
  <2>2. CreatedBy(k, fork)' = CreatedBy(k, fork) /\ SpentBy(k, tip)' = SpentBy(k, tip)
    BY <1>1 DEF CreatedBy, SpentBy
  <2>3. Known(k)' = Known(k)
    BY <1>1 DEF Known, Registered
  <2>4. CASE Owner[k] \notin A
    <3>1. utxo'[k] = utxo[k] /\ desync'[Owner[k]] = desync[Owner[k]]
      BY <1>1, <2>1, <2>4 DEF BalanceInv, TypeOK
    <3> QED BY <2>2, <2>3, <3>1 DEF MatchInv, Matches
  <2>5. CASE Owner[k] \in A
    <3>1. /\ utxo[k] \in Cell
          /\ utxo[k].confirmed => utxo[k].known
          /\ utxo[k].spent => utxo[k].confirmed
          /\ utxo[k].known /\ ~utxo[k].confirmed => ~CreatedBy(k, fork)
          /\ utxo[k].spent => Spent(k, tip)
      BY <2>1, CoinFlags DEF FitInv
    <3>2. Unspent(k, durable) <=> CreatedBy(k, tip) /\ ~SpentBy(k, tip)
      BY DEF Unspent, MatchInv
    <3>3. Spent(k, tip) => SpentBy(k, tip)
      BY DEF Spent, SpentBy, Spends
    <3>4. CreatedBy(k, fork) => CreatedBy(k, tip)
      BY DEF CreatedBy, ChainInv, AppliedInv, BalanceInv, TypeOK
    <3>5. Unspent(k, durable) \in BOOLEAN
      BY DEF Unspent, CreatedBy
    <3>6. /\ r(k) \in Cell
          /\ Live(r(k)) => Unspent(k, durable) \/ Live(utxo[k])
          /\ Unspent(k, durable) /\ (utxo[k].known => Live(utxo[k])) => Live(r(k))
      BY <3>1, <3>5, RescanFlags
    <3>7. Live(utxo'[k]) = Live(r(k))
      BY <1>1, <2>1, <2>5, <3>6, SettleFlags DEF Live
    <3> HIDE DEF r
    <3>8. Live(utxo'[k]) => ~SpentBy(k, tip)
      BY <3>2, <3>6, <3>7 DEF MatchInv, Matches
    <3>9. CreatedBy(k, fork) /\ ~SpentBy(k, tip) => Live(utxo'[k])
      BY <3>1, <3>2, <3>3, <3>4, <3>6, <3>7 DEF Live, Cell
    <3> QED BY <2>2, <3>8, <3>9 DEF Matches
  <2> QED BY <2>4, <2>5
<1> QED BY <1>2, <1>3 DEF MatchInv

LEMMA NodeMatch == ASSUME BalanceInv, MatchInv, NodeNext PROVE MatchInv'
<1>1. UNCHANGED <<at, tip, durable, utxo, watchers, desync>>
  BY DEF NodeNext, NodeAccept, NodeEvict, NodeMine, NodeReorg, chainVars, coinVars
<1>2. fork' \in Nat /\ fork' <= fork /\ fork \in Nat
  <2>1. fork \in Nat
    BY DEF BalanceInv, TypeOK
  <2>2. fork' = fork \/ \E h \in 0..MaxHeight : fork' = Min2(fork, h)
    BY DEF NodeNext, NodeAccept, NodeEvict, NodeMine, NodeReorg
  <2> QED BY <2>1, <2>2, BoundAssumption DEF Min2
<1>3. \A t \in Tx : at[t] \in Nat
  BY DEF BalanceInv, TypeOK
<1>4. ASSUME NEW k \in Booked PROVE Matches(k)'
  <2>1. CreatedBy(k, fork)' => CreatedBy(k, fork)
    BY <1>1, <1>2, <1>3 DEF CreatedBy
  <2>2. SpentBy(k, tip)' = SpentBy(k, tip) /\ Known(k)' = Known(k)
    BY <1>1 DEF SpentBy, Known, Registered
  <2> QED BY <1>1, <2>1, <2>2 DEF MatchInv, Matches
<1> QED BY <1>1, <1>4 DEF MatchInv, Registered

LEMMA MatchKept ==
  ASSUME MatchInv, UNCHANGED <<at, tip, fork, durable, utxo, watchers, desync>>
  PROVE  MatchInv'
BY DEF MatchInv, Matches, CreatedBy, SpentBy, Known, Registered

LEMMA MatchStep ==
  ASSUME BatchTarget = 1, BalanceInv, ChainInv, FitInv, MatchInv, [Next]_vars
  PROVE  MatchInv'
<1>1. CASE TailerNext
  <2>1. CASE FinishSync
    BY <2>1 DEF FinishSync, MatchInv, BalanceInv, TypeOK
  <2>2. CASE MempoolAbort
    BY <2>2, MatchKept DEF MempoolAbort, chainVars, coinVars
  <2> QED BY <1>1, <2>1, <2>2, ApplyMatch, RollbackMatch, BelowMatch, ListMatch, FetchMatch DEF TailerNext
<1>2. CASE WalletNext
  <2>1. ASSUME NEW w \in Wallet, OpenWallet(w) PROVE MatchInv'
    BY <2>1, AttachEmptyMatch DEF OpenWallet
  <2>2. ASSUME NEW w \in Wallet, CloseWallet(w) PROVE MatchInv'
    BY <2>2, DetachMatch DEF CloseWallet
  <2>3. ASSUME NEW w \in Wallet, NEW A \in SUBSET Addr, Rescan(w, A) PROVE MatchInv'
    BY <2>3, RescanMatch
  <2>4. ASSUME NEW w \in Wallet, NEW a \in Addr, NewAddress(w, a) PROVE MatchInv'
    BY <2>4, DeriveMatch DEF NewAddress
  <2>5. ASSUME NEW w \in Wallet, NEW a \in Addr, WatchAdd(w, a) PROVE MatchInv'
    BY <2>5, WatchMatch
  <2>6. ASSUME NEW w \in Wallet, NEW a \in Addr, WatchRemove(w, a) PROVE MatchInv'
    BY <2>6, DetachMatch DEF WatchRemove
  <2> QED BY <1>2, <2>1, <2>2, <2>3, <2>4, <2>5, <2>6 DEF WalletNext
<1>3. CASE SendNext
  <2>1. ASSUME NEW w \in Wallet, NEW t \in Tx, SendBuild(w, t) PROVE MatchInv'
    <3>1. PICK A \in SUBSET Later[w] : Derive(w, A)
      BY <2>1 DEF SendBuild
    <3> QED BY <3>1, DeriveMatch
  <2>2. ASSUME NEW s \in sends, SendBroadcast(s) \/ SendFail(s) PROVE MatchInv'
    BY <2>2, MatchKept DEF SendBroadcast, SendFail, chainVars, coinVars
  <2>3. ASSUME NEW s \in sends, SendAnswer(s) PROVE MatchInv'
    BY <2>3, AnswerMatch
  <2> QED BY <1>3, <2>1, <2>2, <2>3 DEF SendNext
<1>4. CASE Crash
  <2>1. /\ tip' = durable /\ durable' = durable
        /\ utxo' = [k \in Key |-> NoCell] /\ desync' = [a \in Addr |-> TRUE]
    BY <1>4 DEF Crash
  <2>2. ASSUME NEW k \in Booked PROVE Matches(k)'
    <3>1. utxo'[k] = NoCell /\ desync'[Owner[k]]
      BY <2>1, BookedKey
    <3> QED BY <3>1 DEF Matches, NoCell, Live
  <2> QED BY <2>1, <2>2 DEF MatchInv
<1>5. CASE UNCHANGED vars
  BY <1>5, MatchKept DEF vars, chainVars, coinVars
<1> QED BY <1>1, <1>2, <1>3, <1>4, <1>5, NodeMatch DEF Next

LEMMA MatchInvariant == ASSUME Steady, BatchTarget = 1 PROVE Spec => []MatchInv
<1>1. Init => MatchInv
  <2> SUFFICES ASSUME Init PROVE MatchInv
    OBVIOUS
  <2>1. ASSUME NEW k \in Booked PROVE Matches(k)
    BY BookedKey DEF Init, Matches, NoCell, Live
  <2> QED BY <2>1 DEF Init, MatchInv
<1>2. BalanceInv /\ ChainInv /\ FitInv /\ MatchInv /\ [Next]_vars => MatchInv'
  BY MatchStep
<1> QED BY <1>1, <1>2, BalanceInvariant, ChainInvariant, FitInvariant, PTL DEF Spec

(* When the engine's tip is on the node's chain, an address that is not    *)
(* flagged desync has exactly the confirmed coins of that chain, whatever  *)
(* reorgs, restarts, garbage collections, mempool diffs, sends and rescans *)
(* came before: of every coin whose spending an input shows, and of every  *)
(* address that is not taken to have no history.                           *)
THEOREM BookedCoinsMatchChain ==
  ASSUME Steady, BatchTarget = 1
  PROVE  Spec => [](\A k \in Booked : CoinMatchesChain(k))
<1>1. ChainInv /\ BalanceInv /\ FitInv /\ MatchInv => \A k \in Booked : CoinMatchesChain(k)
  <2> SUFFICES ASSUME ChainInv, BalanceInv, FitInv, MatchInv, NEW k \in Booked,
                      fork = tip, Known(k), ~desync[Owner[k]]
               PROVE  utxo[k].known /\ utxo[k].confirmed /\ ~utxo[k].spent <=> Unspent(k, tip)
    BY DEF CoinMatchesChain
  <2>1. (utxo[k].confirmed => utxo[k].known) /\ (utxo[k].confirmed => CreatedBy(k, tip))
    BY BookedKey, CoinFlags DEF FitInv
  <2> QED BY <2>1 DEF MatchInv, Matches, Live, Unspent
<1> QED BY <1>1, BalanceInvariant, ChainInvariant, FitInvariant, MatchInvariant, PTL

(* So, where no address is derived on request, of all of them.             *)
THEOREM CoinsCorrect ==
  ASSUME Steady, BatchTarget = 1, \A w \in Wallet : Later[w] = {}
  PROVE  Spec => []CoinsMatchChain
<1>1. Booked = Key \ Opaque
  BY DEF Booked
<1>2. (\A k \in Booked : CoinMatchesChain(k)) => CoinsMatchChain
  BY <1>1 DEF CoinsMatchChain
<1> QED BY <1>2, BookedCoinsMatchChain, PTL

=============================================================================
