--------------------------- MODULE BlockOrderProofs ---------------------------
(***************************************************************************)
(* The safety properties of BlockOrder for every graph: what calcDeep()    *)
(* leaves in depth, and why only an unreachable block makes an ASSERT of   *)
(* mergeBranch() fail.  The invariant that carries the argument is Inv.    *)
(***************************************************************************)
EXTENDS BlockOrder, FiniteSetTheorems, WellFoundedInduction, TLAPS

Known(b) == depth[b] # NoDepth

Queued(b) == \E k \in 1 .. Len(pQueue) : pQueue[k] = b

(* Every block in the queue, and the one being expanded, has a depth.      *)
QueueKnown ==
    /\ Known(0) /\ depth[0] = 0
    /\ phase = "calc" => Known(index)
    /\ \A k \in 1 .. Len(pQueue) : Known(pQueue[k])

(* A block with a depth other than the entry has a father one step nearer. *)
HasFather ==
    \A b \in Blocks \ {0} :
        Known(b) => \E f \in Blocks : <<f, b>> \in matrix /\ Known(f) /\ depth[b] = depth[f] + 1

(* A block with a depth is queued, or calcDeep() has seen its children up  *)
(* to j (all of them, unless it is the block being expanded).              *)
ChildrenSeen ==
    \A f \in Blocks : Known(f) =>
        \/ Queued(f)
        \/ \A c \in Blocks : <<f, c>> \in matrix /\ (f = index => c < j) => Known(c)

(* No depth is skipped: some block has each of the smaller ones.           *)
NoGap ==
    \A b \in Blocks : \A k \in 0 .. depth[b] : \E c \in Blocks : depth[c] = k

CalcUntouched ==
    phase = "calc" => analysed = {} /\ deep = 0 /\ halt = "none"

(* Once calcDeep() has returned, the blocks with a depth are closed under  *)
(* the edges.                                                              *)
Closed ==
    phase # "calc" =>
        \A e \in matrix : Known(e[1]) => Known(e[2])

(* The loop has taken everything nearer than deep and nothing farther; once*)
(* deep has wrapped, only blocks without a depth are left.                 *)
TakenUpToDeep ==
    /\ \A c \in Pending : Known(c) => deep >= 0 /\ deep <= depth[c]
    /\ deep >= 0 => \A b \in analysed : depth[b] <= deep

Inv ==
    /\ TypeOK /\ blockNum <= MaxBlocks
    /\ QueueKnown /\ HasFather /\ ChildrenSeen /\ NoGap
    /\ CalcUntouched /\ Closed /\ TakenUpToDeep
    /\ OnlyUnreachedHalts /\ UnreachedNeverAnalysed

USE DEF Blocks, NoDepth, Known

----------------------------------------------------------------------------
(* A depth is smaller than the number of blocks: the blocks that have the  *)
(* depths 0 .. depth[b] are different ones.                                *)
LEMMA DepthBounded ==
    ASSUME TypeOK, NoGap, NEW b \in Blocks
    PROVE  depth[b] < blockNum
<1> DEFINE D == 0 .. depth[b]
           f == [k \in D |-> CHOOSE c \in Blocks : depth[c] = k]
<1>1. depth[b] \in Int /\ blockNum \in Nat /\ depth[b] >= -1
  BY DEF TypeOK
<1>2. \A k \in D : f[k] \in Blocks /\ depth[f[k]] = k
  BY DEF NoGap
<1>3. f \in Injection(D, Blocks)
  BY <1>2, <1>1 DEF Injection, IsInjective
<1>4. IsFiniteSet(Blocks) /\ Cardinality(Blocks) = blockNum
  BY <1>1, FS_Interval DEF TypeOK
<1>5. Cardinality(D) = depth[b] + 1
  BY <1>1, FS_Interval
<1>6. Cardinality(D) <= Cardinality(Blocks)
  BY <1>3, <1>4, FS_Injection
<1> QED
  BY <1>1, <1>4, <1>5, <1>6

LEMMA InitInv == Init => Inv
<1> SUFFICES ASSUME Init PROVE Inv
  OBVIOUS
<1> USE BoundsAssumption DEF Init
<1>1. TypeOK /\ blockNum <= MaxBlocks
  BY DEF TypeOK
<1>2. QueueKnown /\ HasFather /\ NoGap
  BY DEF QueueKnown, HasFather, NoGap
<1>3. ChildrenSeen
  BY DEF ChildrenSeen, Queued
<1>4. CalcUntouched /\ Closed /\ OnlyUnreachedHalts /\ UnreachedNeverAnalysed
  BY DEF CalcUntouched, Closed, OnlyUnreachedHalts, UnreachedNeverAnalysed
<1>5. TakenUpToDeep
  BY DEF TakenUpToDeep, Pending
<1> QED
  BY <1>1, <1>2, <1>3, <1>4, <1>5 DEF Inv

(* calcDeep(): one step of the search.                                     *)
LEMMA PopInv == ASSUME Inv, Pop PROVE Inv'
<1> USE DEF Inv, Pop
<1>1. TypeOK' /\ (blockNum <= MaxBlocks)'
  BY DEF TypeOK
<1>2. QueueKnown' /\ HasFather' /\ NoGap'
  BY DEF TypeOK, QueueKnown, HasFather, NoGap
<1>3. ChildrenSeen'
  <2> SUFFICES ASSUME NEW f \in Blocks, Known(f), ~Queued(f)',
                      NEW c \in Blocks, <<f, c>> \in matrix, f = index' => c < j'
               PROVE  Known(c)
    BY DEF ChildrenSeen
  <2>1. f # index'
    BY DEF TypeOK
  <2>2. ~Queued(f)
    <3> SUFFICES ASSUME NEW k \in 1 .. Len(pQueue), pQueue[k] = f PROVE FALSE
      BY DEF Queued
    <3>1. k # 1
      BY <2>1 DEF TypeOK
    <3>2. k - 1 \in 1 .. Len(pQueue') /\ pQueue'[k - 1] = pQueue[k]
      BY <3>1 DEF TypeOK
    <3> QED
      BY <3>2 DEF Queued
  <2>3. c < j
    BY DEF TypeOK
  <2> QED
    BY <2>2, <2>3 DEF ChildrenSeen
<1>4. CalcUntouched' /\ Closed' /\ OnlyUnreachedHalts' /\ UnreachedNeverAnalysed'
  BY DEF CalcUntouched, Closed, OnlyUnreachedHalts, UnreachedNeverAnalysed
<1>5. TakenUpToDeep'
  BY DEF TakenUpToDeep, Pending
<1> QED
  BY <1>1, <1>2, <1>3, <1>4, <1>5

LEMMA ReachInv == ASSUME Inv, Reach PROVE Inv'
<1> USE DEF Inv, Reach
<1>0. /\ j \in Blocks /\ index \in Blocks /\ j # index /\ depth[index] \in Nat
      /\ depth'[j] = depth[index] + 1 /\ depth[j] = -1
      /\ \A b \in Blocks \ {j} : depth'[b] = depth[b]
      /\ \A b \in Blocks : depth[b] \in Nat \/ depth[b] = -1
  BY DEF TypeOK, QueueKnown
<1>1. TypeOK' /\ (blockNum <= MaxBlocks)'
  BY <1>0 DEF TypeOK
<1>2. QueueKnown'
  BY <1>0 DEF TypeOK, QueueKnown
<1>3. HasFather'
  <2> SUFFICES ASSUME NEW b \in Blocks \ {0}, depth'[b] # -1
               PROVE  \E f \in Blocks : /\ <<f, b>> \in matrix /\ depth'[f] # -1
                                        /\ depth'[b] = depth'[f] + 1
    BY DEF HasFather
  <2>1. CASE b = j
    BY <1>0, <2>1
  <2>2. CASE b # j
    <3>1. PICK f \in Blocks : <<f, b>> \in matrix /\ depth[f] # -1 /\ depth[b] = depth[f] + 1
      BY <1>0, <2>2 DEF HasFather
    <3> QED
      BY <1>0, <2>2, <3>1
  <2> QED
    BY <2>1, <2>2
<1>4. NoGap'
  <2> SUFFICES ASSUME NEW b \in Blocks, NEW k \in 0 .. depth'[b]
               PROVE  \E c \in Blocks : depth'[c] = k
    BY DEF NoGap
  <2>1. CASE b # j
    <3>1. PICK c \in Blocks : depth[c] = k
      BY <1>0, <2>1 DEF NoGap
    <3> QED
      BY <1>0, <2>1, <3>1
  <2>2. CASE b = j /\ k = depth'[j]
    BY <1>0, <2>2
  <2>3. CASE b = j /\ k # depth'[j]
    <3>1. PICK c \in Blocks : depth[c] = k
      BY <1>0, <2>3 DEF NoGap
    <3> QED
      BY <1>0, <2>3, <3>1
  <2> QED
    BY <2>1, <2>2, <2>3
<1>5. ChildrenSeen'
  <2> SUFFICES ASSUME NEW f \in Blocks, depth'[f] # -1, ~Queued(f)',
                      NEW c \in Blocks, <<f, c>> \in matrix, f = index => c < j + 1
               PROVE  depth'[c] # -1
    BY DEF ChildrenSeen
  <2>1. pQueue' \in Seq(Blocks) /\ pQueue'[Len(pQueue')] = j /\ Len(pQueue') = Len(pQueue) + 1
    BY <1>0 DEF TypeOK
  <2>2. f # j
    BY <2>1 DEF Queued, TypeOK
  <2>3. ~Queued(f)
    BY <1>0, <2>1 DEF Queued, TypeOK
  <2> QED
    BY <1>0, <2>2, <2>3 DEF ChildrenSeen
<1>6. CalcUntouched' /\ Closed' /\ OnlyUnreachedHalts' /\ UnreachedNeverAnalysed'
  BY DEF CalcUntouched, Closed, OnlyUnreachedHalts, UnreachedNeverAnalysed
<1>7. TakenUpToDeep'
  BY <1>0, <1>1 DEF TakenUpToDeep, Pending, CalcUntouched, TypeOK
<1> QED
  BY <1>1, <1>2, <1>3, <1>4, <1>5, <1>6, <1>7

LEMMA SkipInv == ASSUME Inv, Skip PROVE Inv'
<1> USE DEF Inv, Skip
<1>1. TypeOK' /\ (blockNum <= MaxBlocks)'
  BY DEF TypeOK
<1>2. QueueKnown' /\ HasFather' /\ NoGap'
  BY DEF TypeOK, QueueKnown, HasFather, NoGap
<1>3. ChildrenSeen'
  <2> SUFFICES ASSUME NEW f \in Blocks, Known(f), ~Queued(f),
                      NEW c \in Blocks, <<f, c>> \in matrix, f = index => c < j + 1
               PROVE  Known(c)
    BY DEF ChildrenSeen, Queued
  <2>1. CASE f = index /\ c = j
    BY <2>1
  <2>2. CASE ~(f = index /\ c = j)
    BY <2>2 DEF ChildrenSeen, TypeOK
  <2> QED
    BY <2>1, <2>2
<1>4. CalcUntouched' /\ Closed' /\ OnlyUnreachedHalts' /\ UnreachedNeverAnalysed'
  BY DEF CalcUntouched, Closed, OnlyUnreachedHalts, UnreachedNeverAnalysed
<1>5. TakenUpToDeep'
  BY DEF TakenUpToDeep, Pending
<1> QED
  BY <1>1, <1>2, <1>3, <1>4, <1>5

LEMMA CalcDoneInv == ASSUME Inv, CalcDone PROVE Inv'
<1> USE DEF Inv, CalcDone
<1>1. TypeOK' /\ (blockNum <= MaxBlocks)'
  BY DEF TypeOK
<1>2. QueueKnown' /\ HasFather' /\ NoGap'
  BY DEF TypeOK, QueueKnown, HasFather, NoGap
<1>3. ChildrenSeen' /\ CalcUntouched'
  BY DEF ChildrenSeen, Queued, CalcUntouched
<1>4. Closed'
  <2> SUFFICES ASSUME NEW e \in matrix, Known(e[1]) PROVE Known(e[2])
    BY DEF Closed
  <2>1. e[1] \in Blocks /\ e[2] \in Blocks /\ e = <<e[1], e[2]>>
    BY DEF TypeOK
  <2>2. ~Queued(e[1])
    BY DEF Queued
  <2>3. e[2] < j
    BY <2>1 DEF TypeOK
  <2> QED
    BY <2>1, <2>2, <2>3 DEF ChildrenSeen
<1>5. OnlyUnreachedHalts' /\ UnreachedNeverAnalysed'
  BY DEF OnlyUnreachedHalts, UnreachedNeverAnalysed
<1>6. TakenUpToDeep'
  BY DEF TakenUpToDeep, Pending
<1> QED
  BY <1>1, <1>2, <1>3, <1>4, <1>5, <1>6

----------------------------------------------------------------------------
(* analyzeBinary(): a block is taken, with each outcome of mergeBranch().  *)
LEMMA AnalyseInv == ASSUME Inv, NEW b \in Blocks, Analyse(b) PROVE Inv'
<1> USE DEF Inv, Analyse
<1>0. /\ \A c \in Blocks : depth[c] \in Nat \/ depth[c] = -1
      /\ b \in Pending /\ depth[b] = deep
  BY DEF TypeOK, Found
<1>1. \A f \in Fathers(b) : f \in Blocks /\ f # b /\ <<f, b>> \in matrix
  BY DEF Fathers
<1>2. CASE depth[b] = -1
  <2>1. \A f \in Fathers(b) : depth[f] = -1
    BY <1>1, <1>2 DEF Closed
  <2>2. halt' \in {"unreached", "entry"}
    <3>1. b # 0 /\ Merged(b) = {}
      BY <1>2, <2>1 DEF QueueKnown, Merged
    <3>2. \A i \in Unusable(b) : depth[i] = -1
      BY <2>1 DEF Unusable
    <3> QED
      BY <3>1, <3>2 DEF MergeVerdict
  <2> QED
    BY <1>2, <2>2 DEF TypeOK, QueueKnown, HasFather, ChildrenSeen, Queued, NoGap,
       CalcUntouched, Closed, TakenUpToDeep, Pending, OnlyUnreachedHalts, UnreachedNeverAnalysed
<1>3. CASE depth[b] # -1
  <2>1. \A i \in Merged(b) : i \in analysed \/ depth[i] = -1
    <3> SUFFICES ASSUME NEW i \in Fathers(b), depth[b] > depth[i], i \notin analysed,
                        depth[i] # -1
                 PROVE  FALSE
      BY DEF Merged
    <3>0. i \in Blocks
      BY <1>1
    <3>1. i \in Pending /\ depth[i] \in Int /\ depth[b] \in Int
      BY <1>0, <3>0 DEF Pending
    <3> QED
      BY <1>0, <3>1 DEF TakenUpToDeep
  <2>2. \A i \in Unusable(b) : depth[i] = -1
    BY <2>1 DEF Unusable
  <2>3. halt' # "environment"
    BY <2>2 DEF MergeVerdict
  <2>4. halt' = "entry" => Unusable(b) = {} /\ Merged(b) = {} /\ b # 0
    BY <2>2 DEF MergeVerdict
  <2>5. halt' # "entry"
    <3> SUFFICES ASSUME Merged(b) = {}, b # 0 PROVE FALSE
      BY <2>4
    <3>1. PICK f \in Blocks : <<f, b>> \in matrix /\ depth[f] # -1 /\ depth[b] = depth[f] + 1
      BY <1>3 DEF HasFather
    <3>2. f \in Merged(b)
      BY <1>0, <3>1 DEF Merged, Fathers
    <3> QED
      BY <3>2
  <2>6. halt' \in {"none", "unreached"}
    BY <2>3, <2>5 DEF MergeVerdict
  <2>7. halt' # "none" => \E i \in Blocks : depth[i] = -1
    <3> SUFFICES ASSUME halt' = "unreached" PROVE \E i \in Blocks : depth[i] = -1
      BY <2>6
    <3>1. Unusable(b) # {}
      BY DEF MergeVerdict
    <3> QED
      BY <2>2, <3>1, <1>1 DEF Unusable
  <2>8. TypeOK' /\ (blockNum <= MaxBlocks)'
    BY <2>6 DEF TypeOK
  <2>9. QueueKnown' /\ HasFather' /\ ChildrenSeen' /\ NoGap' /\ CalcUntouched' /\ Closed'
    BY DEF QueueKnown, HasFather, ChildrenSeen, Queued, NoGap, CalcUntouched, Closed
  <2>10. TakenUpToDeep'
    BY <1>0, <1>3 DEF TakenUpToDeep, Pending, TypeOK
  <2>11. OnlyUnreachedHalts' /\ UnreachedNeverAnalysed'
    BY <1>3, <2>6, <2>7 DEF OnlyUnreachedHalts, UnreachedNeverAnalysed
  <2> QED
    BY <2>8, <2>9, <2>10, <2>11
<1> QED
  BY <1>2, <1>3

(* deep++: it cannot wrap while a block with a depth is waiting.           *)
LEMMA DeepenInv == ASSUME Inv, Deepen PROVE Inv'
<1> USE DEF Inv, Deepen
<1>0. IntMax \in Nat /\ blockNum \in Nat /\ blockNum <= IntMax
  BY BoundsAssumption DEF TypeOK
<1>1. TypeOK' /\ (blockNum <= MaxBlocks)'
  BY <1>0 DEF TypeOK, Increment
<1>2. QueueKnown' /\ HasFather' /\ ChildrenSeen' /\ NoGap' /\ CalcUntouched' /\ Closed'
  BY DEF QueueKnown, HasFather, ChildrenSeen, Queued, NoGap, CalcUntouched, Closed
<1>3. OnlyUnreachedHalts' /\ UnreachedNeverAnalysed'
  BY DEF OnlyUnreachedHalts, UnreachedNeverAnalysed
<1>4. TakenUpToDeep'
  <2>1. ASSUME NEW c \in Pending, Known(c) PROVE deep' >= 0 /\ deep' <= depth[c]
    <3>1. c \in Blocks /\ depth[c] \in Nat /\ depth[c] < blockNum
      BY <2>1, DepthBounded DEF Pending, TypeOK
    <3>2. deep >= 0 /\ deep <= depth[c] /\ depth[c] # deep /\ deep \in Int
      BY <2>1 DEF TakenUpToDeep, TypeOK
    <3> QED
      BY <1>0, <3>1, <3>2 DEF Increment
  <2>2. ASSUME deep' >= 0, NEW b \in analysed PROVE depth[b] <= deep'
    <3>1. CASE deep >= 0
      BY <1>0, <2>2, <3>1 DEF TakenUpToDeep, Increment, TypeOK
    <3>2. CASE deep < 0
      <4>1. deep = -1
        BY <1>0, <2>2, <3>2 DEF Increment, TypeOK
      <4>2. PICK c \in Pending : TRUE
        OBVIOUS
      <4>3. depth[c] = -1
        BY <3>2 DEF TakenUpToDeep, TypeOK
      <4> QED
        BY <4>1, <4>2, <4>3
    <3> QED
      BY <3>1, <3>2 DEF TypeOK
  <2> QED
    BY <2>1, <2>2 DEF TakenUpToDeep, Pending
<1> QED
  BY <1>1, <1>2, <1>3, <1>4

LEMMA FinishInv == ASSUME Inv, Finish PROVE Inv'
BY DEF Inv, Finish, TypeOK, QueueKnown, HasFather, ChildrenSeen, Queued, NoGap, CalcUntouched,
   Closed, TakenUpToDeep, Pending, OnlyUnreachedHalts, UnreachedNeverAnalysed

LEMMA StutterInv == ASSUME Inv, UNCHANGED vars PROVE Inv'
BY DEF Inv, vars, TypeOK, QueueKnown, HasFather, ChildrenSeen, Queued, NoGap, CalcUntouched,
   Closed, TakenUpToDeep, Pending, OnlyUnreachedHalts, UnreachedNeverAnalysed

(* Inv holds in every state of every run on every graph.                   *)
THEOREM Invariance == Spec => []Inv
<1>1. Inv /\ [Next]_vars => Inv'
  BY PopInv, ReachInv, SkipInv, CalcDoneInv, AnalyseInv, DeepenInv, FinishInv, StutterInv DEF Next
<1> QED
  BY InitInv, <1>1, PTL DEF Spec

(* Type correctness: in particular deep stays an int although it wraps,    *)
(* and calcDeep() only queues blocks.                                      *)
THEOREM TypeCorrect == Spec => []TypeOK
BY Invariance, PTL DEF Inv

(* Lines 437 and 447 of typeinfer.cpp never end the process on account of  *)
(* a reachable block; only a block without a depth stops the analysis.     *)
THEOREM OnlyUnreached == Spec => []OnlyUnreachedHalts
BY Invariance, PTL DEF Inv

(* The wrap of deep never lets an unreachable block be analysed.           *)
THEOREM NeverUnreached == Spec => []UnreachedNeverAnalysed
BY Invariance, PTL DEF Inv

(* The blocks are analysed by increasing depth.                            *)
THEOREM Ordered == Spec => []NearerFirst
<1>1. Inv => NearerFirst
  <2> SUFFICES ASSUME Inv, NEW b \in analysed, NEW c \in Pending, depth[c] # -1
               PROVE  depth[b] <= depth[c]
    BY DEF NearerFirst
  <2>1. deep >= 0 /\ deep <= depth[c] /\ depth[b] <= deep
    BY DEF Inv, TakenUpToDeep
  <2>2. depth[b] \in Int /\ depth[c] \in Int /\ deep \in Int
    BY DEF Inv, TypeOK, Pending
  <2> QED
    BY <2>1, <2>2
<1> QED
  BY <1>1, Invariance, PTL

----------------------------------------------------------------------------
(* Depths are lengths of shortest paths.                                   *)

(* calcDeep() works level by level: nothing it has marked is farther than  *)
(* one step from the block it expands, and the queue is sorted.            *)
Levels ==
    /\ phase = "calc" => \A b \in Blocks : Known(b) => depth[b] <= depth[index] + 1
    /\ \A k \in 1 .. Len(pQueue) :
        /\ phase = "calc" => depth[index] <= depth[pQueue[k]]
        /\ \A m \in 1 .. Len(pQueue) : m <= k => depth[pQueue[m]] <= depth[pQueue[k]]

(* No edge leads more than one level down.                                 *)
Tight ==
    \A f, c \in Blocks :
        <<f, c>> \in matrix /\ Known(f) /\ Known(c) => depth[c] <= depth[f] + 1

LevelInv == Levels /\ Tight

LEMMA PopLevels == ASSUME Inv, LevelInv, Pop PROVE LevelInv'
<1> USE DEF Inv, Pop
<1>1. /\ Len(pQueue) \in Nat /\ Len(pQueue) >= 1 /\ index' = pQueue[1]
      /\ Len(pQueue') = Len(pQueue) - 1
      /\ \A k \in 1 .. Len(pQueue') : pQueue'[k] = pQueue[k + 1]
  BY DEF TypeOK
<1>2. /\ \A b \in Blocks : depth[b] \in Int
      /\ \A k \in 1 .. Len(pQueue) : pQueue[k] \in Blocks
      /\ index \in Blocks
  BY DEF TypeOK
<1>3. Tight'
  BY DEF LevelInv, Tight
<1>4. Levels'
  <2>1. ASSUME NEW b \in Blocks, Known(b) PROVE depth[b] <= depth[index'] + 1
    <3>1. depth[b] <= depth[index] + 1 /\ depth[index] <= depth[pQueue[1]]
      BY <1>1, <2>1 DEF LevelInv, Levels
    <3>2. depth[b] \in Int /\ depth[index] \in Int /\ depth[pQueue[1]] \in Int
      BY <1>1, <1>2
    <3> QED
      BY <1>1, <3>1, <3>2
  <2>2. ASSUME NEW k \in 1 .. Len(pQueue')
        PROVE  /\ depth[index'] <= depth[pQueue'[k]]
               /\ \A m \in 1 .. Len(pQueue') : m <= k => depth[pQueue'[m]] <= depth[pQueue'[k]]
    <3>1. k + 1 \in 1 .. Len(pQueue) /\ 1 \in 1 .. Len(pQueue) /\ 1 <= k + 1
      BY <1>1
    <3>2. \A m \in 1 .. Len(pQueue') : m + 1 \in 1 .. Len(pQueue) /\ (m <= k => m + 1 <= k + 1)
      BY <1>1
    <3> QED
      BY <1>1, <3>1, <3>2 DEF LevelInv, Levels
  <2> QED
    BY <2>1, <2>2 DEF Levels
<1> QED
  BY <1>3, <1>4 DEF LevelInv

LEMMA ReachLevels == ASSUME Inv, LevelInv, Reach PROVE LevelInv'
<1> USE DEF Inv, Reach
<1>1. /\ j \in Blocks /\ index \in Blocks /\ j # index /\ depth[index] \in Nat
      /\ depth'[j] = depth[index] + 1 /\ depth[j] = -1
      /\ \A b \in Blocks \ {j} : depth'[b] = depth[b]
      /\ \A b \in Blocks : depth[b] \in Int
  BY DEF TypeOK, QueueKnown
<1>2. /\ Len(pQueue) \in Nat /\ Len(pQueue') = Len(pQueue) + 1 /\ pQueue'[Len(pQueue')] = j
      /\ \A k \in 1 .. Len(pQueue) : pQueue'[k] = pQueue[k] /\ pQueue[k] \in Blocks
  BY DEF TypeOK
<1>3. \A k \in 1 .. Len(pQueue) : pQueue[k] \in Blocks \ {j}
  BY <1>1, <1>2 DEF QueueKnown
<1>4. \A b \in Blocks : depth[b] # -1 => depth[b] <= depth[index] + 1
  BY DEF LevelInv, Levels
<1>5. \A b \in Blocks : depth'[b] # -1 => depth'[b] <= depth[index] + 1
  BY <1>1, <1>4
<1>6. \A f \in Blocks : Queued(f) => depth[index] <= depth[f]
  BY DEF LevelInv, Levels, Queued
<1>7. Levels'
  <2>1. \A b \in Blocks : depth'[b] # -1 => depth'[b] <= depth'[index] + 1
    BY <1>1, <1>5
  <2>2. ASSUME NEW k \in 1 .. Len(pQueue')
        PROVE  depth'[index] <= depth'[pQueue'[k]]
    <3>1. CASE k = Len(pQueue')
      BY <1>1, <1>2, <3>1
    <3>2. CASE k # Len(pQueue')
      <4>1. k \in 1 .. Len(pQueue)
        BY <1>2, <3>2
      <4>2. depth'[pQueue'[k]] = depth[pQueue[k]] /\ depth'[index] = depth[index]
        BY <1>1, <1>2, <1>3, <4>1
      <4> QED
        BY <4>1, <4>2 DEF LevelInv, Levels
    <3> QED
      BY <3>1, <3>2
  <2>3. ASSUME NEW k \in 1 .. Len(pQueue'), NEW m \in 1 .. Len(pQueue'), m <= k
        PROVE  depth'[pQueue'[m]] <= depth'[pQueue'[k]]
    <3>1. CASE k = Len(pQueue')
      <4>1. pQueue'[m] \in Blocks
        BY <1>1, <1>2
      <4>2. depth'[pQueue'[m]] # -1 => depth'[pQueue'[m]] <= depth[index] + 1
        BY <1>5, <4>1
      <4>3. depth'[pQueue'[k]] = depth[index] + 1
        BY <1>1, <1>2, <3>1
      <4> QED
        BY <1>1, <4>2, <4>3
    <3>2. CASE k # Len(pQueue')
      <4>1. k \in 1 .. Len(pQueue) /\ m \in 1 .. Len(pQueue)
        BY <1>2, <2>3, <3>2
      <4>2. depth'[pQueue'[k]] = depth[pQueue[k]] /\ depth'[pQueue'[m]] = depth[pQueue[m]]
        BY <1>1, <1>2, <1>3, <4>1
      <4> QED
        BY <2>3, <4>1, <4>2 DEF LevelInv, Levels
    <3> QED
      BY <3>1, <3>2
  <2> QED
    BY <2>1, <2>2, <2>3 DEF Levels
<1>8. Tight'
  <2> SUFFICES ASSUME NEW f \in Blocks, NEW c \in Blocks, <<f, c>> \in matrix,
                      depth'[f] # -1, depth'[c] # -1
               PROVE  depth'[c] <= depth'[f] + 1
    BY DEF Tight
  <2>1. CASE f = j
    BY <1>1, <1>5, <2>1
  <2>2. CASE f # j /\ c # j
    BY <1>1, <2>2 DEF LevelInv, Tight
  <2>3. CASE f # j /\ c = j
    <3>1. Queued(f) \/ f = index
      BY <1>1, <2>3 DEF ChildrenSeen
    <3>2. depth[index] <= depth[f]
      BY <1>1, <1>6, <3>1
    <3> QED
      BY <1>1, <2>3, <3>2
  <2> QED
    BY <2>1, <2>2, <2>3
<1> QED
  BY <1>7, <1>8 DEF LevelInv

LEMMA OtherLevels ==
    ASSUME Inv, LevelInv,
           \/ Skip \/ CalcDone \/ (\E b \in Blocks : Analyse(b)) \/ Deepen \/ Finish
           \/ UNCHANGED vars
    PROVE  LevelInv'
<1>1. UNCHANGED <<blockNum, matrix, depth, pQueue, index>> /\ (phase' = "calc" => phase = "calc")
  BY DEF Skip, CalcDone, Analyse, Deepen, Finish, vars
<1> QED
  BY <1>1 DEF LevelInv, Levels, Tight

(* Along every run of calcDeep() the search goes level by level, and no    *)
(* edge between two marked blocks leads more than one level down.          *)
THEOREM LevelInvariance == Spec => []LevelInv
<1>1. Init => LevelInv
  BY DEF Init, LevelInv, Levels, Tight
<1>2. Inv /\ LevelInv /\ [Next]_vars => LevelInv'
  BY PopLevels, ReachLevels, OtherLevels DEF Next
<1> QED
  BY <1>1, <1>2, Invariance, PTL DEF Spec

----------------------------------------------------------------------------
(* The reference definition unfolded: ReachedWithin() is a recursive       *)
(* function, which the provers know only once it is shown to exist.        *)

LessThan == {ss \in Nat \X Nat : ss[1] < ss[2]}

LEMMA LeastNumber ==
    ASSUME NEW T, T \subseteq Nat, T # {}
    PROVE  \E x \in T : \A y \in T : x <= y
<1>1. IsWellFoundedOn(LessThan, Nat)
  BY NatLessThanWellFounded DEF OpToRel, LessThan
<1>2. \E x \in T : \A y \in T : ~ (<<y, x>> \in LessThan)
  BY WFMin, <1>1
<1>3. PICK x \in T : \A y \in T : ~ (<<y, x>> \in LessThan)
  BY <1>2
<1>4. ASSUME NEW y \in T PROVE x <= y
  <2>1. x \in Nat /\ y \in Nat
    OBVIOUS
  <2>2. ~ (<<y, x>> \in LessThan)
    BY <1>3
  <2> QED
    BY <2>1, <2>2 DEF LessThan
<1> QED
  BY <1>4

Step(n, G, R) == R \cup {c \in 0 .. n - 1 : \E b \in R : <<b, c>> \in G}

(* g tabulates ReachedWithin(n, G, .) up to s.                             *)
Tabulates(g, n, G, s) ==
    g = [k \in 0 .. s |-> IF k = 0 THEN {0} ELSE Step(n, G, g[k - 1])]

LEMMA TableExists ==
    ASSUME NEW n, NEW G, NEW s \in Nat
    PROVE  \E g : Tabulates(g, n, G, s)
<1> DEFINE Bad == {t \in Nat : ~ \E g : Tabulates(g, n, G, t)}
<1> SUFFICES ASSUME Bad # {} PROVE FALSE
  OBVIOUS
<1>1. PICK t \in Bad : \A y \in Bad : t <= y
  BY LeastNumber
<1>2. CASE t = 0
  <2> DEFINE g == [k \in 0 .. 0 |-> {0}]
  <2>1. Tabulates(g, n, G, 0)
    BY DEF Tabulates
  <2> QED
    BY <1>2, <2>1
<1>3. CASE t # 0
  <2>1. t \in Nat /\ t - 1 \in Nat /\ ~ (t <= t - 1)
    BY <1>3
  <2>2. t - 1 \notin Bad
    BY <1>1, <2>1
  <2>3. PICK g : Tabulates(g, n, G, t - 1)
    BY <2>1, <2>2
  <2> DEFINE h == [k \in 0 .. t |-> IF k = t THEN Step(n, G, g[t - 1]) ELSE g[k]]
  <2>4. \A k \in 0 .. t - 1 : g[k] = IF k = 0 THEN {0} ELSE Step(n, G, g[k - 1])
    BY <2>1, <2>3 DEF Tabulates
  <2>5. ASSUME NEW k \in 0 .. t
        PROVE  h[k] = IF k = 0 THEN {0} ELSE Step(n, G, h[k - 1])
    <3>1. CASE k = t
      <4>1. h[k] = Step(n, G, g[t - 1]) /\ h[k - 1] = g[t - 1] /\ k # 0
        BY <2>1, <3>1
      <4> QED
        BY <3>1, <4>1
    <3>2. CASE k # t /\ k = 0
      BY <2>1, <2>4, <3>2
    <3>3. CASE k # t /\ k # 0
      <4>1. k \in 0 .. t - 1 /\ k - 1 \in 0 .. t /\ k - 1 # t
        BY <2>1, <3>3
      <4>2. h[k] = g[k] /\ h[k - 1] = g[k - 1]
        BY <3>3, <4>1
      <4>3. g[k] = Step(n, G, g[k - 1])
        BY <2>4, <3>3, <4>1
      <4> QED
        BY <3>3, <4>2, <4>3
    <3> QED
      BY <3>1, <3>2, <3>3
  <2> HIDE DEF Bad
  <2>6. Tabulates(h, n, G, t)
    BY <2>5 DEF Tabulates
  <2> QED
    BY <2>6 DEF Bad
<1> QED
  BY <1>2, <1>3

LEMMA TablesAgree ==
    ASSUME NEW n, NEW G, NEW s \in Nat, NEW t \in Nat, NEW g, NEW h,
           Tabulates(g, n, G, s), Tabulates(h, n, G, t),
           NEW m \in Nat, m <= s, m <= t
    PROVE  g[m] = h[m]
<1> DEFINE Bad == {k \in 0 .. m : g[k] # h[k]}
<1> SUFFICES ASSUME Bad # {} PROVE FALSE
  OBVIOUS
<1>1. PICK k \in Bad : \A y \in Bad : k <= y
  <2>1. Bad \subseteq Nat
    OBVIOUS
  <2> HIDE DEF Bad
  <2> QED
    BY <2>1, LeastNumber
<1>2. /\ g[k] = IF k = 0 THEN {0} ELSE Step(n, G, g[k - 1])
      /\ h[k] = IF k = 0 THEN {0} ELSE Step(n, G, h[k - 1])
  <2>1. k \in 0 .. s /\ k \in 0 .. t
    OBVIOUS
  <2>2. g[k] = IF k = 0 THEN {0} ELSE Step(n, G, g[k - 1])
    BY <2>1 DEF Tabulates
  <2>3. h[k] = IF k = 0 THEN {0} ELSE Step(n, G, h[k - 1])
    BY <2>1 DEF Tabulates
  <2> QED
    BY <2>2, <2>3
<1>3. k # 0
  BY <1>2
<1>4. k - 1 \in 0 .. m /\ ~ (k <= k - 1)
  BY <1>3
<1>5. g[k - 1] = h[k - 1]
  BY <1>1, <1>4
<1> QED
  BY <1>2, <1>3, <1>5

LEMMA ReachedTable ==
    ASSUME NEW n, NEW G, NEW s \in Nat
    PROVE  \E g : Tabulates(g, n, G, s) /\ ReachedWithin(n, G, s) = g[s]
<1> DEFINE w == CHOOSE g : Tabulates(g, n, G, s)
<1>1. Tabulates(w, n, G, s)
  BY TableExists
<1>2. ReachedWithin(n, G, s) = w[s]
  BY DEF ReachedWithin, Tabulates, Step
<1> QED
  BY <1>1, <1>2

LEMMA ReachedUnfolds ==
    ASSUME NEW n, NEW G
    PROVE  /\ ReachedWithin(n, G, 0) = {0}
           /\ \A s \in Nat : ReachedWithin(n, G, s + 1) = Step(n, G, ReachedWithin(n, G, s))
<1>1. ReachedWithin(n, G, 0) = {0}
  BY ReachedTable DEF Tabulates
<1>2. ASSUME NEW s \in Nat
      PROVE  ReachedWithin(n, G, s + 1) = Step(n, G, ReachedWithin(n, G, s))
  <2>1. PICK g : Tabulates(g, n, G, s + 1) /\ ReachedWithin(n, G, s + 1) = g[s + 1]
    BY ReachedTable, s + 1 \in Nat
  <2>2. PICK h : Tabulates(h, n, G, s) /\ ReachedWithin(n, G, s) = h[s]
    BY ReachedTable
  <2>3. g[s] = h[s]
    BY <2>1, <2>2, TablesAgree, s + 1 \in Nat, s <= s + 1, s <= s
  <2>4. g[s + 1] = Step(n, G, g[s])
    <3>1. s + 1 \in 0 .. s + 1 /\ s + 1 # 0 /\ (s + 1) - 1 = s
      OBVIOUS
    <3>2. g[s + 1] = Step(n, G, g[(s + 1) - 1])
      BY <2>1, <3>1 DEF Tabulates
    <3> QED
      BY <3>1, <3>2
  <2> QED
    BY <2>1, <2>2, <2>3, <2>4
<1> QED
  BY <1>1, <1>2

----------------------------------------------------------------------------
(* After calcDeep(), the blocks within s steps of the entry are those with *)
(* a depth of at most s; so depth is the distance.                         *)

NearSet(s) == {b \in Blocks : Known(b) /\ depth[b] <= s}

LEMMA NearSetUnfolds ==
    ASSUME Inv, LevelInv, phase # "calc"
    PROVE  /\ NearSet(0) = {0}
           /\ \A s \in Nat : NearSet(s + 1) = Step(blockNum, matrix, NearSet(s))
<1>1. /\ matrix \subseteq Blocks \X Blocks /\ 0 \in Blocks /\ depth[0] = 0
      /\ \A b \in Blocks : depth[b] \in Nat \/ depth[b] = -1
  BY DEF Inv, TypeOK, QueueKnown
<1>2. \A b \in Blocks \ {0} :
          Known(b) => \E f \in Blocks : <<f, b>> \in matrix /\ Known(f) /\ depth[b] = depth[f] + 1
  BY DEF Inv, HasFather
<1>3. \A f, c \in Blocks : <<f, c>> \in matrix /\ Known(f) => Known(c) /\ depth[c] <= depth[f] + 1
  <2> SUFFICES ASSUME NEW f \in Blocks, NEW c \in Blocks, <<f, c>> \in matrix, Known(f)
               PROVE  Known(c) /\ depth[c] <= depth[f] + 1
    OBVIOUS
  <2>1. Known(c)
    BY DEF Inv, Closed
  <2> QED
    BY <2>1 DEF LevelInv, Tight
<1>4. NearSet(0) = {0}
  <2>1. ASSUME NEW b \in Blocks \ {0}, Known(b) PROVE ~ (depth[b] <= 0)
    <3>1. PICK f \in Blocks : Known(f) /\ depth[b] = depth[f] + 1
      BY <1>2, <2>1
    <3>2. depth[f] \in Nat
      BY <1>1, <3>1
    <3> QED
      BY <3>1, <3>2
  <2> QED
    BY <1>1, <2>1 DEF NearSet
<1>5. ASSUME NEW s \in Nat
      PROVE  NearSet(s + 1) = Step(blockNum, matrix, NearSet(s))
  <2>1. ASSUME NEW c \in NearSet(s + 1) PROVE c \in Step(blockNum, matrix, NearSet(s))
    <3>1. c \in Blocks /\ Known(c) /\ depth[c] <= s + 1 /\ depth[c] \in Nat
      BY <1>1, <2>1 DEF NearSet
    <3>2. CASE depth[c] <= s
      BY <3>1, <3>2 DEF NearSet, Step
    <3>3. CASE ~ (depth[c] <= s)
      <4>1. c # 0 /\ depth[c] = s + 1
        BY <1>1, <3>1, <3>3
      <4>2. PICK f \in Blocks : <<f, c>> \in matrix /\ Known(f) /\ depth[c] = depth[f] + 1
        BY <1>2, <3>1, <4>1
      <4>3. f \in NearSet(s)
        BY <1>1, <4>1, <4>2 DEF NearSet
      <4> QED
        BY <3>1, <4>2, <4>3 DEF Step
    <3> QED
      BY <3>2, <3>3
  <2>2. ASSUME NEW c \in Step(blockNum, matrix, NearSet(s)) PROVE c \in NearSet(s + 1)
    <3>1. CASE c \in NearSet(s)
      BY <1>1, <3>1 DEF NearSet
    <3>2. CASE c \notin NearSet(s)
      <4>1. PICK f \in NearSet(s) : <<f, c>> \in matrix
        BY <2>2, <3>2 DEF Step
      <4>2. f \in Blocks /\ c \in Blocks /\ Known(f) /\ depth[f] <= s
        BY <1>1, <4>1 DEF NearSet
      <4>3. Known(c) /\ depth[c] <= depth[f] + 1
        BY <1>3, <4>1, <4>2
      <4> QED
        BY <1>1, <4>2, <4>3 DEF NearSet
    <3> QED
      BY <3>1, <3>2
  <2> QED
    BY <2>1, <2>2
<1> QED
  BY <1>4, <1>5

LEMMA ReachedIsNear ==
    ASSUME Inv, LevelInv, phase # "calc", NEW s \in Nat
    PROVE  ReachedWithin(blockNum, matrix, s) = NearSet(s)
<1> DEFINE Bad == {t \in Nat : ReachedWithin(blockNum, matrix, t) # NearSet(t)}
<1> SUFFICES ASSUME Bad # {} PROVE FALSE
  OBVIOUS
<1>1. PICK t \in Bad : \A y \in Bad : t <= y
  <2>1. Bad \subseteq Nat
    OBVIOUS
  <2> HIDE DEF Bad
  <2> QED
    BY <2>1, LeastNumber
<1>2. t # 0
  BY ReachedUnfolds, NearSetUnfolds
<1>3. t - 1 \in Nat /\ ~ (t <= t - 1) /\ t = (t - 1) + 1
  BY <1>2
<1>4. ReachedWithin(blockNum, matrix, t - 1) = NearSet(t - 1)
  BY <1>1, <1>3
<1>5. /\ ReachedWithin(blockNum, matrix, t)
            = Step(blockNum, matrix, ReachedWithin(blockNum, matrix, t - 1))
      /\ NearSet(t) = Step(blockNum, matrix, NearSet(t - 1))
  <2> DEFINE u == t - 1
  <2>1. u \in Nat /\ t = u + 1
    BY <1>3
  <2> HIDE DEF u
  <2>2. /\ ReachedWithin(blockNum, matrix, u + 1)
              = Step(blockNum, matrix, ReachedWithin(blockNum, matrix, u))
        /\ NearSet(u + 1) = Step(blockNum, matrix, NearSet(u))
    BY <2>1, ReachedUnfolds, NearSetUnfolds
  <2> QED
    BY <2>1, <2>2 DEF u
<1> QED
  BY <1>4, <1>5

LEMMA DepthsFromInv == ASSUME Inv, LevelInv PROVE DepthIsDistance
<1> SUFFICES ASSUME phase # "calc", NEW b \in Blocks
             PROVE  depth[b] = IF b \in Reachable(blockNum, matrix)
                               THEN Distance(blockNum, matrix, b) ELSE NoDepth
  BY DEF DepthIsDistance
<1>1. blockNum \in Nat /\ depth[b] < blockNum /\ (depth[b] \in Nat \/ depth[b] = -1)
  BY DepthBounded DEF Inv, TypeOK
<1>2. b \in Reachable(blockNum, matrix) <=> Known(b)
  BY <1>1, ReachedIsNear DEF Reachable, NearSet
<1>3. CASE ~ Known(b)
  BY <1>2, <1>3
<1>4. CASE Known(b)
  <2> DEFINE IsDistance(k) ==
                 /\ b \in ReachedWithin(blockNum, matrix, k)
                 /\ \A m \in 0 .. (k - 1) : b \notin ReachedWithin(blockNum, matrix, m)
  <2>1. \A k \in Nat : b \in ReachedWithin(blockNum, matrix, k) <=> depth[b] <= k
    BY <1>1, <1>4, ReachedIsNear DEF NearSet
  <2>2. depth[b] \in 0 .. blockNum /\ IsDistance(depth[b])
    BY <1>1, <1>4, <2>1
  <2>3. ASSUME NEW k \in 0 .. blockNum, IsDistance(k) PROVE k = depth[b]
    <3>1. depth[b] <= k /\ k \in Nat /\ depth[b] \in Nat
      BY <1>1, <1>4, <2>1, <2>3
    <3>2. ~ (depth[b] <= k - 1)
      BY <2>1, <2>3, <3>1
    <3> QED
      BY <3>1, <3>2
  <2>4. Distance(blockNum, matrix, b) = CHOOSE k \in 0 .. blockNum : IsDistance(k)
    BY DEF Distance
  <2> HIDE DEF IsDistance
  <2>5. (CHOOSE k \in 0 .. blockNum : IsDistance(k)) = depth[b]
    BY <2>2, <2>3
  <2> QED
    BY <1>2, <1>4, <2>4, <2>5
<1> QED
  BY <1>3, <1>4

(* calcDeep() gives every block its distance from the entry, and leaves -1 *)
(* in exactly the blocks no path leads to, whatever the graph.             *)
THEOREM DepthsAreDistances == Spec => []DepthIsDistance
BY DepthsFromInv, Invariance, LevelInvariance, PTL

----------------------------------------------------------------------------
(* The two loops take the steps of the abstract order.                     *)

LEMMA AbsGraph ==
    /\ Abs!Blocks = Blocks
    /\ Abs!Reachable(blockNum, matrix) = Reachable(blockNum, matrix)
    /\ \A b \in Blocks : Abs!Distance(blockNum, matrix, b) = Distance(blockNum, matrix, b)
BY DEF Abs!Blocks, Abs!Reachable, Reachable, Abs!Distance, Distance,
       Abs!ReachedWithin, ReachedWithin

LEMMA AnalyseImplements ==
    ASSUME Inv, LevelInv, Inv', NEW b \in Blocks, Analyse(b)
    PROVE  Abs!Next
<1> USE DEF Analyse
<1>1. \A c \in Blocks : depth[c] = IF c \in Reachable(blockNum, matrix)
                                  THEN Distance(blockNum, matrix, c) ELSE NoDepth
  BY DepthsFromInv DEF DepthIsDistance
<1>2. \A c \in Blocks : depth[c] \in Nat \/ depth[c] = -1
  BY DEF Inv, TypeOK
<1>3. \A c \in Blocks : c \in Reachable(blockNum, matrix) <=> Known(c)
  <2> SUFFICES ASSUME NEW c \in Blocks
               PROVE  c \in Reachable(blockNum, matrix) <=> Known(c)
    OBVIOUS
  <2>1. blockNum \in Nat /\ depth[c] < blockNum
    BY DepthBounded DEF Inv, TypeOK
  <2> QED
    BY <1>2, <2>1, ReachedIsNear DEF Reachable, NearSet
<1>4. CASE halt' = "none"
  <2>1. analysed' = analysed \cup {b} /\ b \in Pending /\ depth[b] = deep
    BY <1>4 DEF Found
  <2>2. Known(b)
    BY <2>1 DEF Inv, UnreachedNeverAnalysed
  <2>3. b \in Abs!Waiting
    BY <1>3, <2>1, <2>2, AbsGraph DEF Abs!Waiting, Pending
  <2>4. ASSUME NEW c \in Abs!Waiting
        PROVE  Abs!Distance(blockNum, matrix, b) <= Abs!Distance(blockNum, matrix, c)
    <3>1. c \in Reachable(blockNum, matrix) /\ c \notin analysed
      BY <2>4, AbsGraph DEF Abs!Waiting
    <3>2. c \in Blocks
      BY <3>1, ReachedIsNear DEF Reachable, NearSet, Inv, TypeOK
    <3>3. c \in Pending /\ Known(c)
      BY <1>3, <3>1, <3>2 DEF Pending
    <3>4. depth[b] <= depth[c]
      BY <2>1, <3>3 DEF Inv, TakenUpToDeep
    <3> QED
      BY <1>1, <1>3, <2>2, <3>2, <3>3, <3>4, AbsGraph
  <2> QED
    BY <1>4, <2>1, <2>3, <2>4, AbsGraph DEF Abs!Next, Abs!AnalyseNearest
<1>5. CASE halt' # "none"
  <2>1. PICK c \in Blocks : ~ Known(c)
    BY <1>5 DEF Inv, OnlyUnreachedHalts
  <2>2. Reachable(blockNum, matrix) # Blocks
    BY <1>3, <2>1
  <2> QED
    BY <1>5, <2>2, AbsGraph DEF Abs!Next, Abs!Stop
<1> QED
  BY <1>4, <1>5

(* The two loops of typeinfer.cpp implement the order of BlockOrderAbs on  *)
(* every graph: each reachable block at most once, nearest first, and no   *)
(* early end unless a block is unreachable.                                *)
THEOREM Implements == Spec => Abs!Init /\ [][Abs!Next]_(Abs!vars)
<1>1. Init => Abs!Init
  <2>1. \A S : Abs!Cardinality(S) = Cardinality(S)
    BY DEF Abs!Cardinality, Cardinality
  <2> QED
    BY <2>1 DEF Init, Abs!Init, Abs!Blocks
<1>2. ASSUME Inv, LevelInv, Inv', [Next]_vars PROVE [Abs!Next]_(Abs!vars)
  <2>1. CASE \E b \in Blocks : Analyse(b)
    BY <1>2, <2>1, AnalyseImplements
  <2>2. CASE Pop \/ Reach \/ Skip \/ CalcDone \/ Deepen \/ Finish \/ UNCHANGED vars
    BY <2>2 DEF Pop, Reach, Skip, CalcDone, Deepen, Finish, vars, Abs!vars
  <2> QED
    BY <1>2, <2>1, <2>2 DEF Next
<1> QED
  BY <1>1, <1>2, Invariance, LevelInvariance, PTL DEF Spec

=============================================================================
