------------------------------ MODULE BlockOrder ------------------------------
(***************************************************************************)
(* The order in which TypeHunter analyses the basic blocks of a function:  *)
(* calcDeep() gives each block its distance from block 0 with a queue, and *)
(* the loop of analyzeBinary() takes the blocks by increasing depth; for   *)
(* each of them mergeBranch() chooses the fathers whose register           *)
(* environment it starts from and asserts what it relies on.               *)
(*                                                                         *)
(* Source: project/source/typeinfer.cpp, project/include/typeinfer.h.      *)
(*                                                                         *)
(* A block is its index in blockContainer, which is its id and its row of  *)
(* the adjacency matrix.  The matrix is the set of pairs that hold 1.  A   *)
(* failing ASSERT prints a line and exits: it is the value of `halt`.      *)
(***************************************************************************)
EXTENDS BlockGraph, Sequences, FiniteSets

CONSTANTS
    MaxBlocks,      \* bound on the number of blocks of a function
    MaxFanOut,      \* bound on the number of successors of a block
    IntMax          \* the largest int (2^31 - 1 in the program)

ASSUME BoundsAssumption ==
    /\ MaxBlocks \in Nat \ {0}
    /\ MaxFanOut \in Nat
    /\ IntMax \in Nat /\ IntMax >= MaxBlocks

VARIABLES
    blockNum,       \* number of blocks, TypeHunter::blockNum
    matrix,         \* the edges <<i, j>> with matrix[i][j] == 1
    depth,          \* BasicBlock::depth of every block
    pQueue,         \* the queue of calcDeep()
    index,          \* the block calcDeep() has taken from the queue
    j,              \* the candidate child it looks at next
    deep,           \* the depth analyzeBinary() is looking for
    analysed,       \* the blocks whose regPtr is set
    phase,          \* "calc" in calcDeep(), "analyse" in the loop, "done"
    halt            \* the ASSERT that ended the process, "none" if none did

vars == <<blockNum, matrix, depth, pQueue, index, j, deep, analysed, phase, halt>>

NoDepth == -1
Blocks == 0 .. (blockNum - 1)
Pending == Blocks \ analysed            \* tmp_container

----------------------------------------------------------------------------
(* The fathers mergeBranch(b) looks at; it ignores an edge from b to b.    *)
Fathers(b) == {i \in Blocks \ {b} : <<i, b>> \in matrix}

(* Slip: a father at the same depth is merged too.                         *)
MergedSameDepth(b) == {i \in Fathers(b) : depth[b] >= depth[i]}

(* The fathers it merges: those strictly nearer to the entry.              *)
Merged(b) == {i \in Fathers(b) : depth[b] > depth[i]}

(* The fathers at which one of the two ASSERTs of its loop fails.          *)
Unusable(b) ==
    {i \in Fathers(b) : depth[i] = NoDepth \/ (i \in Merged(b) /\ i \notin analysed)}

(* Slip: ASSERT(index == 0) left out.                                      *)
MergeVerdictAnyEntry(b) ==
    IF \E i \in Unusable(b) : depth[i] # NoDepth /\ \A k \in Unusable(b) : i <= k
    THEN "environment"
    ELSE IF Unusable(b) # {} THEN "unreached" ELSE "none"

(* The outcome of mergeBranch(b): fathers are visited by increasing index, *)
(* so the first unusable one decides which ASSERT ends the process.        *)
MergeVerdict(b) ==
    IF \E i \in Unusable(b) : depth[i] # NoDepth /\ \A k \in Unusable(b) : i <= k
    THEN "environment"                  \* ASSERT(father -> regPtr != NULL)
    ELSE IF Unusable(b) # {}
    THEN "unreached"                    \* ASSERT(father -> depth != -1)
    ELSE IF Merged(b) = {} /\ b # 0
    THEN "entry"                        \* ASSERT(index == 0)
    ELSE "none"

(* Slip: the depth is not compared, any block that has one is taken.       *)
FoundAnyDepth(b) ==
    /\ b \in Pending /\ depth[b] # NoDepth
    /\ \A c \in Pending : depth[c] # NoDepth => b <= c

(* findNext(deep, tmp_container): the first pending block of that depth.   *)
Found(b) ==
    /\ b \in Pending /\ depth[b] = deep
    /\ \A c \in Pending : depth[c] = deep => b <= c

(* Slips: a counter wider than an int, and one that stops at its limit.    *)
IncrementWide(n) == n + 1
IncrementSaturating(n) == IF n = IntMax THEN n ELSE n + 1

(* deep++ on a 32 bit int in a build without optimisation.                 *)
Increment(n) == IF n = IntMax THEN -(IntMax + 1) ELSE n + 1

----------------------------------------------------------------------------
(* Any graph buildMatrix() can leave, before calcDeep() looks at it.       *)
Init ==
    /\ blockNum \in 1 .. MaxBlocks
    /\ matrix \in SUBSET (Blocks \X Blocks)
    /\ \A b \in Blocks : Cardinality({e \in matrix : e[1] = b}) <= MaxFanOut
    /\ depth = [b \in Blocks |-> IF b = 0 THEN 0 ELSE NoDepth]
    /\ pQueue = <<0>>
    /\ index = 0
    /\ j = blockNum
    /\ deep = 0
    /\ analysed = {}
    /\ phase = "calc"
    /\ halt = "none"

(* The head of the while loop of calcDeep(): take the next queued block.   *)
Pop ==
    /\ phase = "calc" /\ j = blockNum /\ pQueue # <<>>
    /\ index' = Head(pQueue)
    /\ pQueue' = Tail(pQueue)
    /\ j' = 0
    /\ UNCHANGED <<blockNum, matrix, depth, deep, analysed, phase, halt>>

(* Slip: a child with a greater depth is not pushed for expansion.         *)
ReachNoPush ==
    /\ phase = "calc" /\ j < blockNum
    /\ <<index, j>> \in matrix /\ depth[j] = NoDepth
    /\ depth' = [depth EXCEPT ![j] = depth[index] + 1]
    /\ j' = j + 1
    /\ UNCHANGED <<blockNum, matrix, pQueue, index, deep, analysed, phase, halt>>

(* Slip: a child that already has a depth gets another one.                *)
ReachAgain ==
    /\ phase = "calc" /\ j < blockNum
    /\ <<index, j>> \in matrix
    /\ depth' = [depth EXCEPT ![j] = depth[index] + 1]
    /\ pQueue' = Append(pQueue, j)
    /\ j' = j + 1
    /\ UNCHANGED <<blockNum, matrix, index, deep, analysed, phase, halt>>

(* A turn of its for loop, on a child whose depth is still unknown ...     *)
Reach ==
    /\ phase = "calc" /\ j < blockNum
    /\ <<index, j>> \in matrix /\ depth[j] = NoDepth
    /\ depth' = [depth EXCEPT ![j] = depth[index] + 1]
    /\ pQueue' = Append(pQueue, j)
    /\ j' = j + 1
    /\ UNCHANGED <<blockNum, matrix, index, deep, analysed, phase, halt>>

(* ... and on a block that is no child or already has a depth.             *)
Skip ==
    /\ phase = "calc" /\ j < blockNum
    /\ ~(<<index, j>> \in matrix /\ depth[j] = NoDepth)
    /\ j' = j + 1
    /\ UNCHANGED <<blockNum, matrix, depth, pQueue, index, deep, analysed, phase, halt>>

(* The queue is empty: calcDeep() returns to analyzeBinary().              *)
CalcDone ==
    /\ phase = "calc" /\ j = blockNum /\ pQueue = <<>>
    /\ phase' = "analyse"
    /\ UNCHANGED <<blockNum, matrix, depth, pQueue, index, j, deep, analysed, halt>>

(* The loop found a block: it is erased from tmp_container and, unless an  *)
(* ASSERT fails, gets its environment from mergeBranch() and is analysed.  *)
Analyse(b) ==
    /\ phase = "analyse" /\ halt = "none"
    /\ Found(b)
    /\ halt' = MergeVerdict(b)
    /\ analysed' = IF halt' = "none" THEN analysed \cup {b} ELSE analysed
    /\ UNCHANGED <<blockNum, matrix, depth, pQueue, index, j, deep, phase>>

(* No pending block has this depth: deep++ and continue.                   *)
Deepen ==
    /\ phase = "analyse" /\ halt = "none"
    /\ Pending # {}
    /\ \A b \in Pending : depth[b] # deep
    /\ deep' = Increment(deep)
    /\ UNCHANGED <<blockNum, matrix, depth, pQueue, index, j, analysed, phase, halt>>

(* tmp_container is empty: analyzeBinary() returns.                        *)
Finish ==
    /\ phase = "analyse" /\ halt = "none"
    /\ Pending = {}
    /\ phase' = "done"
    /\ UNCHANGED <<blockNum, matrix, depth, pQueue, index, j, deep, analysed, halt>>

Next ==
    \/ Pop \/ Reach \/ Skip \/ CalcDone
    \/ \E b \in Blocks : Analyse(b)
    \/ Deepen \/ Finish

Spec == Init /\ [][Next]_vars

(* One thread runs the two loops to their end: it never stops by itself.   *)
FairSpec == Spec /\ WF_vars(Next)

----------------------------------------------------------------------------
(* Types; deep is an int and every index a block.                          *)
TypeOK ==
    /\ blockNum \in Nat \ {0}
    /\ matrix \subseteq Blocks \X Blocks
    /\ depth \in [Blocks -> Nat \cup {NoDepth}]
    /\ pQueue \in Seq(Blocks)
    /\ index \in Blocks
    /\ j \in 0 .. blockNum
    /\ deep \in -(IntMax + 1) .. IntMax
    /\ analysed \subseteq Blocks
    /\ phase \in {"calc", "analyse", "done"}
    /\ halt \in {"none", "unreached", "environment", "entry"}

(* When calcDeep() returns, depth is the length of a shortest path from    *)
(* the entry, and NoDepth exactly for the blocks no path leads to: the     *)
(* marking order of the queue never gives a block a longer path's length.  *)
DepthIsDistance ==
    phase # "calc" =>
        \A b \in Blocks :
            depth[b] = IF b \in Reachable(blockNum, matrix)
                       THEN Distance(blockNum, matrix, b) ELSE NoDepth

(* analyzeBinary() analyses a block only after every block nearer to the   *)
(* entry, whatever the edges and the order of the blocks in the vector.    *)
NearerFirst ==
    \A b \in analysed, c \in Pending :
        phase # "calc" /\ depth[c] # NoDepth => depth[b] <= depth[c]

(* Only a block no path leads to makes an ASSERT of mergeBranch() fail:    *)
(* the environment of a merged father is always there (line 437), and a    *)
(* reachable block other than the entry always has a father to merge (447).*)
OnlyUnreachedHalts ==
    /\ halt # "environment"
    /\ halt # "none" => \E b \in Blocks : depth[b] = NoDepth

(* No unreachable block is ever analysed, even when deep wraps around to   *)
(* NoDepth and findNext() finds it: the ASSERTs stop the process first.    *)
UnreachedNeverAnalysed ==
    \A b \in analysed : depth[b] # NoDepth

(* The two loops implement the abstract order: each reachable block once,  *)
(* nearest first, and all of them unless an unreachable block ends the     *)
(* process.  A step of calcDeep(), deep++ and the return are invisible.    *)
Abs == INSTANCE BlockOrderAbs WITH stopped <- (halt # "none")
ImplementsOrder == Abs!Spec

(* The process ends for every graph: an unreachable block costs a full     *)
(* turn of the 32 bit counter, and then an ASSERT fails.                   *)
LoopEnds == <>(phase = "done" \/ halt # "none")

=============================================================================
