---------------------------- MODULE BlockOrderAbs ----------------------------
(***************************************************************************)
(* What TypeHunter::analyzeBinary() promises about the blocks of a graph:  *)
(* every reachable block is analysed exactly once, a nearer one before a   *)
(* farther one, and the process may stop early only if some block cannot   *)
(* be reached.  There is no queue, no depth and no counter here.           *)
(***************************************************************************)
EXTENDS BlockGraph, FiniteSets

CONSTANTS MaxBlocks, MaxFanOut

VARIABLES blockNum, matrix, analysed, stopped

vars == <<blockNum, matrix, analysed, stopped>>

Blocks == 0 .. (blockNum - 1)
Waiting == Reachable(blockNum, matrix) \ analysed

Init ==
    /\ blockNum \in 1 .. MaxBlocks
    /\ matrix \in SUBSET (Blocks \X Blocks)
    /\ \A b \in Blocks : Cardinality({e \in matrix : e[1] = b}) <= MaxFanOut
    /\ analysed = {}
    /\ stopped = FALSE

(* A nearest block that waits is analysed.                                 *)
AnalyseNearest(b) ==
    /\ ~stopped
    /\ b \in Waiting
    /\ \A c \in Waiting : Distance(blockNum, matrix, b) <= Distance(blockNum, matrix, c)
    /\ analysed' = analysed \cup {b}
    /\ UNCHANGED <<blockNum, matrix, stopped>>

(* An unreachable block ends the process.                                  *)
Stop ==
    /\ ~stopped
    /\ Reachable(blockNum, matrix) # Blocks
    /\ stopped' = TRUE
    /\ UNCHANGED <<blockNum, matrix, analysed>>

Next == (\E b \in Blocks : AnalyseNearest(b)) \/ Stop

(* Under fairness every reachable block is analysed or the process stops.  *)
Spec == Init /\ [][Next]_vars /\ WF_vars(Next)

=============================================================================
