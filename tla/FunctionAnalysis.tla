--------------------------- MODULE FunctionAnalysis ---------------------------
(***************************************************************************)
(* TypeHunter::analyzeBinary() as a whole, down to the basic block: the    *)
(* control flow graph of a function (ControlFlow) is built, its blocks get *)
(* their depths, and they are analysed in that order (BlockOrder).         *)
(*                                                                         *)
(* Source: project/source/typeinfer.cpp.                                   *)
(***************************************************************************)
EXTENDS ControlFlow, Sequences

CONSTANT IntMax

VARIABLES depth, pQueue, current, j, deep, analysed, phase, halt

orderVars == <<depth, pQueue, current, j, deep, analysed, phase, halt>>

(* The blocks of BlockOrder are the ones of the graph; current is its      *)
(* `index`.  A function has at most two blocks per instruction and one.    *)
Order == INSTANCE BlockOrder
         WITH index <- current,
              MaxBlocks <- 2 * MaxLength + 1,
              MaxFanOut <- 2 * MaxLength + 1

Init ==
    /\ CfgInit
    /\ depth = <<>> /\ pQueue = <<>> /\ current = 0 /\ j = 0 /\ deep = 0
    /\ analysed = {} /\ phase = "cfg" /\ halt = "none"

BuildGraph == CfgNext /\ UNCHANGED orderVars

(* buildMatrix() has created the blocks, calcDeep() starts on the first.   *)
StartOrder ==
    /\ stage = "built" /\ phase = "cfg"
    /\ depth' = [b \in 0 .. (blockNum - 1) |-> IF b = 0 THEN 0 ELSE -1]
    /\ pQueue' = <<0>>
    /\ j' = blockNum
    /\ phase' = "calc"
    /\ UNCHANGED <<current, deep, analysed, halt, cfgVars>>

OrderBlocks == UNCHANGED cfgVars /\ Order!Next

Next == BuildGraph \/ StartOrder \/ OrderBlocks

allVars == <<cfgVars, orderVars>>

Spec == Init /\ [][Next]_allVars /\ WF_allVars(Next)

----------------------------------------------------------------------------
(* Reference: the addresses control reaches from the first instruction.    *)
Live ==
    LET Within[k \in 0 .. Length] ==
            IF k = 0
            THEN {0}
            ELSE LET before == Within[k - 1]
                 IN  before \cup UNION {Successors(a) : a \in before \cap DOMAIN code}
    IN  Within[Length]

(* What the scan understands of the code is all of it, and jumps stay      *)
(* inside.                                                                 *)
Readable == complete /\ AllUnderstood /\ nodes \subseteq 0 .. Length

(* The typical function: control can reach every address a block starts at.*)
WellFormed == Readable /\ nodes \subseteq Live

(* Where no instruction is misread, a block that ends up without a depth   *)
(* holds code that control cannot reach: the two passes of buildCFG(),     *)
(* buildMatrix() and calcDeep() together never lose a block that is live.  *)
DepthForLiveBlocks ==
    (phase \in {"analyse", "done"} /\ Readable) =>
        \A a \in nodes \cap Live : depth[BlockAt(a)] >= 0

(* For a well formed function the analysis takes every block and returns:  *)
(* no ASSERT ends the process and the search for the next depth ends.      *)
WellFormedAnalysed ==
    (stage = "built" /\ WellFormed) ~> (phase = "done" /\ \A k \in 0 .. (blockNum - 1) : k \in analysed)

=============================================================================
