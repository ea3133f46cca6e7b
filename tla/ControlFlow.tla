------------------------------ MODULE ControlFlow ------------------------------
(***************************************************************************)
(* TypeHunter::buildCFG() and buildMatrix(): the basic blocks of a function*)
(* and the adjacency matrix between them, from one scan of its code.       *)
(*                                                                         *)
(* Source: project/source/typeinfer.cpp, project/include/typeinfer.h.      *)
(*                                                                         *)
(* An address is the ordinal of an instruction: code[a] is the instruction *)
(* at address a, the function is 0 .. Length - 1 and Length is its end.    *)
(* An address below 0 or above Length is outside the function.  Jumps into *)
(* the middle of an instruction are left out.                              *)
(*                                                                         *)
(* What an instruction does to control, and what the scan has a case for:  *)
(* "jmp" (a JMP with a displacement), "jcc" (a conditional jump or a LOOP  *)
(* of the switch), "ret", "bad" (XED cannot decode it), "plain" (control   *)
(* goes on behind it).  Three more the scan misreads: "ijmp" (a JMP        *)
(* through a register or memory; its displacement reads as 0), "jcxz"      *)
(* (JCXZ and JECXZ, with no case) and "stop" (control is gone: a far JMP,  *)
(* an IRET, HLT or UD2, with no case).                                     *)
(***************************************************************************)
EXTENDS Integers, FiniteSets

CONSTANTS
    MaxLength,      \* bound on the number of instructions of a function
    Outside,        \* how far outside the function a jump may go
    Misread         \* the kinds of misread instructions there may be

ASSUME LengthAssumption ==
    /\ MaxLength \in Nat \ {0} /\ Outside \in Nat
    /\ Misread \subseteq {"ijmp", "jcxz", "stop"}

VARIABLES
    code,           \* the function
    index,          \* the address buildCFG() looks at
    instruction,    \* the set of decoded addresses
    jmpTarget,      \* the set of jump targets
    nodes,          \* TypeHunter::nodes, the addresses where a block starts
    edges,          \* TypeHunter::edges, pairs of addresses
    stage,          \* "scan" and "join" in buildCFG(), "matrix", "built"
    complete,       \* what buildCFG() returned; its caller ignores it
    matrix          \* the pairs of blocks <<i, j>> with matrix[i][j] == 1

cfgVars == <<code, index, instruction, jmpTarget, nodes, edges, stage, complete, matrix>>

Length == Cardinality(DOMAIN code)

Instructions(n) ==
    [op : {"plain", "ret", "bad"} \cup (Misread \cap {"stop"}), target : {0}]
        \cup [op : {"jmp", "jcc"} \cup (Misread \ {"stop"}),
              target : (0 - Outside) .. (n + Outside)]

(* Where the scan takes a jump to lead: the address behind it and what     *)
(* get_branch_displacement_int32() returns.                                *)
Displaced(a) == IF code[a].op = "ijmp" THEN a + 1 ELSE code[a].target

----------------------------------------------------------------------------
(* The blocks: the nodes in increasing order, block k being                *)
(* [StartAddr(k), EndAddr(k)).                                             *)
blockNum == Cardinality(nodes)

(* The block an address lies in: the last one that starts at or before it. *)
BlockOf(a) == Cardinality({n \in nodes : n <= a}) - 1

(* The block that starts at a node.                                        *)
BlockAt(n) == Cardinality({m \in nodes : m < n})

StartAddr(k) == CHOOSE n \in nodes : BlockAt(n) = k

(* A block ends where the next one starts, the last one at the end of the  *)
(* function.                                                               *)
EndAddr(k) == IF k = blockNum - 1 THEN Length ELSE StartAddr(k + 1)

----------------------------------------------------------------------------
CfgInit ==
    /\ \E n \in 1 .. MaxLength : code \in [0 .. (n - 1) -> Instructions(n)]
    /\ index = 0
    /\ instruction = {}
    /\ jmpTarget = {}
    /\ nodes = {0}
    /\ edges = {}
    /\ stage = "scan"
    /\ complete = TRUE
    /\ matrix = {}

(* An instruction with no case of its own in the switch.                   *)
ScanPlain ==
    /\ stage = "scan" /\ index < Length
    /\ code[index].op \in {"plain", "ret", "jcxz", "stop"}
    /\ instruction' = instruction \cup {index}
    /\ index' = index + 1
    /\ UNCHANGED <<code, jmpTarget, nodes, edges, stage, complete, matrix>>

(* Slip: nodes.insert(target) is missing for a JMP.                        *)
ScanJumpNoNode ==
    /\ stage = "scan" /\ index < Length
    /\ code[index].op \in {"jmp", "ijmp"}
    /\ instruction' = instruction \cup {index}
    /\ jmpTarget' = jmpTarget \cup {Displaced(index)}
    /\ edges' = edges \cup {<<index, Displaced(index)>>}
    /\ index' = index + 1
    /\ UNCHANGED <<code, nodes, stage, complete, matrix>>

(* JMP: the target is a node; the address after it is not.                 *)
ScanJump ==
    /\ stage = "scan" /\ index < Length
    /\ code[index].op \in {"jmp", "ijmp"}
    /\ instruction' = instruction \cup {index}
    /\ jmpTarget' = jmpTarget \cup {Displaced(index)}
    /\ edges' = edges \cup {<<index, Displaced(index)>>}
    /\ nodes' = nodes \cup {Displaced(index)}
    /\ index' = index + 1
    /\ UNCHANGED <<code, stage, complete, matrix>>

(* Slip: the address after a conditional jump starts no block.             *)
ScanBranchNoNext ==
    /\ stage = "scan" /\ index < Length
    /\ code[index].op = "jcc"
    /\ instruction' = instruction \cup {index}
    /\ jmpTarget' = jmpTarget \cup {code[index].target}
    /\ edges' = edges \cup {<<index, code[index].target>>, <<index, index + 1>>}
    /\ nodes' = nodes \cup {code[index].target}
    /\ index' = index + 1
    /\ UNCHANGED <<code, stage, complete, matrix>>

(* Slip: the edge to the address after a conditional jump is left out.     *)
ScanBranchNoEdge ==
    /\ stage = "scan" /\ index < Length
    /\ code[index].op = "jcc"
    /\ instruction' = instruction \cup {index}
    /\ jmpTarget' = jmpTarget \cup {code[index].target}
    /\ edges' = edges \cup {<<index, code[index].target>>}
    /\ nodes' = nodes \cup {code[index].target, index + 1}
    /\ index' = index + 1
    /\ UNCHANGED <<code, stage, complete, matrix>>

(* A conditional jump: the target and the next address are nodes.          *)
ScanBranch ==
    /\ stage = "scan" /\ index < Length
    /\ code[index].op = "jcc"
    /\ instruction' = instruction \cup {index}
    /\ jmpTarget' = jmpTarget \cup {code[index].target}
    /\ edges' = edges \cup {<<index, code[index].target>>, <<index, index + 1>>}
    /\ nodes' = nodes \cup {code[index].target, index + 1}
    /\ index' = index + 1
    /\ UNCHANGED <<code, stage, complete, matrix>>

(* Undecodable bytes: buildCFG() returns false, with the edges found so    *)
(* far and without its second pass.                                        *)
ScanBad ==
    /\ stage = "scan" /\ index < Length
    /\ code[index].op = "bad"
    /\ instruction' = instruction \cup {index}
    /\ complete' = FALSE
    /\ stage' = "matrix"
    /\ UNCHANGED <<code, index, jmpTarget, nodes, edges, matrix>>

ScanEnd ==
    /\ stage = "scan" /\ index = Length
    /\ index' = 0
    /\ stage' = "join"
    /\ UNCHANGED <<code, instruction, jmpTarget, nodes, edges, complete, matrix>>

----------------------------------------------------------------------------
(* Slip: the check for a RET is left out.                                  *)
FallsThroughAfterRet(i) == i.op \notin {"jmp", "ijmp"}

FallsThrough(i) == i.op \notin {"ret", "jmp", "ijmp"}

(* Second pass, an instruction that is a jump target: the instruction      *)
(* before it leads here too, unless it is a RET or a JMP.                  *)
Join ==
    /\ stage = "join" /\ index < Length
    /\ index \in jmpTarget /\ index > 0
    /\ edges' = IF FallsThrough(code[index - 1])
                THEN edges \cup {<<index - 1, index>>} ELSE edges
    /\ index' = index + 1
    /\ UNCHANGED <<code, instruction, jmpTarget, nodes, stage, complete, matrix>>

JoinSkip ==
    /\ stage = "join" /\ index < Length
    /\ index \notin jmpTarget
    /\ index' = index + 1
    /\ UNCHANGED <<code, instruction, jmpTarget, nodes, edges, stage, complete, matrix>>

(* A jump to address 0: --itr steps before begin() and what is read there  *)
(* is undefined.  The value is used as an address; the bytes at it may not *)
(* decode, may be a RET or a JMP, or may give an edge into the entry.      *)
JoinEntry ==
    /\ stage = "join" /\ index = 0 /\ 0 \in jmpTarget
    /\ \/ complete' = FALSE /\ stage' = "matrix" /\ UNCHANGED <<edges, index>>
       \/ \E E \in {{}} \cup {{<<previous, 0>>} : previous \in DOMAIN code} :
            edges' = edges \cup E /\ index' = 1 /\ UNCHANGED <<complete, stage>>
    /\ UNCHANGED <<code, instruction, jmpTarget, nodes, matrix>>

JoinEnd ==
    /\ stage = "join" /\ index = Length
    /\ stage' = "matrix"
    /\ UNCHANGED <<code, index, instruction, jmpTarget, nodes, edges, complete, matrix>>

(* buildMatrix(): an edge leads from the block its source lies in to the   *)
(* block that starts at its target.                                        *)
BuildMatrix ==
    /\ stage = "matrix"
    /\ matrix' = {<<BlockOf(e[1]), BlockAt(e[2])>> : e \in edges}
    /\ stage' = "built"
    /\ UNCHANGED <<code, index, instruction, jmpTarget, nodes, edges, complete>>

CfgNext ==
    \/ ScanPlain \/ ScanJump \/ ScanBranch \/ ScanBad \/ ScanEnd
    \/ Join \/ JoinSkip \/ JoinEntry \/ JoinEnd
    \/ BuildMatrix

CfgSpec == CfgInit /\ [][CfgNext]_cfgVars

----------------------------------------------------------------------------
(* Reference: where control goes after the instruction at a, when the code *)
(* decodes.  A function does not run over its own end.                     *)
Successors(a) ==
    CASE code[a].op \in {"jmp", "ijmp"} -> {code[a].target}
      [] code[a].op \in {"jcc", "jcxz"} -> {code[a].target, a + 1}
      [] code[a].op = "plain" -> {a + 1} \ {Length}
      [] OTHER -> {}

Understood == {a \in DOMAIN code : code[a].op \notin {"ijmp", "jcxz", "stop"}}
AllUnderstood == Understood = DOMAIN code

Transfers == {t \in Understood \X nodes : t[2] \in Successors(t[1])}

(* The step behind a misread instruction, into the start of a block.       *)
StepBehind ==
    {<<a, a + 1>> : a \in {a \in DOMAIN code \ Understood :
                                a + 1 \in nodes /\ (a + 1 < Length \/ code[a].op = "ijmp")}}

CfgTypeOK ==
    /\ index \in 0 .. Length
    /\ instruction \subseteq DOMAIN code
    /\ 0 \in nodes /\ jmpTarget \subseteq nodes
    /\ \A e \in edges : e[1] \in DOMAIN code /\ e[2] \in nodes
    /\ stage \in {"scan", "join", "matrix", "built"}
    /\ complete \in BOOLEAN
    /\ matrix \subseteq (0 .. (blockNum - 1)) \X (0 .. (blockNum - 1))

(* When the scan decodes everything and no jump seems to go to address 0,  *)
(* the two passes lose no transfer of control into the start of a block    *)
(* and invent none, for direct jumps, the conditional jumps of the switch, *)
(* RET and plain instructions.  A misread instruction, wherever it leads,  *)
(* counts for a step to the next address and for nothing else.             *)
MatrixIsControlFlow ==
    stage = "built" /\ complete /\ 0 \notin jmpTarget =>
        matrix = {<<BlockOf(t[1]), BlockAt(t[2])>> : t \in Transfers \cup StepBehind}

(* Control enters a block only at its start and leaves it only after a     *)
(* jump or a return, as far as the scan understands the code: inside a     *)
(* block the instruction after a plain one is the next one, and after a    *)
(* jump or a return there is only dead code.                               *)
BlocksAreStraight ==
    stage = "built" /\ complete =>
        \A a \in Understood, t \in (0 - Outside) .. (Length + Outside) :
            t \in Successors(a) => t \in nodes \/ (t = a + 1 /\ Successors(a) = {t})

=============================================================================
