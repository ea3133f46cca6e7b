------------------------------ MODULE TypeHunter ------------------------------
(***************************************************************************)
(* TypeHunter::analyzeBinary() down to the instruction: the graph and the  *)
(* order of its blocks (FunctionAnalysis), for each block the merge of the *)
(* registers of its fathers (BranchMerge), then its instructions one by    *)
(* one (ConstraintGen), which leave the registers its children start from. *)
(* The ids of variables run through the whole function.                    *)
(*                                                                         *)
(* Source: project/source/typeinfer.cpp.                                   *)
(***************************************************************************)
EXTENDS FunctionAnalysis, Registers, Trailer

CONSTANTS
    StackOffsets, AbsoluteOffsets,  \* the variables that were found
    Bodies                          \* what an instruction that is no jump or RET may be

(* The registers and the offsets are those of the instances below.  Bodies *)
(* write registers as a whole: a merge may lose what was written into a    *)
(* byte (BranchMerge); a division by a byte writes bytes, too.  LEA, MOVZX *)
(* or MOVSX to memory, and XOR of memory with itself, are no instructions. *)
ASSUME HunterAssumption ==
    /\ Quads \subseteq {"EAX", "EBX", "ECX", "EDX"} /\ Singles \subseteq {"ESI", "EDI"}
    /\ "EAX" \in Quads
    /\ IsFiniteSet(StackOffsets) /\ StackOffsets \subseteq Int
    /\ IsFiniteSet(AbsoluteOffsets) /\ AbsoluteOffsets \subseteq Int
    /\ \A i \in Bodies :
        /\ {i.dst.part, i.src.part} = {"E"} /\ (i.op \in {"DIV", "IDIV"} => i.src.size # 8)
        /\ i.dst.disp \in Int /\ i.src.disp \in Int
        /\ i.op \in {"LEA", "MOVZX", "MOVSX"} => IsRegister(i.dst)
        /\ i.op = "XOR" /\ i.dst = i.src => IsRegister(i.dst)

VARIABLES
    body,                                   \* the instruction at each address
    step,                                   \* "find" a block, "merge", "infer"
    block,                                  \* the block at hand
    reg, esp, flag, varIndex, emitted,      \* ConstraintGen
    address,                                \* the instruction inferType() looks at
    ended,                                  \* how the process died in ConstraintGen
    father, merge, branch, register, stated, single,    \* BranchMerge
    regPtr,                                 \* BasicBlock::regPtr of the analysed blocks
    loaded,                                 \* the variables each instruction wrote anew
    flagged,                                \* the flags each instruction set
    standsFor                               \* all pairs that were merged

(* The constants that bound the instances' own initial states are of no    *)
(* account here.                                                           *)
Gen == INSTANCE ConstraintGen
       WITH current <- address, halt <- ended, Code <- Bodies, MaxInstructions <- MaxLength
Merge == INSTANCE BranchMerge
         WITH target <- reg, next <- register, emitted <- stated, halt <- single,
              FirstNew <- 0, Oldest <- 0, Branches <- 2

orderOnly == <<cfgVars, orderVars, body>>
mergeOnly == <<father, merge, branch, register, stated, single>>
history == <<loaded, flagged, standsFor>>
hunterVars == <<orderOnly, step, block, reg, esp, flag, varIndex, emitted, address, ended,
                mergeOnly, regPtr, history>>

Jump == Instr("JMP", NoOperand, NoOperand)
Plain == {a \in DOMAIN code : code[a].op = "plain"}
NoWrites == [s \in Slots |-> NULL]

HunterInit ==
    /\ Init
    /\ \E f \in [Plain -> Bodies] :
        body = [a \in DOMAIN code |-> IF a \in Plain THEN f[a] ELSE Jump]
    /\ Gen!Init
    /\ step = "find" /\ block = 0
    /\ father = <<>> /\ merge = {} /\ branch = 2 /\ register = 1
    /\ stated = {} /\ single = FALSE
    /\ regPtr = <<>>
    /\ loaded = [a \in DOMAIN code |-> NoWrites]
    /\ flagged = [a \in DOMAIN code |-> Gen!NoFlag]
    /\ standsFor = {}

----------------------------------------------------------------------------
(* buildCFG(), buildMatrix(), calcDeep() and the loop that looks for the   *)
(* next depth.                                                             *)
Prepare ==
    /\ step = "find" /\ ended = "no" /\ ~single
    /\ \/ BuildGraph \/ StartOrder
       \/ UNCHANGED cfgVars /\ (Order!Pop \/ Order!Reach \/ Order!Skip \/ Order!CalcDone
                                \/ Order!Deepen \/ Order!Finish)
    /\ UNCHANGED <<body, step, block, reg, esp, flag, varIndex, emitted, address, ended,
                   mergeOnly, regPtr, history>>

(* The fathers in S as mergeBranch() comes to them, by increasing index.   *)
InOrder(S) ==
    [k \in 1 .. Cardinality(S) |-> CHOOSE f \in S : Cardinality({i \in S : i < f}) = k - 1]

(* Slip: a new Register, without the flags of a father.                    *)
FirstFatherNoFlags(fathers) ==
    IF fathers = <<>> THEN [reg |-> NoVariables, esp |-> UNKNOWN, flag |-> Gen!NoFlag]
    ELSE [regPtr[fathers[1]] EXCEPT !.flag = Gen!NoFlag]

(* copyEnvironment() of the first father, or a new Register.               *)
FirstFather(fathers) ==
    IF fathers = <<>> THEN [reg |-> NoVariables, esp |-> UNKNOWN, flag |-> Gen!NoFlag]
    ELSE regPtr[fathers[1]]

(* A block is found; unless an ASSERT fails, mergeBranch() begins with the *)
(* environment of its first father.                                        *)
FindBlock ==
    /\ step = "find" /\ ended = "no" /\ ~single
    /\ UNCHANGED <<cfgVars, body, varIndex, emitted, ended, regPtr, history>>
    /\ \E b \in 0 .. (blockNum - 1) :
        /\ Order!Analyse(b)
        /\ LET fathers == InOrder(Order!Merged(b))
               first == FirstFather(fathers)
           IN  IF halt' # "none"
               THEN UNCHANGED <<step, block, reg, esp, flag, address, mergeOnly>>
               ELSE /\ block' = b
                    /\ reg' = first.reg /\ esp' = first.esp /\ flag' = first.flag
                    /\ father' = [k \in DOMAIN fathers |-> regPtr[fathers[k]].reg]
                    /\ merge' = {} /\ branch' = 2 /\ register' = 1 /\ stated' = {}
                    /\ address' = StartAddr(b)
                    /\ step' = "merge"
                    /\ UNCHANGED single

(* mergeRegister(), if there is more than one father: one register of one  *)
(* further father ...                                                      *)
MergeRegister ==
    /\ step = "merge" /\ Len(father) > 1
    /\ Merge!Keep \/ Merge!Take \/ Merge!Again \/ Merge!Make
    /\ UNCHANGED <<orderOnly, step, block, esp, flag, emitted, address, ended, regPtr, history>>

(* ... and the constraints of what was merged.                             *)
StateMerge ==
    /\ step = "merge" /\ Len(father) > 1
    /\ Merge!Emit
    /\ standsFor' = standsFor \cup merge
    /\ UNCHANGED <<orderOnly, step, block, esp, flag, emitted, address, ended, regPtr,
                   loaded, flagged>>

(* block -> regPtr = reg, and inferType() resets Tracker and Trailer to it.*)
EnterBlock ==
    /\ step = "merge" /\ ~single
    /\ Len(father) > 1 => register = 0
    /\ step' = "infer"
    /\ UNCHANGED <<orderOnly, block, reg, esp, flag, varIndex, emitted, address, ended,
                   mergeOnly, regPtr, history>>

----------------------------------------------------------------------------
More == address < EndAddr(block) /\ code[address].op # "bad"

(* A register gets a value that is no copy of a register's.                *)
Loads(i) == i.op = "MOV" /\ IsRegister(i.dst) /\ ~IsRegister(i.src)
SetsFlags(i) == i.op \in Gen!TwoOperand \cup Gen!OneOperand /\ ~UsesFrame(i)

(* inferType(): assignConstraint() for the next instruction.  What it      *)
(* wrote is noted.                                                         *)
InferInstruction ==
    /\ step = "infer" /\ More
    /\ LET i == body[address]
           anew == {s \in Slots : \/ Loads(i) /\ s[1] = i.dst.reg
                                  \/ reg'[s] \in varIndex .. varIndex' - 1}
       IN  /\ Gen!Step(i)
           /\ loaded' = [loaded EXCEPT ![address] =
                            [s \in Slots |-> IF s \in anew THEN reg'[s] ELSE NULL]]
           /\ flagged' = [flagged EXCEPT ![address] = IF SetsFlags(i) THEN flag' ELSE @]
    /\ UNCHANGED <<orderOnly, step, block, mergeOnly, regPtr, standsFor>>

(* The end of the block, or of what decodes of it: regPtr keeps what the   *)
(* instructions have left.                                                 *)
LeaveBlock ==
    /\ step = "infer" /\ ended = "no" /\ ~More
    /\ regPtr' = [b \in DOMAIN regPtr \cup {block} |->
                    IF b = block THEN [reg |-> reg, esp |-> esp, flag |-> flag] ELSE regPtr[b]]
    /\ step' = "find"
    /\ UNCHANGED <<orderOnly, block, reg, esp, flag, varIndex, emitted, address, ended,
                   mergeOnly, history>>

HunterNext ==
    \/ Prepare \/ FindBlock \/ MergeRegister \/ StateMerge \/ EnterBlock
    \/ InferInstruction \/ LeaveBlock

HunterSpec == HunterInit /\ [][HunterNext]_hunterVars

----------------------------------------------------------------------------
(* Reference: what can be in the registers and in the flags at the start   *)
(* of each block, over all paths whose blocks get farther from the entry.  *)
(* A value is known by the variable it was given where it was computed.    *)
After(a, at) ==
    LET i == body[a]
        written(s) == s[1] = i.dst.reg /\ IsRegister(i.dst) /\ ~UsesFrame(i)
    IN  [values |-> [s \in Slots |->
            IF (Loads(i) /\ written(s)) \/ loaded[a][s] # NULL THEN {loaded[a][s]} \ {NULL}
            ELSE IF i.op = "MOV" /\ written(s) THEN at.values[<<i.src.reg, "E">>]
            ELSE IF i.op = "XOR" /\ i.dst = i.src /\ written(s) THEN {}
            ELSE at.values[s]],
         flags |-> IF SetsFlags(i) THEN {flagged[a]} ELSE at.flags]

Through(b, before) ==
    LET At[a \in StartAddr(b) .. EndAddr(b)] ==
            IF a = StartAddr(b) THEN before ELSE After(a - 1, At[a - 1])
    IN  At[EndAddr(b)]

Nothing(b) == [values |-> [s \in Slots |-> {}], flags |-> IF b = 0 THEN {Gen!NoFlag} ELSE {}]

OnPaths ==
    LET Within[n \in 0 .. blockNum] ==
            IF n = 0 THEN [b \in 0 .. (blockNum - 1) |-> Nothing(b)]
            ELSE LET before == Within[n - 1]
                 IN  [b \in 0 .. (blockNum - 1) |->
                        LET ends == {Through(f, before[f]) : f \in Order!Merged(b)}
                        IN  IF ends = {} THEN Nothing(b)
                            ELSE [values |-> [s \in Slots |-> UNION {e.values[s] : e \in ends}],
                                  flags |-> UNION {e.flags : e \in ends}]]
    IN  Within[blockNum]

(* The variables that v stands for, over all merges before.                *)
Originals(v) ==
    LET Within[n \in 0 .. Cardinality(standsFor)] ==
            IF n = 0 THEN {v} \ {NULL}
            ELSE LET before == Within[n - 1]
                 IN  before \cup {p[2] : p \in {p \in standsFor : p[1] \in before}}
    IN  Within[Cardinality(standsFor)] \ {p[1] : p \in standsFor}

Entering ==
    /\ step = "infer" /\ address = StartAddr(block)
    /\ Readable /\ DOMAIN code \subseteq Live

(* Nothing is lost and nothing made up between the blocks: in a function   *)
(* without dead code, made of instructions that write whole registers      *)
(* (HunterAssumption: no SETcc or MOV of a byte register), what a register *)
(* holds at the start of a block stands for exactly the values that some   *)
(* path gives it, through whatever merges of merges they came, on all      *)
(* paths that mergeBranch() follows.                                       *)
StandsForItsPaths ==
    Entering => \A s \in Slots : Originals(reg[s]) = OnPaths[block].values[s]

(* A SETcc looks at flags that some path really leads there with: the      *)
(* first father's are those of its own first father, and so on, down to an *)
(* instruction that set them.                                              *)
FlagsOfSomePath ==
    Entering => flag \in OnPaths[block].flags

=============================================================================
