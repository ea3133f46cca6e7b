----------------------------- MODULE FrameRecovery -----------------------------
(***************************************************************************)
(* Variable recovery beside the processor that runs the same instructions: *)
(* the places a function's operands really address in its frame, and the   *)
(* variables VariableHunter finds there.  The function is straight-line    *)
(* code, so that the order of the addresses is the order of execution.     *)
(*                                                                         *)
(* Source: project/source/varinfer.cpp, trailer.cpp; the processor is      *)
(* external (StackDistance).                                               *)
(***************************************************************************)
EXTENDS StackDistance, FiniteSets

CONSTANT Indices    \* what an index register, with its scale, may add

VARIABLES
    stack_variable, absolute_variable, container, outcome,  \* VariableRecovery
    addressed       \* the places in the frame the processor has accessed so far

(* The two share the belief about ESP and the count of instructions.       *)
Recovery == INSTANCE VariableRecovery

(* An instruction names at most one operand in memory, and of the classes  *)
(* that push or pop only PUSH, POP and CALL can name one, as their first.  *)
ASSUME IndicesAssumption ==
    /\ Indices \subseteq Int
    /\ \A i \in Code :
        /\ IsMemory(i.src) =>
            ~IsMemory(i.dst) /\ i.op \notin Recovery!SkippedClasses \cup Recovery!StackClasses
        /\ IsMemory(i.dst) =>
            i.op \notin {"ENTER", "LEAVE", "RET", "PUSHF", "POPF", "PUSHA", "POPA"}

frameVars == <<vars, stack_variable, absolute_variable, container, outcome, addressed>>

FrameInit ==
    /\ Init
    /\ Recovery!RecoveryInit
    /\ addressed = {}

----------------------------------------------------------------------------
(* The processor's side: the operands in memory through EBP or ESP, and    *)
(* the words on the stack that an instruction other than PUSH, POP, ENTER, *)
(* LEAVE and RET pushes or pops by itself.                                 *)

(* An access: the offset from EBP of its place, by how much the analysis   *)
(* would file it too high, what the access is, and whether ESP was being   *)
(* followed in the function's frame.  It is an "operand" in memory, the    *)
(* "implicit" word that a CALL, a PUSHF or the like pushes or pops, or a   *)
(* "push", which the analysis passes over: the operand of a PUSH or a POP, *)
(* and the word that a CALL pushes when its operand is in memory itself.   *)
Access(offset, drift, by) ==
    [offset |-> offset, drift |-> drift, by |-> by,
     tracked |-> frame = "own" /\ esp # UNKNOWN]

Explicit(i) ==
    {o \in {i.dst, i.src} : i.op # "LEA" /\ IsMemory(o) /\ o.reg \in {"ESP", "EBP"}}

(* An operand takes the ESP before the instruction, that of a POP the one  *)
(* after it; n is what the index register adds.                            *)
OperandAccess(i, o, n) ==
    IF i.op \in {"PUSH", "POP"}
    THEN Access(n + o.disp - (IF o.reg = "EBP" THEN 0
                              ELSE IF i.op = "POP" THEN distance' ELSE distance), 0, "push")
    ELSE IF o.reg = "EBP" THEN Access(n + o.disp, -n, "operand")
    ELSE Access(n + o.disp - distance, 3 * pushed + slack - n, "operand")

(* What is pushed comes to lie below ESP, what is popped lies at it.       *)
BelowESP(i) ==
    CASE i.op \in {"CALL", "PUSHF"} -> 4
      [] i.op = "PUSHA" -> 32
      [] OTHER -> 0

Implicit(i) ==
    IF i.op \in {"CALL", "PUSHF", "PUSHA", "POPF", "POPA"}
    THEN {Access(-distance - BelowESP(i), 3 * pushed + slack + BelowESP(i),
                 IF IsMemory(i.dst) THEN "push" ELSE "implicit")}
    ELSE {}

(* An instruction is scanned, and what it accesses noted.                  *)
Scan(i) ==
    /\ Recovery!Find(i)
    /\ Step(i)
    /\ \E n \in Indices :
        addressed' = addressed \cup Implicit(i) \cup
            {OperandAccess(i, o, IF o.index = "none" THEN 0 ELSE n) : o \in Explicit(i)}

Return ==
    /\ \/ Recovery!GetResult
       \/ Recovery!Undecodable
       \/ \E i \in Code : Recovery!TrackAssert(i)
    /\ UNCHANGED <<frame, distance, pushed, slack, addressed>>

FrameNext == Return \/ \E i \in Code : Scan(i)

FrameSpec == FrameInit /\ [][FrameNext]_frameVars

----------------------------------------------------------------------------
(* Properties.                                                             *)

RecoveryTypeOK == Recovery!RecoveryTypeOK
StackFound == {k \in DOMAIN container : container[k].region = "stack"}
InOwnFrame == \A a \in addressed : a.tracked

(* The accesses VariableHunter looks at, and the offset it files them at.  *)
LookedAt == {a \in addressed : a.by # "push"}
Filed(a) == a.offset + a.drift

(* Inside its own frame, every place that an operand addresses is found,   *)
(* save those that only a PUSH or a POP addresses, and nothing else is but *)
(* one variable too many for a word that a CALL, PUSHF or the like pushes  *)
(* or pops.  A place is filed where it is if EBP alone addresses it;       *)
(* an index register is taken for 0, and an access through ESP is filed    *)
(* three bytes too high for every operand pushed at that moment and by all *)
(* that ESP was moved unseen.                                              *)
FoundWhereAddressed ==
    InOwnFrame => DOMAIN stack_variable = {Filed(a) : a \in LookedAt}

(* What is found partitions the frame: no variable reaches into a later    *)
(* one, so that no byte is in two, and where an access is filed one begins *)
(* that holds it, whichever other accesses were filed before and after it. *)
(* Only [EBP] itself, when it is the highest, has no size.                 *)
EachPlaceInOneVariable ==
    outcome = "found" =>
        /\ \A k, l \in StackFound :
            k < l => container[k].offset + container[k].size <= container[l].offset
        /\ InOwnFrame => \A a \in LookedAt : \E k \in StackFound :
            /\ container[k].offset = Filed(a)
            /\ \/ Filed(a) \in Recovery!Extent(container[k])
               \/ Filed(a) = 0 /\ \A l \in StackFound : container[l].offset <= 0

(* Class Tracker numbers the entries by their keys and main() prints the   *)
(* keys: the n-th key belongs to the n-th stack variable by offset, and    *)
(* the absolute ones follow, which is what ConstraintGen's ids rely on.    *)
KeysInOrder ==
    outcome = "found" =>
        \A k \in DOMAIN container :
            LET below(map) == Cardinality({o \in DOMAIN map : o < container[k].offset})
            IN  k = IF container[k].region = "stack" THEN below(stack_variable) + 1
                    ELSE Cardinality(DOMAIN stack_variable) + below(absolute_variable) + 1

=============================================================================
