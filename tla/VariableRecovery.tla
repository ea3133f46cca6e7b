--------------------------- MODULE VariableRecovery ---------------------------
(***************************************************************************)
(* VariableRecovery() of main.cpp and class VariableHunter: one pass over  *)
(* the instructions of a function, in the order of their addresses, that   *)
(* collects the places on the stack and at absolute addresses which memory *)
(* operands name; then getResult() sorts them, gives each a size and       *)
(* numbers them.                                                           *)
(*                                                                         *)
(* Source: project/source/varinfer.cpp, project/source/main.cpp.           *)
(*                                                                         *)
(* A variable is an entry offset -> size, in bytes, of one of the two      *)
(* maps.  findHeapVariable() is empty, the map of temporaries is unused.   *)
(***************************************************************************)
EXTENDS Trailer, Functions, FiniteSets, Sequences

CONSTANTS
    Code,           \* the instructions a function may be made of
    MaxInstructions \* bound on the instructions that are scanned

VARIABLES
    esp,                \* the ESP of VariableHunter's own Register
    stack_variable,     \* offset from EBP -> size
    absolute_variable,  \* address -> size
    steps,              \* how many instructions were scanned
    container,          \* what getResult() inserted, key k being entry k
    outcome             \* "scanning", "found", "undecodable", "assert", "dead"

recoveryVars == <<esp, stack_variable, absolute_variable, steps, container, outcome>>

----------------------------------------------------------------------------
(* The classes whose access to memory is skipped, and the others that push *)
(* or pop, the return address of a CALL among what is pushed.              *)
SkippedClasses == {"PUSH", "POP", "ENTER", "LEAVE", "RET"}
StackClasses == {"CALL", "PUSHF", "POPF", "PUSHA", "POPA"}

(* XED's memory operand 0: an explicit one, the [ESP] of what pushes or    *)
(* pops, none for an LEA, which only computes an address.                  *)
MemoryOperand(i) ==
    IF i.op = "LEA" THEN NoOperand
    ELSE IF IsMemory(i.dst) THEN i.dst
    ELSE IF IsMemory(i.src) THEN i.src
    ELSE IF i.op \in StackClasses
    THEN Mem("ESP", 0, IF i.op \in {"PUSHA", "POPA"} THEN 256 ELSE 32)
    ELSE NoOperand

Access(i) == IF i.op \in SkippedClasses THEN NoOperand ELSE MemoryOperand(i)

Bytes(o) == o.size \div 8

(* An entry that is there stays as it is.                                  *)
Insert(map, offset, size) ==
    IF offset \in DOMAIN map THEN map
    ELSE [o \in DOMAIN map \cup {offset} |-> IF o = offset THEN size ELSE map[o]]

(* Slip: the distance is added instead of subtracted.                      *)
StackOffsetAdded(o, e) == IF o.reg = "ESP" THEN o.disp + e ELSE o.disp

(* The offset from EBP; an ESP that is not known is subtracted all the     *)
(* same.  An index register is not looked at.                              *)
StackOffset(o, e) == IF o.reg = "ESP" THEN o.disp - e ELSE o.disp

OnStack(o) == IsMemory(o) /\ o.reg \in {"ESP", "EBP"}
IsAbsolute(o) == IsMemory(o) /\ o.reg = "none" /\ o.index = "none"

----------------------------------------------------------------------------
NoEntries == [o \in {} |-> 0]

RecoveryInit ==
    /\ esp = UNKNOWN
    /\ stack_variable = NoEntries /\ absolute_variable = NoEntries
    /\ steps = 0
    /\ container = <<>>
    /\ outcome = "scanning"

(* findVariable(i).  Only an ESP based access gives the entry a size.      *)
Find(i) ==
    /\ outcome = "scanning" /\ steps < MaxInstructions
    /\ ~TrackFails(i)
    /\ esp' = TrackESP(esp, i)
    /\ LET o == Access(i)
       IN  /\ stack_variable' =
                IF OnStack(o)
                THEN Insert(stack_variable, StackOffset(o, esp'),
                            IF o.reg = "ESP" THEN Bytes(o) ELSE 0)
                ELSE stack_variable
           /\ absolute_variable' =
                IF IsAbsolute(o) THEN Insert(absolute_variable, o.disp, Bytes(o))
                ELSE absolute_variable
    /\ steps' = steps + 1
    /\ UNCHANGED <<container, outcome>>

(* ASSERT(trackanswer).                                                    *)
TrackAssert(i) ==
    /\ outcome = "scanning" /\ steps < MaxInstructions
    /\ TrackFails(i)
    /\ outcome' = "assert"
    /\ UNCHANGED <<esp, stack_variable, absolute_variable, steps, container>>

(* XED cannot decode what comes next: VariableRecovery() returns false and *)
(* getResult() is not called.                                              *)
Undecodable ==
    /\ outcome = "scanning" /\ steps < MaxInstructions
    /\ outcome' = "undecodable"
    /\ UNCHANGED <<esp, stack_variable, absolute_variable, steps, container>>

----------------------------------------------------------------------------
Above(map, o) == {p \in DOMAIN map : p > o}
Following(map, o) == CHOOSE p \in Above(map, o) : \A q \in Above(map, o) : p <= q
Magnitude(n) == IF n < 0 THEN -n ELSE n

(* Slips: the last variable gets its offset for a size, or keeps its own.   *)
StackSizeSigned(map, o) == IF Above(map, o) # {} THEN Following(map, o) - o ELSE -o
StackSizeLastKept(map, o) == IF Above(map, o) # {} THEN Following(map, o) - o ELSE map[o]

(* A variable reaches to the next one, the last one of the stack to EBP,   *)
(* as far as its offset is negative.                                       *)
StackSize(map, o) == IF Above(map, o) # {} THEN Following(map, o) - o ELSE Magnitude(o)
AbsoluteSize(map, o) == IF Above(map, o) # {} THEN Following(map, o) - o ELSE map[o]

(* A map is walked through from its smallest key, each time to the next.   *)
First(map) == CHOOSE p \in DOMAIN map : \A q \in DOMAIN map : p <= q
Sorted(map) ==
    LET Key[k \in 1 .. Cardinality(DOMAIN map)] ==
            IF k = 1 THEN First(map) ELSE Following(map, Key[k - 1])
    IN  Key

StackEntries ==
    LET S == Sorted(stack_variable)
    IN  [k \in 1 .. Len(S) |->
            [region |-> "stack", offset |-> S[k], size |-> StackSize(stack_variable, S[k])]]
AbsoluteEntries ==
    LET S == Sorted(absolute_variable)
    IN  [k \in 1 .. Len(S) |->
            [region |-> "absolute", offset |-> S[k], size |-> AbsoluteSize(absolute_variable, S[k])]]

(* Slip: the absolute variables come first.                                *)
EntriesAbsoluteFirst == AbsoluteEntries \o StackEntries

Entries == StackEntries \o AbsoluteEntries

(* getResult().  Without a stack variable, ptr-- steps back from the begin *)
(* of an empty map, which follows a null pointer in the library's tree.    *)
GetResult ==
    /\ outcome = "scanning"
    /\ IF DOMAIN stack_variable = {}
       THEN outcome' = "dead" /\ UNCHANGED container
       ELSE outcome' = "found" /\ container' = Entries
    /\ UNCHANGED <<esp, stack_variable, absolute_variable, steps>>

RecoveryNext ==
    \/ \E i \in Code : Find(i) \/ TrackAssert(i)
    \/ Undecodable \/ GetResult

RecoverySpec == RecoveryInit /\ [][RecoveryNext]_recoveryVars

----------------------------------------------------------------------------
RecoveryTypeOK ==
    /\ esp \in Int /\ steps \in 0 .. MaxInstructions
    /\ \A m \in {stack_variable, absolute_variable} :
        DOMAIN m \subseteq Int /\ Range(m) \subseteq Nat
    /\ \A k \in DOMAIN container : container[k].size \in Nat
    /\ outcome \in {"scanning", "found", "undecodable", "assert", "dead"}

(* The bytes of a variable.                                                *)
Extent(v) == v.offset .. (v.offset + v.size - 1)

=============================================================================
