---------------------------- MODULE ConstraintGen ----------------------------
(***************************************************************************)
(* The analysis of the instructions of a basic block, in order:            *)
(* TypeHunter::assignConstraint() tracks ESP, and generateConstraint()     *)
(* with class Tracker moves variables between registers, creates temporary *)
(* variables and adds constraints to typeContainer.                        *)
(*                                                                         *)
(* Source: project/source/typemgr.cpp, tracker.cpp, register.cpp,          *)
(* typeinfer.cpp (inferType).                                              *)
(*                                                                         *)
(* typeContainer is only ever appended to and never read here, so the      *)
(* state keeps what the last instruction appended.  Sizes of variables are *)
(* left out; sizes of operands, which select a constraint, are kept.       *)
(***************************************************************************)
EXTENDS Registers, Trailer, Extract, FiniteSets

CONSTANTS
    StackOffsets,       \* offsets of the stack variables that were found
    AbsoluteOffsets,    \* addresses of the absolute variables
    Code,               \* the instructions a block may be made of
    MaxInstructions     \* bound on the length of the block

ASSUME TrackerAssumption ==
    /\ {"EAX", "EDX"} \subseteq Quads
    /\ StackOffsets \subseteq Int /\ IsFiniteSet(StackOffsets)
    /\ AbsoluteOffsets \subseteq Int /\ IsFiniteSet(AbsoluteOffsets)
    /\ MaxInstructions \in Nat

(* Operands as XED decodes those of 32 bit code: the sizes are the ones the *)
(* analysis knows, the part of a register is one that has a slot, an       *)
(* address is based on a register or on nothing; at most one operand is in *)
(* memory; an LEA has an address, a division a dividend in a register, and *)
(* LEA, MOVZX and MOVSX write a register.                                  *)
ASSUME OperandAssumption ==
    \A i \in Code :
        /\ \A o \in {i.dst, i.src} :
            /\ o.disp \in Int /\ o.size \in {0, 8, 16, 32}
            /\ o.reg \in Quads => o.part \in {"E", "H", "L"}
            /\ o.reg \in Singles => o.part = "E"
            /\ o.kind = "mem" => o.reg \in Quads \cup Singles \cup {"ESP", "EBP", "none"}
        /\ ~(IsMemory(i.dst) /\ IsMemory(i.src))
        /\ i.op = "LEA" => IsMemory(i.src)
        /\ i.op \in {"LEA", "MOVZX", "MOVSX"} => IsRegister(i.dst)
        /\ i.op \in {"DIV", "IDIV"} => IsRegister(i.src)

VARIABLES
    reg,            \* the variable each register slot holds
    esp,            \* Register::ESP
    flag,           \* Register::flagInfo
    varIndex,       \* Tracker::varIndex, the next id
    emitted,        \* what the last instruction added to typeContainer
    current,        \* how many instructions inferType() has handled
    halt            \* "no", or how the process died: "assert" or "null"

vars == <<reg, esp, flag, varIndex, emitted, current, halt>>

----------------------------------------------------------------------------
(* Tracker::Tracker(): ids from 7 on, in the order VariableHunter numbers  *)
(* the variables, then a gap of 20 before the first temporary one.         *)
StackId(d) == 7 + Cardinality({o \in StackOffsets : o < d})
AbsoluteId(d) ==
    7 + Cardinality(StackOffsets) + Cardinality({o \in AbsoluteOffsets : o < d})
FirstTemporary == 27 + Cardinality(StackOffsets) + Cardinality(AbsoluteOffsets)

NoFlag == [size |-> 0, var1 |-> NULL, var2 |-> NULL, result |-> NULL]
Flag(size, v1, v2, r) == [size |-> size, var1 |-> v1, var2 |-> v2, result |-> r]

(* The id of a result object that setTempVariable() has not registered.    *)
Unregistered == 0

(* Slip: the id is taken after varIndex has moved on.                      *)
NewIdLate(n) == varIndex + n

(* setTempVariable(): the id the n-th temporary of an instruction gets.    *)
NewId(n) == varIndex + n - 1

----------------------------------------------------------------------------
(* What an operand gives: the variable, how many temporaries it took to    *)
(* name it, and the constraints that added.  getMemoryVariable() looks a   *)
(* stack or absolute variable up; pointerInfer() makes a temporary for     *)
(* what another base register points to, if that register holds something. *)
Lookup(v) == [var |-> v, temps |-> 0, out |-> <<>>]

(* Slip: the temporary does not count.                                     *)
PointeeNotCounted(p) ==
    IF p = NULL THEN Lookup(NULL)
    ELSE [var |-> NewId(1), temps |-> 0, out |-> <<ConstraintLEA(NewId(1), p)>>]

Pointee(p) ==
    IF p = NULL THEN Lookup(NULL)
    ELSE [var |-> NewId(1), temps |-> 1, out |-> <<ConstraintLEA(NewId(1), p)>>]

MemoryVariable(o) ==
    LET offset == IF o.reg = "ESP" THEN o.disp - esp ELSE o.disp
    IN  CASE o.reg \in {"ESP", "EBP"} ->
                Lookup(IF offset \in StackOffsets THEN StackId(offset) ELSE NULL)
          [] o.reg = "none" /\ o.index = "none" ->
                Lookup(IF o.disp \in AbsoluteOffsets THEN AbsoluteId(o.disp) ELSE NULL)
          [] OTHER -> Pointee(reg[<<o.reg, "E">>])

Value(o) ==
    CASE o.kind = "reg" -> Lookup(reg[Slot(o)])
      [] o.kind = "mem" -> MemoryVariable(o)
      [] OTHER -> Lookup(NULL)

(* Both operands of a two operand instruction are known; an immediate one  *)
(* always is.  At most one of the two is a memory operand.                 *)
BothKnown(i) ==
    /\ Value(i.dst).var # NULL
    /\ IsImmediate(i.src) \/ Value(i.src).var # NULL

(* RegisterOperandSize() of the register operand, else MemoryOperandSize().*)
OperandSize(i) == IF IsMemory(i.dst) /\ IsRegister(i.src) THEN i.src.size ELSE i.dst.size

----------------------------------------------------------------------------
TwoOperand == {"ADD", "SUB", "CMP"}
Shifts == {"NEG", "NOT", "SHL", "SAR", "SHR"}
OneOperand == {"INC", "DEC"} \cup Shifts

(* The address an LEA computes: a register, or the sum of two.             *)
Base(o) == reg[<<o.reg, "E">>]
Index(o) == IF o.index = "none" THEN NULL ELSE reg[<<o.index, "E">>]
AddressKnown(o) == Base(o) # NULL /\ (o.index = "none" \/ Index(o) # NULL)

(* The condition says whether the compared operands are signed; SETNLE is  *)
(* missing from the list of the signed ones.                               *)
Unsigned(cond) == cond \in {"B", "BE", "NB", "NBE"}
Signed(cond) == cond \in {"L", "LE", "NL", "NS", "S"}
Telling(i) == i.op = "SET" /\ (Unsigned(i.cond) \/ Signed(i.cond))

----------------------------------------------------------------------------
(* The ASSERTs and the null pointer an instruction can run into.           *)

(* getRegister() and setRegister() know no ESP, EBP, SI, DI or segment     *)
(* register; pointerInfer() asks for the base even if there is only an     *)
(* index.                                                                  *)
Supported(r, size) == r \in Quads \/ (r \in Singles /\ size = 32)
Unsupported(o) ==
    \/ IsRegister(o) /\ ~Supported(o.reg, o.size)
    \/ IsMemory(o) /\ o.reg = "none" /\ o.index # "none"

(* The operands that are looked up, or set, whatever the others hold.      *)
Visited(i) ==
    {o \in {i.dst} : \/ i.op \in OneOperand \cup TwoOperand \cup {"SET", "DIV", "IDIV"}
                     \/ i.op = "MOV" /\ ~(IsMemory(i.dst) /\ IsImmediate(i.src))
                     \/ i.op = "XOR" /\ i.dst = i.src}
    \cup
    {o \in {i.src} : \/ i.op \in TwoOperand \cup {"MOVZX", "MOVSX", "DIV", "IDIV"}
                     \/ i.op = "MOV" /\ ~(IsMemory(i.dst) /\ IsImmediate(i.src))}

(* LEA asserts that there is a base, and looks an index register up.  With *)
(* ESP or EBP as the base it asks getMemoryVariable(), which asserts that  *)
(* the instruction accesses memory: an LEA does not.                       *)
OnFrame(o) == o.reg \in {"ESP", "EBP"}
AddressFails(o) ==
    \/ o.reg = "none" \/ OnFrame(o)
    \/ o.index # "none" /\ ~Supported(o.index, 32)

(* IntType() of no size, or ConditionFeedback() without a first operand.   *)
FeedbackAssert(i) == Telling(i) /\ (flag.size = 0 \/ flag.var1 = NULL)

AssertFails(i) ==
    \/ TrackFails(i)
    \/ /\ ~UsesFrame(i)
       /\ \/ \E o \in Visited(i) : Unsupported(o)
          \/ /\ i.op \in {"MOVZX", "MOVSX"}
             /\ Unsupported(i.dst) /\ Value(i.src).var # NULL
          \/ /\ i.op = "LEA"
             /\ AddressFails(i.src) \/ (Unsupported(i.dst) /\ AddressKnown(i.src))
          \/ FeedbackAssert(i)

(* ConstraintSHIFT() looks at calcResult -> id before it tests the pointer.*)
NullResult(i) ==
    /\ i.op \in Shifts /\ ~UsesFrame(i)
    /\ IsMemory(i.dst) /\ ~Unsupported(i.dst) /\ Value(i.dst).var # NULL

----------------------------------------------------------------------------
Init ==
    /\ reg = NoVariables
    /\ esp = UNKNOWN
    /\ flag = NoFlag
    /\ varIndex = FirstTemporary
    /\ emitted = <<>>
    /\ current = 0
    /\ halt = "no"

(* The common part of assignConstraint(i): the loop goes on, ESP is        *)
(* tracked, no ASSERT fails.                                               *)
Handle(i) ==
    /\ halt = "no" /\ current < MaxInstructions
    /\ ~AssertFails(i) /\ ~NullResult(i)
    /\ esp' = TrackESP(esp, i)
    /\ current' = current + 1
    /\ UNCHANGED halt

(* An instruction that changes neither a register slot nor the flags, and  *)
(* adds nothing: one on ESP or EBP, a MOV of an immediate to memory, and   *)
(* every class without a case, whatever it does to its operands.           *)
HasCase(i) ==
    \/ i.op \in TwoOperand \cup OneOperand
    \/ i.op \in {"MOVZX", "MOVSX", "SET", "LEA", "DIV", "IDIV", "CALL"}
    \/ i.op = "MOV" /\ ~(IsMemory(i.dst) /\ IsImmediate(i.src))
    \/ i.op = "XOR" /\ i.dst = i.src

Ignore(i) ==
    /\ Handle(i)
    /\ UsesFrame(i) \/ ~HasCase(i)
    /\ emitted' = <<>>
    /\ UNCHANGED <<reg, flag, varIndex>>

(* trackVariable(), MOV to a register: it holds what the source holds, a   *)
(* new temporary for an immediate.                                         *)
MoveToRegister(i) ==
    /\ i.op = "MOV" /\ IsRegister(i.dst) /\ ~UsesFrame(i)
    /\ Handle(i)
    /\ LET s == IF IsImmediate(i.src)
                THEN [var |-> NewId(1), temps |-> 1, out |-> <<>>] ELSE Value(i.src)
       IN  /\ reg' = SetRegister(reg, Slot(i.dst), s.var)
           /\ varIndex' = varIndex + s.temps
           /\ emitted' = s.out
    /\ UNCHANGED flag

(* trackVariable(), XOR of a register with itself: it holds nothing.       *)
ClearRegister(i) ==
    /\ i.op = "XOR" /\ i.dst = i.src /\ ~UsesFrame(i)
    /\ Handle(i)
    /\ reg' = SetRegister(reg, Slot(i.dst), NULL)
    /\ emitted' = <<>>
    /\ UNCHANGED <<flag, varIndex>>

(* MOV from a register to memory: the two variables have the same type.    *)
MoveToMemory(i) ==
    /\ i.op = "MOV" /\ IsMemory(i.dst) /\ IsRegister(i.src) /\ ~UsesFrame(i)
    /\ Handle(i)
    /\ LET d == Value(i.dst)
       IN  /\ varIndex' = varIndex + d.temps
           /\ emitted' = d.out \o
                (IF BothKnown(i) THEN <<ConstraintMOV(d.var, Value(i.src).var)>> ELSE <<>>)
    /\ UNCHANGED <<reg, flag>>

(* MOVZX, MOVSX: a new temporary if the source is known; otherwise the     *)
(* destination keeps what it held.                                         *)
Extend(i) ==
    /\ i.op \in {"MOVZX", "MOVSX"} /\ ~UsesFrame(i)
    /\ Handle(i)
    /\ LET s == Value(i.src)
           result == NewId(s.temps + 1)
           signed == i.op = "MOVSX"
       IN  IF s.var = NULL
           THEN UNCHANGED <<reg, varIndex>> /\ emitted' = <<>>
           ELSE /\ reg' = SetRegister(reg, Slot(i.dst), result)
                /\ varIndex' = varIndex + s.temps + 1
                /\ emitted' = s.out \o <<ConstraintMOVX(Int_(i.dst.size, signed),
                                            Int_(i.src.size, signed), result, s.var)>>
    /\ UNCHANGED flag

(* ADD, SUB: a register destination gets a new temporary if both operands  *)
(* are known; the flags are set in any case, with the result object even   *)
(* if it was not registered.                                               *)
AddSub(i) ==
    /\ i.op \in {"ADD", "SUB"} /\ ~UsesFrame(i)
    /\ Handle(i)
    /\ LET d == Value(i.dst)
           s == Value(i.src)
           temps == d.temps + s.temps
           registers == IsRegister(i.dst) /\ BothKnown(i)
           result == IF IsMemory(i.dst) THEN NULL
                     ELSE IF registers THEN NewId(temps + 1) ELSE Unregistered
           size == OperandSize(i)
           Q == IF i.op = "ADD" THEN ConstraintADD(Num(size), d.var, s.var, result)
                                ELSE ConstraintSUB(Num(size), d.var, s.var, result)
       IN  /\ reg' = IF registers THEN SetRegister(reg, Slot(i.dst), result) ELSE reg
           /\ varIndex' = varIndex + temps + (IF registers THEN 1 ELSE 0)
           /\ emitted' = d.out \o s.out \o (IF BothKnown(i) THEN <<Q>> ELSE <<>>)
           /\ flag' = Flag(size, d.var, s.var, result)

(* CMP: no result.                                                         *)
Compare(i) ==
    /\ i.op = "CMP" /\ ~UsesFrame(i)
    /\ Handle(i)
    /\ LET d == Value(i.dst)
           s == Value(i.src)
       IN  /\ varIndex' = varIndex + d.temps + s.temps
           /\ emitted' = d.out \o s.out \o
                (IF BothKnown(i)
                 THEN <<ConstraintCMP(Num(OperandSize(i)), d.var, s.var)>> ELSE <<>>)
           /\ flag' = Flag(OperandSize(i), d.var, s.var, NULL)
    /\ UNCHANGED reg

(* INC, DEC: no result, the register goes on holding the same variable.    *)
IncDec(i) ==
    /\ i.op \in {"INC", "DEC"} /\ ~UsesFrame(i)
    /\ Handle(i)
    /\ LET d == Value(i.dst)
       IN  /\ varIndex' = varIndex + d.temps
           /\ emitted' = d.out \o
                (IF d.var # NULL THEN <<ConstraintDEC_INC(Num(i.dst.size), d.var)>> ELSE <<>>)
           /\ flag' = Flag(i.dst.size, d.var, NULL, NULL)
    /\ UNCHANGED reg

ShiftType(i) ==
    CASE i.op \in {"NEG", "SAR"} -> Int_(i.dst.size, TRUE)
      [] i.op \in {"NOT", "SHR"} -> Int_(i.dst.size, FALSE)
      [] OTHER -> Num(i.dst.size)

(* NEG, NOT, rotations and shifts.  A known memory operand does not get    *)
(* here (NullResult).                                                      *)
Shift(i) ==
    /\ i.op \in Shifts /\ ~UsesFrame(i)
    /\ Handle(i)
    /\ LET d == Value(i.dst)
           registers == IsRegister(i.dst) /\ d.var # NULL
           result == IF IsMemory(i.dst) THEN NULL
                     ELSE IF registers THEN NewId(1) ELSE Unregistered
       IN  /\ reg' = IF registers THEN SetRegister(reg, Slot(i.dst), result) ELSE reg
           /\ varIndex' = varIndex + (IF registers THEN 1 ELSE 0)
           /\ emitted' = IF registers
                         THEN <<ConstraintSHIFT(ShiftType(i), d.var, result)>> ELSE <<>>
           /\ flag' = Flag(i.dst.size, d.var, NULL, result)

(* SETcc: the destination is a new number, and the condition says of what  *)
(* set the flags whether it is signed.                                     *)
SetOnCondition(i) ==
    /\ i.op = "SET" /\ ~UsesFrame(i)
    /\ Handle(i)
    /\ LET d == IF IsRegister(i.dst)
                THEN [var |-> NewId(1), temps |-> 1, out |-> <<>>] ELSE Value(i.dst)
       IN  /\ reg' = IF IsRegister(i.dst) THEN SetRegister(reg, Slot(i.dst), d.var) ELSE reg
           /\ varIndex' = varIndex + d.temps
           /\ emitted' = d.out
                \o (IF d.var # NULL THEN <<ConstraintSET(Num(i.dst.size), d.var)>> ELSE <<>>)
                \o (IF Telling(i)
                    THEN <<ConditionFeedback(Int_(flag.size, Signed(i.cond)),
                                             flag.var1, flag.var2, flag.result)>>
                    ELSE <<>>)
    /\ UNCHANGED flag

(* LEA: the destination is a number or a pointer, the sum of registers.    *)
LoadAddress(i) ==
    /\ i.op = "LEA" /\ ~UsesFrame(i)
    /\ Handle(i)
    /\ IF ~AddressKnown(i.src)
       THEN UNCHANGED <<reg, varIndex>> /\ emitted' = <<>>
       ELSE /\ reg' = SetRegister(reg, Slot(i.dst), NewId(1))
            /\ varIndex' = varIndex + 1
            /\ emitted' = <<ConstraintADD(Num(OperandSize(i)), Base(i.src),
                                          Index(i.src), NewId(1))>>
    /\ UNCHANGED flag

(* Where DIV leaves the quotient and the remainder.                        *)
QuotientSlot(size) == IF size = 8 THEN <<"EAX", "L">> ELSE <<"EAX", "E">>

(* Slip: the remainder of a byte division goes where the quotient is.      *)
RemainderSlotWhole(size) == IF size = 32 THEN <<"EDX", "E">> ELSE <<"EAX", "E">>
RemainderSlot(size) == IF size = 8 THEN <<"EAX", "H">> ELSE <<"EDX", "E">>

(* DIV, IDIV: i.src is the implicit dividend, EAX or AX; the quotient goes *)
(* to EAX, AX or AL and the remainder to EDX, DX or AH.                     *)
Divide(i) ==
    /\ i.op \in {"DIV", "IDIV"} /\ ~UsesFrame(i)
    /\ Handle(i)
    /\ LET dividend == Value(i.src)
           divisor == Value(i.dst)
           quotient == NewId(divisor.temps + 1)
           remainder == NewId(divisor.temps + 2)
       IN  IF BothKnown(i)
           THEN /\ reg' = SetRegister(SetRegister(reg, QuotientSlot(i.src.size), quotient),
                                     RemainderSlot(i.src.size), remainder)
                /\ varIndex' = varIndex + divisor.temps + 2
                /\ emitted' = divisor.out \o
                     <<ConstraintDIV(Int_(i.src.size, i.op = "IDIV"),
                                     dividend.var, divisor.var, quotient, remainder)>>
           ELSE /\ varIndex' = varIndex + divisor.temps
                /\ emitted' = divisor.out
                /\ UNCHANGED reg
    /\ UNCHANGED flag

(* CALL: EAX holds a new temporary, the returned value.                    *)
Call(i) ==
    /\ i.op = "CALL" /\ ~UsesFrame(i)
    /\ Handle(i)
    /\ reg' = SetRegister(reg, <<"EAX", "E">>, NewId(1))
    /\ varIndex' = varIndex + 1
    /\ emitted' = <<>>
    /\ UNCHANGED flag

(* An instruction the process does not survive; what it may have added to  *)
(* typeContainer before is lost.                                           *)
Abort(i) ==
    /\ halt = "no" /\ current < MaxInstructions
    /\ \/ AssertFails(i) /\ halt' = "assert"
       \/ ~AssertFails(i) /\ NullResult(i) /\ halt' = "null"
    /\ emitted' = <<>>
    /\ UNCHANGED <<reg, esp, flag, varIndex, current>>

Step(i) ==
    \/ Ignore(i) \/ MoveToRegister(i) \/ ClearRegister(i) \/ MoveToMemory(i)
    \/ Extend(i) \/ AddSub(i) \/ Compare(i) \/ IncDec(i) \/ Shift(i)
    \/ SetOnCondition(i) \/ LoadAddress(i) \/ Divide(i) \/ Call(i)
    \/ Abort(i)

Next == \E i \in Code : Step(i)

Spec == Init /\ [][Next]_vars

----------------------------------------------------------------------------
(* Properties.                                                             *)

MemoryIds == 7 .. 6 + Cardinality(StackOffsets) + Cardinality(AbsoluteOffsets)
Known == MemoryIds \cup (FirstTemporary .. varIndex - 1)

(* Registers and flags hold variables that have been numbered; only the    *)
(* result of the flags may be an object without a number.                  *)
GenTypeOK ==
    /\ reg \in [Slots -> Known \cup {NULL}]
    /\ esp \in Int
    /\ flag \in [size : {0, 8, 16, 32}, var1 : Known \cup {NULL}, var2 : Known \cup {NULL},
                 result : Known \cup {NULL, Unregistered}]
    /\ varIndex >= FirstTemporary
    /\ current \in 0 .. MaxInstructions
    /\ halt \in {"no", "assert", "null"}

(* A whole register that holds a variable holds it in both of its bytes,   *)
(* whatever mixture of whole and byte writes there was (setRegister()):    *)
(* what is read from AL after EAX was set is what EAX holds.               *)
HalvesAgree == HalvesAgreeIn(reg)

AllElements(Qs) == UNION {Elements(Qs[k]) : k \in 1 .. Len(Qs)}
MentionedIn(Qs) == UNION {Mentions(e) : e \in AllElements(Qs)}
InSlots(R) == {R[s] : s \in Slots}
Held(R, f) == InSlots(R) \cup {f.var1, f.var2, f.result}
FreshIds == varIndex .. varIndex' - 1

(* A step brings variables from nowhere but memory, what registers and     *)
(* flags held before it, and the temporaries it numbers: no constraint and *)
(* no register speaks of a variable of another instruction.                *)
NothingFromNowhere ==
    [][LET sources == MemoryIds \cup Held(reg, flag) \cup FreshIds
       IN  /\ Held(reg', flag') \subseteq sources \cup {NULL, Unregistered}
           /\ MentionedIn(emitted') \subseteq sources]_vars

(* The result of a calculation is a variable of its own: numbered by this  *)
(* very instruction, and none that a pointer of it points to.  SETcc tells *)
(* about the result of an earlier instruction.                             *)
FreshResults ==
    [][~(\E i \in Code : SetOnCondition(i)) =>
        \A e \in AllElements(emitted') : e.category = "result" =>
            /\ e.left \in FreshIds
            /\ \A p \in AllElements(emitted') : p.type.contain # e.left]_vars

(* Nothing a constraint is about gets lost: a variable an instruction      *)
(* numbers is held by a register when it ends, whatever the flags keep of  *)
(* it, or is what some pointer of its constraints points to.               *)
NumberedIsHeld ==
    [][\A v \in FreshIds :
        \/ v \in InSlots(reg')
        \/ \E e \in AllElements(emitted') : e.type.contain = v]_vars

(* "the result must be a pointer. we can also figure which variable it     *)
(* point to." (typemgr.cpp:788): the address of a stack variable, which is *)
(* how a function passes a local by reference, is a pointer to it.         *)
FrameAddressFound ==
    [][\A i \in Code : i.op = "LEA" /\ OnFrame(i.src) => ~Abort(i)]_vars

=============================================================================
