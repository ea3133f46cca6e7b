--------------------------- MODULE MCConstraintGen ---------------------------
(* Instances of ConstraintGen: two registers with bytes and one without,   *)
(* two stack variables and an absolute one, and the instructions below,    *)
(* which between them take every branch of generateConstraint().           *)
EXTENDS ConstraintGen

MCStackOffsets == {-8, -4}
MCAbsoluteOffsets == {100}

EAX == Reg("EAX", "E", 32)
AX == Reg("EAX", "E", 16)
AL == Reg("EAX", "L", 8)
AH == Reg("EAX", "H", 8)
EDX == Reg("EDX", "E", 32)
ESI == Reg("ESI", "E", 32)
SI == Reg("ESI", "E", 16)
ESP == Reg("ESP", "E", 32)
EBP == Reg("EBP", "E", 32)
Local == Mem("EBP", -4, 32)

Moves == {
    Instr("MOV", EAX, Imm(1)), Instr("MOV", AL, Imm(1)), Instr("MOV", EDX, EAX), Instr("MOV", EDX, Imm(1)),
    Instr("MOV", EAX, Local), Instr("MOV", Local, EDX), Instr("MOV", Local, Imm(1)),
    Instr("MOV", ESI, Mem("EDX", 0, 32)), Instr("MOV", EAX, Mem("none", 100, 32)),
    Instr("MOV", EAX, MemIndexed("none", "ESI", 0, 32)),
    Instr("MOVZX", EAX, AL), Instr("MOVSX", EDX, Mem("EAX", 0, 8)),
    Instr("XOR", EAX, EAX), Instr("XOR", EAX, EDX)}

Calculations == {
    Instr("ADD", EAX, EDX), Instr("ADD", AL, AH), Instr("ADD", EAX, Mem("ESI", 4, 32)),
    Instr("ADD", Local, Imm(1)), Instr("SUB", EAX, Imm(1)), Instr("SUB", EDX, EAX),
    Instr("CMP", EAX, Local), Instr("CMP", SI, AX), Instr("INC", EAX, NoOperand),
    Instr("DEC", Mem("EAX", 0, 32), NoOperand), Instr("NEG", AL, NoOperand),
    Instr("SHL", EAX, Imm(1)), Instr("SHR", Local, Imm(1)),
    Instr("LEA", EAX, Local), Instr("LEA", EDX, MemIndexed("EAX", "ESI", 0, 32)),
    Instr("LEA", EAX, Mem("EDX", 8, 32)),
    Instr("DIV", EDX, EAX), Instr("IDIV", AL, AX),
    SetCC("L", AL), SetCC("NLE", AL), SetCC("B", Mem("EBP", -8, 8))}

Frames == {
    Instr("MOV", EBP, ESP), Instr("SUB", ESP, Imm(8)), Instr("PUSH", EAX, NoOperand),
    Instr("MOV", EDX, Mem("ESP", 0, 32)), Instr("MOV", ESP, EBP),
    Instr("POP", EDX, NoOperand), Instr("CALL", NoOperand, NoOperand)}

MCCode == Moves \cup Calculations \cup Frames

=============================================================================
