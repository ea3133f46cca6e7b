--------------------------- MODULE MCStackDistance ---------------------------
(* Instances of StackDistance: the classes of instruction trackESP() has a *)
(* case for.                                                               *)
EXTENDS StackDistance

ESP == Reg("ESP", "E", 32)
EBP == Reg("EBP", "E", 32)
EAX == Reg("EAX", "E", 32)

MCCode == {
    Instr("MOV", EBP, ESP), Instr("LEAVE", NoOperand, NoOperand),
    Instr("SUB", ESP, Imm(8)), Instr("ADD", ESP, Imm(8)), Instr("ADD", ESP, Imm(4)),
    Instr("PUSH", EAX, NoOperand), Instr("POP", EAX, NoOperand),
    Instr("POP", EBP, NoOperand), Instr("MOV", ESP, EBP), Instr("MOV", EAX, Imm(1))}

=============================================================================
