--------------------------- MODULE MCFrameRecovery ---------------------------
(* Instances of FrameRecovery: every class of instruction that moves ESP,  *)
(* and accesses through EBP, ESP, an absolute address and a register.      *)
EXTENDS FrameRecovery

ESP == Reg("ESP", "E", 32)
EBP == Reg("EBP", "E", 32)
EAX == Reg("EAX", "E", 32)

MCCode == {
    Instr("MOV", EBP, ESP), Instr("LEAVE", NoOperand, NoOperand),
    Instr("SUB", ESP, Imm(8)), Instr("PUSH", EAX, NoOperand),
    Instr("PUSH", Mem("EBP", 8, 16), NoOperand), Instr("POP", EBP, NoOperand),
    Instr("AND", ESP, Imm(-16)), Instr("PUSHF", NoOperand, NoOperand),
    Instr("MOV", ESP, EBP), Instr("CALL", NoOperand, NoOperand),
    Instr("MOV", Mem("EBP", -4, 32), EAX), Instr("MOVZX", EAX, Mem("EBP", 0, 8)),
    Instr("MOV", Mem("ESP", 0, 32), EAX), Instr("ADD", EAX, MemIndexed("ESP", "ECX", 4, 32)),
    Instr("MOV", EAX, Mem("none", 100, 32)), Instr("MOVZX", EAX, Mem("none", 98, 8)),
    Instr("LEA", EAX, Mem("EBP", -12, 32)),
    Instr("POP", EAX, NoOperand), Instr("ENTER", NoOperand, Imm(4)), Instr("ADD", ESP, Imm(4))}
MCMoves == {-8, 4}
MCIndices == {4}

(* The frame is set up by one of the first two instructions, or the        *)
(* function has no more than them.                                         *)
MCNext == FrameNext /\ (steps' > 2 => esp' # UNKNOWN)
MCSpec == FrameInit /\ [][MCNext]_frameVars

=============================================================================
