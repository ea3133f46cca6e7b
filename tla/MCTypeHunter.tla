----------------------------- MODULE MCTypeHunter -----------------------------
(* Instances of TypeHunter: functions of a few shapes, "p" being any of    *)
(* MCBodies.                                                               *)
EXTENDS TypeHunter

EAX == Reg("EAX", "E", 32)
ESI == Reg("ESI", "E", 32)

MCBodies == {
    Instr("MOV", ESI, Mem("EBP", -4, 32)), Instr("MOV", EAX, Imm(1)),
    Instr("MOV", ESI, EAX), Instr("XOR", ESI, ESI),
    Instr("ADD", EAX, ESI), Instr("CMP", ESI, Imm(0))}
MCStackOffsets == {-4}

p == [op |-> "plain", target |-> 0]
ret == [op |-> "ret", target |-> 0]
jmp(t) == [op |-> "jmp", target |-> t]
jcc(t) == [op |-> "jcc", target |-> t]

Shapes == {
    \* if - else, then if without else, then a RET
    <<p, jcc(4), p, jmp(5), p, jcc(7), p, ret>>,
    \* three branches join
    <<jcc(4), jcc(5), p, jmp(8), jcc(7), p, jmp(8), p, p>>,
    \* what one merge made is merged with another branch
    <<jcc(6), jcc(4), p, jmp(5), p, jmp(9), p, jmp(8), p, jmp(9), p>>,
    \* a loop with an if - else inside
    <<p, jcc(4), p, jmp(5), p, jcc(1), p>>,
    \* a jump out of dead code
    <<p, jmp(3), p, p>>}

MCInit ==
    /\ \E shape \in Shapes : code = [a \in 0 .. (Len(shape) - 1) |-> shape[a + 1]]
    /\ HunterInit

MCSpec == MCInit /\ [][HunterNext]_hunterVars

=============================================================================
