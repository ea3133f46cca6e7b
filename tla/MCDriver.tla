------------------------------- MODULE MCDriver -------------------------------
(* Instances of Driver: functions that set their frame up first.  The      *)
(* longest ones end in a RET or in a load through ESP.                     *)
EXTENDS Driver

ESP == Reg("ESP", "E", 32)
EBP == Reg("EBP", "E", 32)
EAX == Reg("EAX", "E", 32)

SetUp == Instr("MOV", EBP, ESP)
Load == Instr("MOV", EAX, Mem("ESP", 0, 32))

MCBodies == {
    SetUp, Instr("PUSH", EAX, NoOperand), Instr("LEAVE", NoOperand, NoOperand),
    Instr("MOV", Mem("EBP", -4, 32), EAX), Load}

MCInit ==
    /\ MainInit
    /\ body[0] = SetUp
    /\ \A a \in DOMAIN code : a > 0 => body[a] # SetUp
    /\ Length = MaxLength =>
        /\ \A a \in DOMAIN code : code[a].op # "bad"
        /\ code[Length - 1].op = "ret" \/ body[Length - 1] = Load

MCSpec == MCInit /\ [][MainNext]_mainVars

=============================================================================
