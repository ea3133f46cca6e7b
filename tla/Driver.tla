-------------------------------- MODULE Driver --------------------------------
(***************************************************************************)
(* main(): the variables of a function are recovered from its code in the  *)
(* order of the addresses (VariableRecovery), then the same code is taken  *)
(* block by block in the order of the control flow (FunctionAnalysis), and *)
(* the variables are looked up at the offsets the second pass computes.    *)
(*                                                                         *)
(* Source: project/source/main.cpp, typeinfer.cpp, tracker.cpp.            *)
(*                                                                         *)
(* Both passes follow ESP, the first one over all instructions in a row,   *)
(* the second one from the end of a block to the start of those behind it. *)
(* Of the analysis of a block only ESP and the lookups are kept.           *)
(***************************************************************************)
EXTENDS FunctionAnalysis, Trailer

CONSTANT Bodies         \* what an instruction that is no jump or RET may be

ASSUME BodiesAssumption ==
    /\ Outside = 0
    /\ \A i \in Bodies : ~TrackFails(i) /\ i.dst.disp \in Int /\ i.src.disp \in Int

VARIABLES
    body,                   \* the instruction at each address
    scanEsp, stack_variable, absolute_variable, steps, container, outcome,
    blockEsp,               \* the ESP at the end of each analysed block
    missed                  \* the addresses where a stack variable was not found

Recovery == INSTANCE VariableRecovery
            WITH esp <- scanEsp, Code <- Bodies, MaxInstructions <- MaxLength

scanVars == <<scanEsp, stack_variable, absolute_variable, steps, container, outcome>>
mainVars == <<allVars, body, scanVars, blockEsp, missed>>

(* A jump moves no ESP and, like a RET, has no access that counts.         *)
Jump == Instr("JMP", NoOperand, NoOperand)
Plain == {a \in DOMAIN code : code[a].op = "plain"}

MainInit ==
    /\ Init
    /\ \E f \in [Plain -> Bodies] :
        body = [a \in DOMAIN code |-> IF a \in Plain THEN f[a] ELSE Jump]
    /\ Recovery!RecoveryInit
    /\ blockEsp = [b \in {} |-> 0]
    /\ missed = {}

----------------------------------------------------------------------------
(* VariableRecovery() goes over the code once.                             *)
Recover ==
    /\ \/ steps < Length /\ code[steps].op # "bad" /\ Recovery!Find(body[steps])
       \/ steps < Length /\ code[steps].op = "bad" /\ Recovery!Undecodable
       \/ steps = Length /\ Recovery!GetResult
    /\ UNCHANGED <<allVars, body, blockEsp, missed>>

(* main() does not look at what VariableRecovery() returned: undecodable   *)
(* code is analysed without variables.                                     *)
Recovered == outcome \in {"found", "undecodable"}

Prepare ==
    /\ Recovered
    /\ BuildGraph \/ StartOrder
    /\ UNCHANGED <<body, scanVars, blockEsp, missed>>

OrderStep ==
    /\ UNCHANGED <<cfgVars, body, scanVars, blockEsp, missed>>
    /\ Order!Pop \/ Order!Reach \/ Order!Skip \/ Order!CalcDone
       \/ Order!Deepen \/ Order!Finish

----------------------------------------------------------------------------
(* Slip: a block starts where nothing is known of ESP.                     *)
EntryEspUnknown(b) == UNKNOWN

(* mergeBranch(): ESP is copied from the first father that is merged.      *)
EntryEsp(b) ==
    LET fathers == Order!Merged(b)
    IN  IF fathers = {} THEN UNKNOWN
        ELSE blockEsp[CHOOSE f \in fathers : \A g \in fathers : f <= g]

(* Slip: the last instruction of a block is left out.                      *)
DecodedShort(b) == {a \in StartAddr(b) .. (EndAddr(b) - 2) :
                    \A c \in StartAddr(b) .. a : code[c].op # "bad"}

(* inferType(): the ESP before each address of the block and after the     *)
(* last one; decoding stops the block early.                               *)
Decoded(b) == {a \in StartAddr(b) .. (EndAddr(b) - 1) :
                \A c \in StartAddr(b) .. a : code[c].op # "bad"}
EspIn(b) ==
    LET first == StartAddr(b)
        E[a \in first .. (first + Cardinality(Decoded(b)))] ==
            IF a = first THEN EntryEsp(b) ELSE TrackESP(E[a - 1], body[a - 1])
    IN  E

(* getMemoryVariable() for the operands that are looked up: those of the   *)
(* instructions with two operands, not that of a CALL or an implicit one.  *)
LooksUp(i) == i.op \notin Recovery!StackClasses /\ Recovery!OnStack(Recovery!Access(i))
Finds(o, e) ==
    \E k \in DOMAIN container :
        container[k].region = "stack" /\ container[k].offset = Recovery!StackOffset(o, e)

AnalyseBlock ==
    /\ UNCHANGED <<cfgVars, body, scanVars>>
    /\ \E b \in 0 .. (blockNum - 1) :
        /\ Order!Analyse(b)
        /\ IF halt' # "none" THEN UNCHANGED <<blockEsp, missed>>
           ELSE LET E == EspIn(b)
                    end == StartAddr(b) + Cardinality(Decoded(b))
                IN  /\ blockEsp' = [c \in DOMAIN blockEsp \cup {b} |->
                                        IF c = b THEN E[end] ELSE blockEsp[c]]
                    /\ missed' = missed \cup
                        {a \in Decoded(b) : LooksUp(body[a])
                                            /\ ~Finds(Recovery!Access(body[a]), E[a])}

MainNext == Recover \/ Prepare \/ OrderStep \/ AnalyseBlock

MainSpec == MainInit /\ [][MainNext]_mainVars

----------------------------------------------------------------------------
(* Reference: what ESP can be at each address when control gets there in   *)
(* at most as many steps as the function has instructions.                 *)
PathEsps ==
    LET Within[k \in 0 .. Length] ==
            IF k = 0 THEN {<<0, UNKNOWN>>}
            ELSE LET before == Within[k - 1]
                 IN  before \cup
                        UNION {{<<t, TrackESP(p[2], body[p[1]])>> : t \in Successors(p[1])} :
                                p \in {p \in before : p[1] \in DOMAIN code}}
    IN  Within[Length]

(* Reference: what ESP is at each address in a walk over all addresses.    *)
LinearEsp ==
    LET E[a \in 0 .. Length] == IF a = 0 THEN UNKNOWN ELSE TrackESP(E[a - 1], body[a - 1])
    IN  E

(* Dead code behind a jump lies in the block of the jump: it moves ESP     *)
(* there, and a dead jump is a way out of the block.                       *)
AllLive == DOMAIN code \subseteq Live

(* In a function without dead code, a block begins with an ESP that it     *)
(* really has on some path from the entry: the first father's ESP was      *)
(* computed from that of its own first father, and so on, before it was    *)
(* needed, whatever loops there are and wherever the blocks lie.           *)
EspOfSomePath ==
    complete /\ AllUnderstood /\ AllLive =>
        \A b \in DOMAIN blockEsp : <<StartAddr(b), EntryEsp(b)>> \in PathEsps

(* The two passes meet: if, without dead code, no path makes ESP differ    *)
(* from what it is in the order of the addresses, every stack variable the *)
(* second pass looks up is one the first pass found at that very offset.   *)
LookupsFind ==
    complete /\ AllUnderstood /\ AllLive /\ (\A p \in PathEsps : p[2] = LinearEsp[p[1]]) => missed = {}

=============================================================================
