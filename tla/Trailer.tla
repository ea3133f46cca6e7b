------------------------------- MODULE Trailer -------------------------------
(***************************************************************************)
(* StackTrailer::trackESP(): what each instruction does to the distance    *)
(* between EBP and ESP that class Register keeps in its field ESP.         *)
(*                                                                         *)
(* Source: project/source/trailer.cpp, project/source/register.cpp.        *)
(***************************************************************************)
EXTENDS Instructions

(* 0xDEADBEEF as an int: the distance is not known.                        *)
UNKNOWN == -559038737

(* addESP() and, with a negative value, subESP().                          *)
AddESP(e, n) == IF e = UNKNOWN THEN e ELSE e + n

(* EBP and ESP are the same.                                               *)
SetsESP(i) ==
    i.op \in {"ENTER", "LEAVE"} \/ (i.op = "MOV" /\ IsReg(i.dst, "EBP") /\ IsReg(i.src, "ESP"))

(* Slip: a POP moves ESP like a PUSH.                                      *)
MovedPopGrows(i) ==
    IF i.op \in {"PUSH", "POP"} THEN 1
    ELSE IF i.op = "ADD" /\ IsReg(i.dst, "ESP") THEN -i.src.disp
    ELSE IF i.op = "SUB" /\ IsReg(i.dst, "ESP") THEN i.src.disp
    ELSE 0

(* By how much the distance grows: one for a PUSH, whatever it pushes.     *)
Moved(i) ==
    IF i.op = "PUSH" THEN 1
    ELSE IF i.op = "POP" THEN -1
    ELSE IF i.op = "ADD" /\ IsReg(i.dst, "ESP") THEN -i.src.disp
    ELSE IF i.op = "SUB" /\ IsReg(i.dst, "ESP") THEN i.src.disp
    ELSE 0

TrackESP(e, i) == IF SetsESP(i) THEN 0 ELSE AddESP(e, Moved(i))

(* trackESP() returns false, which its callers assert it never does.       *)
TrackFails(i) ==
    \/ i.op = "MOV" /\ IsReg(i.dst, "EBP") /\ ~IsReg(i.src, "ESP")
    \/ i.op = "MOV" /\ IsReg(i.dst, "ESP")
    \/ i.op \in {"ADD", "SUB"} /\ IsReg(i.dst, "ESP") /\ ~IsImmediate(i.src)

=============================================================================
