------------------------------ MODULE Registers ------------------------------
(***************************************************************************)
(* The register file of class Register: which variable each register of    *)
(* the machine holds.  EAX and AX share one slot; AH and AL have their own.*)
(*                                                                         *)
(* Source: project/source/register.cpp, project/include/register.h.        *)
(*                                                                         *)
(* The slot <<q, "E">> is the whole register q; <<q, "H">> and <<q, "L">>  *)
(* are its two low bytes.                                                  *)
(***************************************************************************)
EXTENDS Variables

CONSTANTS
    Quads,          \* the registers with named bytes: EAX, EBX, ECX, EDX
    Singles         \* the ones without: ESI, EDI

ASSUME RegistersAssumption == Quads \cap Singles = {}

Slots == (Quads \X {"E", "H", "L"}) \cup (Singles \X {"E"})

(* Register::Register(): nothing is held.                                  *)
NoVariables == [s \in Slots |-> NULL]

(* Slip: setting a byte leaves the whole register as it was.               *)
SetRegisterByteOnly(R, s, v) ==
    [t \in Slots |-> IF t[1] = s[1] /\ (s[2] = "E" \/ t = s) THEN v ELSE R[t]]

(* setRegister(): setting a whole register sets its bytes too; setting a   *)
(* byte invalidates the whole register and leaves the other byte alone.    *)
SetRegister(R, s, v) ==
    [t \in Slots |->
        IF t[1] # s[1] THEN R[t]
        ELSE IF s[2] = "E" \/ t = s THEN v
        ELSE IF t[2] = "E" THEN NULL ELSE R[t]]

(* Whenever a whole register holds a variable, so do its bytes.            *)
HalvesAgreeIn(R) ==
    \A q \in Quads :
        R[<<q, "E">>] # NULL =>
            R[<<q, "H">>] = R[<<q, "E">>] /\ R[<<q, "L">>] = R[<<q, "E">>]

=============================================================================
