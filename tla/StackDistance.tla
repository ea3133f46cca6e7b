---------------------------- MODULE StackDistance ----------------------------
(***************************************************************************)
(* What class StackTrailer believes about ESP beside what the processor    *)
(* does to it.  The belief is the field ESP of class Register, used to     *)
(* turn [ESP + disp] into the offset from EBP by which stack variables are *)
(* found.                                                                  *)
(*                                                                         *)
(* Source: project/source/trailer.cpp, project/source/register.cpp; the    *)
(* processor is external.                                                  *)
(***************************************************************************)
EXTENDS Trailer

CONSTANTS
    Code,           \* the instructions a function may be made of
    MaxInstructions,\* bound on the instructions that are tracked
    Moves           \* by how many bytes an instruction that computes ESP may
                    \* move it away from EBP, or the callee of a CALL towards it

(* SP and BP are not written by themselves, and an ENTER is not nested.    *)
ASSUME CodeAssumption ==
    /\ \A i \in Code : \A o \in {i.dst, i.src} :
        /\ o.disp \in Int /\ o.size \in Nat
        /\ IsRegister(o) /\ o.reg \in {"ESP", "EBP"} => o.part = "E" /\ o.size = 32
    /\ MaxInstructions \in Nat
    /\ Moves \subseteq Int

VARIABLES
    esp,            \* Register::ESP
    frame,          \* whose frame EBP is: "own" or "caller"
    distance,       \* the processor's EBP - ESP, while the frame is the own
    pushed,         \* how many operands are pushed since the frame was set up
    slack,          \* by how much ESP was moved since then in ways that
                    \* trackESP() has no eye for
    steps           \* how many instructions were tracked

vars == <<esp, frame, distance, pushed, slack, steps>>

Init ==
    /\ esp = UNKNOWN
    /\ frame = "caller" /\ distance = 0 /\ pushed = 0 /\ slack = 0
    /\ steps = 0

(* trackESP(i) returns true and the analysis goes on.                      *)
Track(i) ==
    /\ steps < MaxInstructions
    /\ ~TrackFails(i)
    /\ esp' = TrackESP(esp, i)
    /\ steps' = steps + 1

----------------------------------------------------------------------------
(* The processor's side of a tracked instruction.                          *)

(* Both registers of an XCHG or XADD are written; these classes only read  *)
(* their first operand.                                                    *)
Writes(i, r) ==
    \/ IsReg(i.dst, r) /\ i.op \notin {"CMP", "TEST", "BT", "PUSH", "CALL", "JMP"}
    \/ IsReg(i.src, r) /\ i.op \in {"XCHG", "XADD"}

FrameAfter(i) == IF Writes(i, "EBP") \/ i.op = "POPA" THEN "caller" ELSE frame

(* How far an instruction without a case in trackESP() may move ESP: AND,  *)
(* LEA and whatever else computes it, pushes and pops that are no PUSH or  *)
(* POP, and a CALL, whose callee may pop its arguments.                    *)
UnseenMoves(i) ==
    CASE i.op = "PUSHF" -> {4}
      [] i.op = "POPF" -> {-4}
      [] i.op = "PUSHA" -> {32}
      [] i.op = "POPA" -> {-32}
      [] i.op = "CALL" -> {0} \cup {n \in Moves : n < 0}
      [] OTHER -> IF Writes(i, "ESP") THEN Moves ELSE {0}

(* An ENTER reserves what it is told to.                                   *)
SetFrame(i) ==
    /\ SetsESP(i) /\ i.op # "LEAVE"
    /\ Track(i)
    /\ frame' = "own" /\ pushed' = 0
    /\ distance' = IF i.op = "ENTER" THEN i.src.disp ELSE 0
    /\ slack' = distance'

(* LEAVE pops the EBP of the caller, and a RET returns to it.              *)
DropFrame(i) ==
    /\ i.op \in {"LEAVE", "RET"}
    /\ Track(i)
    /\ frame' = "caller" /\ distance' = 0 /\ pushed' = 0 /\ slack' = 0

Reserves(i) == i.op \in {"ADD", "SUB"} /\ IsReg(i.dst, "ESP")

Reserve(i) ==
    /\ Reserves(i)
    /\ Track(i)
    /\ distance' = distance + (IF i.op = "SUB" THEN i.src.disp ELSE -i.src.disp)
    /\ UNCHANGED <<frame, pushed, slack>>

(* A 16 bit operand takes two bytes.                                       *)
Word(o) == IF o.size = 16 THEN 2 ELSE 4

Push(i) ==
    /\ i.op = "PUSH"
    /\ Track(i)
    /\ distance' = distance + Word(i.dst)
    /\ pushed' = pushed + 1
    /\ slack' = slack + Word(i.dst) - 4
    /\ UNCHANGED frame

(* POP EBP leaves the frame, too, and POP ESP sets ESP to what it pops.    *)
Pop(i) ==
    /\ i.op = "POP"
    /\ Track(i)
    /\ \E n \in UnseenMoves(i) :
        /\ distance' = distance - Word(i.dst) + n
        /\ slack' = slack - Word(i.dst) + 4 + n
    /\ pushed' = pushed - 1
    /\ frame' = FrameAfter(i)

Other(i) ==
    /\ ~SetsESP(i) /\ ~Reserves(i) /\ i.op \notin {"PUSH", "POP", "RET"}
    /\ Track(i)
    /\ \E n \in UnseenMoves(i) : distance' = distance + n /\ slack' = slack + n
    /\ frame' = FrameAfter(i)
    /\ UNCHANGED pushed

Step(i) == SetFrame(i) \/ DropFrame(i) \/ Reserve(i) \/ Push(i) \/ Pop(i) \/ Other(i)

Next == \E i \in Code : Step(i)

Spec == Init /\ [][Next]_vars

----------------------------------------------------------------------------
(* Properties.                                                             *)

(* Inside a frame, over any sequence of instructions, the belief is wrong  *)
(* by three bytes for every operand that is pushed and by what moves ESP   *)
(* past trackESP(), such as the AND that aligns it, and by nothing else:   *)
(* a push and its pop cancel out, and a new frame starts from no error,    *)
(* but for what an ENTER reserves.                                         *)
DriftIsPushes ==
    frame = "own" => esp = UNKNOWN \/ distance = esp + 3 * pushed + slack

(* "So the value of ESP here is the distance between ESP and EBP."         *)
(* (register.h:68)                                                         *)
BeliefIsDistance == frame = "own" => esp = distance

=============================================================================
