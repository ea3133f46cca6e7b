----------------------------- MODULE Instructions -----------------------------
(***************************************************************************)
(* The part of a decoded instruction the analysis looks at, through the    *)
(* helpers of utility.cpp: its class, its first two operands and, for a    *)
(* SETcc, its condition.                                                   *)
(*                                                                         *)
(* Source: project/source/utility.cpp.                                     *)
(*                                                                         *)
(* An operand has a kind ("reg", "mem", "imm", "none"), a register or base *)
(* register, the part of that register, an index register, a displacement  *)
(* or immediate value and a size in bits.  The base and the index of a     *)
(* memory operand may be "none".                                           *)
(***************************************************************************)
EXTENDS Integers

Operand(kind, r, part, index, disp, size) ==
    [kind |-> kind, reg |-> r, part |-> part, index |-> index, disp |-> disp, size |-> size]

Reg(r, part, size) == Operand("reg", r, part, "none", 0, size)
MemIndexed(base, index, disp, size) == Operand("mem", base, "E", index, disp, size)
Mem(base, disp, size) == MemIndexed(base, "none", disp, size)
Imm(value) == Operand("imm", "none", "E", "none", value, 0)
NoOperand == Operand("none", "none", "E", "none", 0, 0)

Instr(op, dst, src) == [op |-> op, dst |-> dst, src |-> src, cond |-> "none"]
SetCC(cond, dst) == [op |-> "SET", dst |-> dst, src |-> NoOperand, cond |-> cond]

IsRegister(o) == o.kind = "reg"
IsMemory(o) == o.kind = "mem"
IsImmediate(o) == o.kind = "imm"

Slot(o) == <<o.reg, o.part>>

(* DestRegister() or SrcRegister() is ESP or EBP.                          *)
IsReg(o, r) == o.kind = "reg" /\ o.reg = r
UsesFrame(i) == \E r \in {"ESP", "EBP"} : IsReg(i.dst, r) \/ IsReg(i.src, r)

=============================================================================
