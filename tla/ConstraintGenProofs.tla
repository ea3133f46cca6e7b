------------------------- MODULE ConstraintGenProofs -------------------------
(* What the analysis of any block does to registers, flags and             *)
(* constraints, for any set of instructions, variables and registers.      *)
EXTENDS ConstraintGen, TLAPS, FiniteSetTheorems, SequenceTheorems

(* setRegister() keeps every register in agreement with its bytes.         *)
LEMMA SetRegisterAgrees ==
    ASSUME NEW R, HalvesAgreeIn(R), NEW s, NEW v
    PROVE  HalvesAgreeIn(SetRegister(R, s, v))
<1> SUFFICES ASSUME NEW q \in Quads, SetRegister(R, s, v)[<<q, "E">>] # NULL
             PROVE  /\ SetRegister(R, s, v)[<<q, "H">>] = SetRegister(R, s, v)[<<q, "E">>]
                    /\ SetRegister(R, s, v)[<<q, "L">>] = SetRegister(R, s, v)[<<q, "E">>]
  BY DEF HalvesAgreeIn
<1>1. /\ <<q, "E">> \in Slots /\ <<q, "H">> \in Slots /\ <<q, "L">> \in Slots
      /\ <<q, "E">>[1] = q /\ <<q, "H">>[1] = q /\ <<q, "L">>[1] = q
      /\ <<q, "E">>[2] = "E" /\ <<q, "H">>[2] = "H" /\ <<q, "L">>[2] = "L"
  BY DEF Slots
<1>2. CASE q # s[1]
  BY <1>1, <1>2 DEF SetRegister, HalvesAgreeIn
<1>3. CASE q = s[1] /\ s[2] = "E"
  BY <1>1, <1>3 DEF SetRegister
<1>4. CASE q = s[1] /\ s[2] # "E"
  <2>1. <<q, "E">> # s
    BY <1>1, <1>4
  <2> QED
    BY <1>1, <1>4, <2>1 DEF SetRegister
<1> QED
  BY <1>2, <1>3, <1>4

(* Every handler leaves reg alone or changes it by calls of setRegister(): *)
(* no sequence of instructions makes a register disagree with its bytes.   *)
THEOREM BytesAgree == Spec => []HalvesAgree
<1>1. Init => HalvesAgree
  BY DEF Init, HalvesAgree, HalvesAgreeIn, NoVariables, Slots
<1>2. HalvesAgree /\ [Next]_vars => HalvesAgree'
  <2> SUFFICES ASSUME HalvesAgreeIn(reg), [Next]_vars PROVE HalvesAgreeIn(reg')
    BY DEF HalvesAgree
  <2>1. ASSUME reg' = reg PROVE HalvesAgreeIn(reg')
    BY <2>1
  <2>2. ASSUME NEW s, NEW v, reg' = SetRegister(reg, s, v) PROVE HalvesAgreeIn(reg')
    BY <2>2, SetRegisterAgrees
  <2>3. CASE UNCHANGED vars
    BY <2>1, <2>3 DEF vars
  <2>4. ASSUME NEW i \in Code, Step(i) PROVE HalvesAgreeIn(reg')
    <3>1. CASE Ignore(i)
      BY <2>1, <3>1 DEF Ignore
    <3>2. CASE MoveToRegister(i)
      BY <2>2, <3>2 DEF MoveToRegister
    <3>3. CASE ClearRegister(i)
      BY <2>2, <3>3 DEF ClearRegister
    <3>4. CASE MoveToMemory(i)
      BY <2>1, <3>4 DEF MoveToMemory
    <3>5. CASE Extend(i)
      BY <2>1, <2>2, <3>5 DEF Extend
    <3>6. CASE AddSub(i)
      BY <2>1, <2>2, <3>6 DEF AddSub
    <3>7. CASE Compare(i)
      BY <2>1, <3>7 DEF Compare
    <3>8. CASE IncDec(i)
      BY <2>1, <3>8 DEF IncDec
    <3>9. CASE Shift(i)
      BY <2>1, <2>2, <3>9 DEF Shift
    <3>10. CASE SetOnCondition(i)
      BY <2>1, <2>2, <3>10 DEF SetOnCondition
    <3>11. CASE LoadAddress(i)
      BY <2>1, <2>2, <3>11 DEF LoadAddress
    <3>12. CASE Divide(i)
      <4> DEFINE quotient == NewId(Value(i.dst).temps + 1)
                 remainder == NewId(Value(i.dst).temps + 2)
                 R == SetRegister(reg, QuotientSlot(i.src.size), quotient)
      <4>1. CASE BothKnown(i)
        <5>1. HalvesAgreeIn(R)
          BY SetRegisterAgrees
        <5>2. HalvesAgreeIn(SetRegister(R, RemainderSlot(i.src.size), remainder))
          BY <5>1, SetRegisterAgrees
        <5> QED
          BY <3>12, <4>1, <5>2 DEF Divide
      <4>2. CASE ~BothKnown(i)
        BY <2>1, <3>12, <4>2 DEF Divide
      <4> QED
        BY <4>1, <4>2
    <3>13. CASE Call(i)
      BY <2>2, <3>13 DEF Call
    <3>14. CASE Abort(i)
      BY <2>1, <3>14 DEF Abort
    <3> QED
      BY <2>4, <3>1, <3>2, <3>3, <3>4, <3>5, <3>6, <3>7, <3>8, <3>9, <3>10, <3>11,
         <3>12, <3>13, <3>14 DEF Step
  <2> QED
    BY <2>3, <2>4 DEF Next
<1> QED
  BY <1>1, <1>2, PTL DEF Spec

----------------------------------------------------------------------------
(* Constraints over variables S, whose results are in R and whose pointers *)
(* point to variables in C.                                                *)
Sizes == {0, 8, 16, 32}
Types(C) ==
    [name : {"num", "int", "uint", "ptr", "none"}, size : Sizes, contain : C \cup {NULL}]
ElementsOver(S, R, C) ==
    {e \in [left : S, relation : {"<", "="}, type : Types(C), var : S \cup {NULL},
            category : {"operand", "result"}] : e.category = "result" => e.left \in R}
PartsOver(S, R, C) == Seq(ElementsOver(S, R, C))
ConstraintsOver(S, R, C) == Seq(PartsOver(S, R, C))

LEMMA TypesTyped ==
    ASSUME NEW C, NEW size \in Sizes, NEW signed
    PROVE  Num(size) \in Types(C) /\ Int_(size, signed) \in Types(C)
           /\ Ptr \in Types(C) /\ NoType \in Types(C) /\ Num(32) \in Types(C)
  BY DEF Num, Int_, Ptr, Pointer, NoType, Types, Sizes

LEMMA OperandTyped ==
    ASSUME NEW S, NEW R, NEW C, NEW v \in S \cup {NULL}, NEW type \in Types(C)
    PROVE  OperandOf(v, type) \in PartsOver(S, R, C)
<1>1. CASE v = NULL
  BY <1>1, EmptySeq DEF OperandOf, Element, PartsOver
<1>2. CASE v # NULL
  <2> DEFINE e == [left |-> v, relation |-> "<", type |-> type, var |-> NULL,
                   category |-> "operand"]
  <2>1. e \in ElementsOver(S, R, C)
    BY <1>2 DEF ElementsOver
  <2>2. <<e>> \in Seq(ElementsOver(S, R, C))
    BY <2>1
  <2> QED
    BY <1>2, <2>2 DEF OperandOf, Element, PartsOver
<1> QED
  BY <1>1, <1>2

LEMMA ResultTyped ==
    ASSUME NEW S, NEW R, R \subseteq S, NEW C, NEW v \in R \cup {NULL}, NEW type \in Types(C)
    PROVE  ResultOf(v, type) \in PartsOver(S, R, C)
<1>1. CASE v = NULL
  BY <1>1, EmptySeq DEF ResultOf, Element, PartsOver
<1>2. CASE v # NULL
  <2> DEFINE e == [left |-> v, relation |-> "<", type |-> type, var |-> NULL,
                   category |-> "result"]
  <2>1. e \in ElementsOver(S, R, C)
    BY <1>2 DEF ElementsOver
  <2>2. <<e>> \in Seq(ElementsOver(S, R, C))
    BY <2>1
  <2> QED
    BY <1>2, <2>2 DEF ResultOf, Element, PartsOver
<1> QED
  BY <1>1, <1>2

(* A part may be put together of two or three, and a constraint of up to   *)
(* three parts.                                                            *)
LEMMA Concatenated ==
    ASSUME NEW S, NEW a \in Seq(S), NEW b \in Seq(S), NEW c \in Seq(S)
    PROVE  a \o b \in Seq(S) /\ a \o b \o c \in Seq(S)
  BY ConcatProperties

(* What the functions of extract.cpp say of variables in S and a result    *)
(* in R, all of them or NULL.                                              *)
LEMMA CalculationsTyped ==
    ASSUME NEW S, NEW R, R \subseteq S, NEW C, NEW type \in Types(C),
           NEW v1 \in S \cup {NULL}, NEW v2 \in S \cup {NULL}, NEW r \in R \cup {NULL}
    PROVE  /\ ConstraintADD(type, v1, v2, r) \in ConstraintsOver(S, R, C)
           /\ ConstraintSUB(type, v1, v2, r) \in ConstraintsOver(S, R, C)
<1> DEFINE P == PartsOver(S, R, C)
           Typed(t) == /\ OperandOf(v1, t) \in P /\ OperandOf(v2, t) \in P
                       /\ ResultOf(r, t) \in P
<1>1. Typed(type) /\ Typed(Ptr) /\ Typed(Num(32))
  BY OperandTyped, ResultTyped, TypesTyped DEF Sizes
<1>2. ASSUME NEW a \in P, NEW b \in P, NEW c \in P PROVE <<a \o b \o c>> \in Seq(P)
  <2>1. a \o b \o c \in P
    BY Concatenated DEF PartsOver
  <2> QED
    BY <2>1
<1>3. ASSUME NEW a \in Seq(P), NEW b \in Seq(P), NEW c \in Seq(P), NEW p, NEW q
      PROVE  a \o (IF p THEN <<>> ELSE b) \o (IF q THEN <<>> ELSE c) \in Seq(P)
  <2>1. <<>> \in Seq(P)
    BY EmptySeq
  <2> QED
    BY <2>1, Concatenated
<1> HIDE DEF P
<1>4. /\ <<OperandOf(v1, type) \o OperandOf(v2, type) \o ResultOf(r, type)>> \in Seq(P)
      /\ <<OperandOf(v1, Ptr) \o OperandOf(v2, Num(32)) \o ResultOf(r, Ptr)>> \in Seq(P)
      /\ <<OperandOf(v2, Ptr) \o OperandOf(v1, Num(32)) \o ResultOf(r, Ptr)>> \in Seq(P)
      /\ <<OperandOf(v2, Ptr) \o OperandOf(v1, Ptr) \o ResultOf(r, Num(32))>> \in Seq(P)
  BY <1>1, <1>2
<1>5. ConstraintADD(type, v1, v2, r) \in Seq(P)
  BY <1>3, <1>4 DEF ConstraintADD
<1>6. ConstraintSUB(type, v1, v2, r) \in Seq(P)
  BY <1>3, <1>4 DEF ConstraintSUB
<1> QED
  BY <1>5, <1>6 DEF P, ConstraintsOver

LEMMA ComparisonsTyped ==
    ASSUME NEW S, NEW R, NEW C, NEW type \in Types(C),
           NEW v1 \in S \cup {NULL}, NEW v2 \in S \cup {NULL}
    PROVE  /\ ConstraintCMP(type, v1, v2) \in ConstraintsOver(S, R, C)
           /\ ConstraintDEC_INC(type, v1) \in ConstraintsOver(S, R, C)
           /\ ConstraintSHIFT(type, v1, v2) \in ConstraintsOver(S, R, C)
           /\ ConstraintSET(type, v1) \in ConstraintsOver(S, R, C)
<1> DEFINE P == PartsOver(S, R, C)
           Typed(t) == OperandOf(v1, t) \in P /\ OperandOf(v2, t) \in P
<1>1. Typed(type) /\ Typed(Ptr)
  BY OperandTyped, TypesTyped DEF Sizes
<1>2. ASSUME NEW a \in P, NEW b \in P PROVE <<a \o b>> \in Seq(P) /\ <<a>> \in Seq(P)
  <2>1. a \o b \in P
    BY Concatenated DEF PartsOver
  <2> QED
    BY <2>1
<1>3. ASSUME NEW a \in Seq(P), NEW b \in Seq(P), NEW p
      PROVE  a \o (IF p THEN <<>> ELSE b) \in Seq(P)
  <2>1. <<>> \in Seq(P)
    BY EmptySeq
  <2> QED
    BY <2>1, Concatenated
<1> HIDE DEF P
<1>4. /\ <<OperandOf(v1, type) \o OperandOf(v2, type)>> \in Seq(P)
      /\ <<OperandOf(v2, Ptr) \o OperandOf(v1, Ptr)>> \in Seq(P)
      /\ <<OperandOf(v1, type)>> \in Seq(P) /\ <<OperandOf(v1, Ptr)>> \in Seq(P)
  BY <1>1, <1>2
<1>5. /\ ConstraintCMP(type, v1, v2) \in Seq(P)
      /\ ConstraintDEC_INC(type, v1) \in Seq(P)
  BY <1>3, <1>4 DEF ConstraintCMP, ConstraintDEC_INC
<1>6. /\ ConstraintSHIFT(type, v1, v2) \in Seq(P)
      /\ ConstraintSET(type, v1) \in Seq(P)
  BY <1>4 DEF ConstraintSHIFT, ConstraintSET
<1> QED
  BY <1>5, <1>6 DEF P, ConstraintsOver

LEMMA DivisionTyped ==
    ASSUME NEW S, NEW R, R \subseteq S, NEW C, NEW type \in Types(C),
           NEW v1 \in S \cup {NULL}, NEW v2 \in S \cup {NULL},
           NEW r1 \in R \cup {NULL}, NEW r2 \in R \cup {NULL}
    PROVE  ConstraintDIV(type, v1, v2, r1, r2) \in ConstraintsOver(S, R, C)
<1> DEFINE P == PartsOver(S, R, C)
           O == OperandOf(v1, type) \o OperandOf(v2, type)
<1>1. O \in P
  BY OperandTyped, Concatenated DEF PartsOver
<1>2. ResultOf(r1, type) \in P /\ ResultOf(r2, type) \in P
  BY ResultTyped
<1>3. OperandOf(v1, type) \in P /\ OperandOf(v2, type) \in P
  BY OperandTyped
<1>4. O \o ResultOf(r1, type) \o OperandOf(v1, type) \in P
  BY <1>1, <1>2, <1>3, Concatenated DEF PartsOver
<1>5. O \o ResultOf(r1, type) \o OperandOf(v1, type) \o OperandOf(v2, type)
        \o ResultOf(r2, type) \in P
  BY <1>2, <1>3, <1>4, Concatenated DEF PartsOver
<1> QED
  BY <1>5 DEF ConstraintDIV, ConstraintsOver

LEMMA MovesTyped ==
    ASSUME NEW S, NEW R, R \subseteq S, NEW C, NEW type \in Types(C), NEW type2 \in Types(C),
           NEW v1 \in S \cup {NULL}, NEW v2 \in S \cup {NULL}, NEW r \in R \cup {NULL}
    PROVE  /\ ConstraintMOV(v1, v2) \in ConstraintsOver(S, R, C)
           /\ ConstraintMOVX(type, type2, r, v2) \in ConstraintsOver(S, R, C)
           /\ \A p \in C : ConstraintLEA(p, v1) \in ConstraintsOver(S, R, C)
<1> DEFINE P == PartsOver(S, R, C)
<1>1. OperandOf(v2, type2) \o ResultOf(r, type) \in P
  BY OperandTyped, ResultTyped, Concatenated DEF PartsOver
<1>2. ASSUME NEW t \in Types(C), NEW w \in S \cup {NULL}
      PROVE  Element(v1, "=", t, w, "operand") \in P
  <2>1. CASE v1 = NULL
    BY <2>1, EmptySeq DEF Element, PartsOver
  <2>2. CASE v1 # NULL
    <3> DEFINE e == [left |-> v1, relation |-> "=", type |-> t, var |-> w,
                     category |-> "operand"]
    <3>1. e \in ElementsOver(S, R, C)
      BY <2>2 DEF ElementsOver
    <3>2. <<e>> \in Seq(ElementsOver(S, R, C))
      BY <3>1
    <3> QED
      BY <2>2, <3>2 DEF Element, PartsOver
  <2> QED
    BY <2>1, <2>2
<1>3. ASSUME NEW p \in C PROVE Pointer(p) \in Types(C)
  BY <1>3 DEF Pointer, Types, Sizes
<1>4. NoType \in Types(C)
  BY TypesTyped DEF Sizes
<1>5. ConstraintMOV(v1, v2) \in Seq(P)
  <2>1. Element(v1, "=", NoType, v2, "operand") \in P
    BY <1>2, <1>4
  <2> HIDE DEF P
  <2> QED
    BY <2>1 DEF ConstraintMOV
<1>6. ConstraintMOVX(type, type2, r, v2) \in Seq(P)
  BY <1>1 DEF ConstraintMOVX
<1>7. ASSUME NEW p \in C PROVE ConstraintLEA(p, v1) \in Seq(P)
  <2>1. Element(v1, "=", Pointer(p), NULL, "operand") \in P
    BY <1>2, <1>3
  <2> HIDE DEF P
  <2> QED
    BY <2>1 DEF ConstraintLEA
<1> QED
  BY <1>5, <1>6, <1>7 DEF ConstraintsOver

LEMMA FeedbackTyped ==
    ASSUME NEW S, NEW C, NEW type \in Types(C), NEW v1 \in S \cup {NULL},
           NEW v2 \in S \cup {NULL}, NEW r \in S \cup {NULL}
    PROVE  ConditionFeedback(type, v1, v2, r) \in ConstraintsOver(S, S, C)
<1>1. OperandOf(v1, type) \o OperandOf(v2, type) \o ResultOf(r, type) \in PartsOver(S, S, C)
  BY OperandTyped, ResultTyped, Concatenated DEF PartsOver
<1> QED
  BY <1>1 DEF ConditionFeedback, ConstraintsOver

----------------------------------------------------------------------------
(* GenTypeOK, and that the next id is a number.                            *)
GenInv == GenTypeOK /\ varIndex \in Int

InRegisters == {reg[s] : s \in Slots}

LEMMA SetRegisterTyped ==
    ASSUME NEW T, NEW F \in [Slots -> T], NEW s, NEW v \in T, NULL \in T
    PROVE  SetRegister(F, s, v) \in [Slots -> T]
  BY DEF SetRegister

(* The numbers of Tracker::Tracker() are those of the variables found.     *)
LEMMA MemoryNumbers ==
    /\ \A d \in StackOffsets : StackId(d) \in MemoryIds
    /\ \A d \in AbsoluteOffsets : AbsoluteId(d) \in MemoryIds
    /\ FirstTemporary \in Int /\ MemoryIds \subseteq Int
<1>1. ASSUME NEW S, IsFiniteSet(S), S \subseteq Int, NEW d \in S
      PROVE  /\ Cardinality({o \in S : o < d}) \in Nat
             /\ Cardinality({o \in S : o < d}) < Cardinality(S)
             /\ Cardinality(S) \in Nat
  <2>1. {o \in S : o < d} \in SUBSET S /\ {o \in S : o < d} # S
    BY <1>1
  <2> QED
    BY <1>1, <2>1, FS_Subset, FS_CardinalityType
<1>2. Cardinality(StackOffsets) \in Nat /\ Cardinality(AbsoluteOffsets) \in Nat
  BY TrackerAssumption, FS_CardinalityType
<1>3. ASSUME NEW d \in StackOffsets PROVE StackId(d) \in MemoryIds
  <2> DEFINE n == Cardinality({o \in StackOffsets : o < d})
  <2>1. n \in Nat /\ n < Cardinality(StackOffsets)
    BY <1>1, TrackerAssumption
  <2>2. StackId(d) = 7 + n
    BY DEF StackId
  <2> HIDE DEF n
  <2> QED
    BY <1>2, <2>1, <2>2 DEF MemoryIds
<1>4. ASSUME NEW d \in AbsoluteOffsets PROVE AbsoluteId(d) \in MemoryIds
  <2> DEFINE n == Cardinality({o \in AbsoluteOffsets : o < d})
  <2>1. n \in Nat /\ n < Cardinality(AbsoluteOffsets)
    BY <1>1, TrackerAssumption
  <2>2. AbsoluteId(d) = 7 + Cardinality(StackOffsets) + n
    BY DEF AbsoluteId
  <2> HIDE DEF n
  <2> QED
    BY <1>2, <2>1, <2>2 DEF MemoryIds
<1> QED
  BY <1>2, <1>3, <1>4 DEF FirstTemporary, MemoryIds

(* An operand that getRegister() or getMemoryVariable() is asked for is    *)
(* NULL, a variable in memory or in a register, or a new one it points to. *)
LEMMA ValueTyped ==
    ASSUME GenInv, NEW i \in Code, NEW o \in {i.dst, i.src}, ~Unsupported(o),
           NEW S, NEW R, R \subseteq S, NEW C, InRegisters \subseteq S,
           varIndex .. (varIndex + Value(o).temps - 1) \subseteq C
    PROVE  /\ Value(o).temps \in {0, 1}
           /\ Value(o).var \in MemoryIds \cup InRegisters \cup {NULL}
                               \cup (varIndex .. (varIndex + Value(o).temps - 1))
           /\ Value(o).out \in Seq(ConstraintsOver(S, R, C))
<1> DEFINE W == Value(o)
<1>1. InRegisters \subseteq S /\ <<>> \in Seq(ConstraintsOver(S, R, C))
  BY EmptySeq
<1>2. ASSUME NEW v \in MemoryIds \cup InRegisters \cup {NULL}, W = Lookup(v)
      PROVE  /\ W.temps \in {0, 1}
             /\ W.var \in MemoryIds \cup InRegisters \cup {NULL}
             /\ W.out \in Seq(ConstraintsOver(S, R, C))
  BY <1>1, <1>2 DEF Lookup
<1>3. CASE IsRegister(o)
  <2>1. Slot(o) \in Slots
    BY <1>3, OperandAssumption DEF Unsupported, Supported, Slot, Slots
  <2>2. W = Lookup(reg[Slot(o)])
    BY <1>3 DEF Value, IsRegister
  <2> QED
    BY <1>2, <2>1, <2>2 DEF InRegisters
<1>4. CASE IsMemory(o)
  <2>1. W = MemoryVariable(o)
    BY <1>4 DEF Value, IsMemory
  <2>2. CASE o.reg \in {"ESP", "EBP"}
    <3> DEFINE offset == IF o.reg = "ESP" THEN o.disp - esp ELSE o.disp
               v == IF offset \in StackOffsets THEN StackId(offset) ELSE NULL
    <3>1. W = Lookup(v)
      BY <2>1, <2>2 DEF MemoryVariable
    <3>2. v \in MemoryIds \cup {NULL}
      BY MemoryNumbers
    <3> HIDE DEF v
    <3> QED
      BY <1>2, <3>1, <3>2
  <2>3. CASE o.reg = "none" /\ o.index = "none"
    <3> DEFINE v == IF o.disp \in AbsoluteOffsets THEN AbsoluteId(o.disp) ELSE NULL
    <3>1. W = Lookup(v)
      BY <2>1, <2>3 DEF MemoryVariable
    <3>2. v \in MemoryIds \cup {NULL}
      BY MemoryNumbers
    <3> HIDE DEF v
    <3> QED
      BY <1>2, <3>1, <3>2
  <2>4. CASE o.reg \notin {"ESP", "EBP", "none"}
    <3> DEFINE p == reg[<<o.reg, "E">>]
    <3>1. p \in InRegisters /\ W = Pointee(p)
      <4>1. <<o.reg, "E">> \in Slots
        BY <1>4, <2>4, OperandAssumption DEF IsMemory, Slots
      <4> QED
        BY <2>1, <2>4, <4>1 DEF MemoryVariable, InRegisters
    <3>2. CASE p = NULL
      BY <1>2, <3>1, <3>2 DEF Pointee
    <3>3. CASE p # NULL
      <4> DEFINE L == ConstraintLEA(varIndex, p)
      <4>1. W = [var |-> varIndex, temps |-> 1, out |-> <<L>>]
        BY <3>1, <3>3 DEF Pointee, NewId, GenInv
      <4>2. varIndex \in varIndex .. (varIndex + W.temps - 1)
        BY <4>1 DEF GenInv
      <4>3. L \in ConstraintsOver(S, R, C)
        BY <1>1, <3>1, <4>2, MovesTyped, TypesTyped DEF Sizes
      <4> HIDE DEF L
      <4>4. W.temps = 1 /\ W.var = varIndex /\ W.out = <<L>>
        BY <4>1
      <4>5. <<L>> \in Seq(ConstraintsOver(S, R, C))
        BY <4>3
      <4> QED
        BY <4>2, <4>4, <4>5
    <3> QED
      BY <3>2, <3>3
  <2> QED
    BY <1>4, <2>2, <2>3, <2>4 DEF Unsupported
<1>5. CASE ~IsRegister(o) /\ ~IsMemory(o)
  BY <1>2, <1>5 DEF Value, IsRegister, IsMemory
<1> QED
  BY <1>3, <1>4, <1>5

----------------------------------------------------------------------------
(* What a step may name: in constraints, in registers and flags.           *)
Sources == MemoryIds \cup Held(reg, flag) \cup FreshIds
Nameable == MemoryIds \cup InRegisters \cup FreshIds \cup {NULL}

FlagsOver(T) == [size : Sizes, var1 : T, var2 : T, result : T \cup {Unregistered}]

(* The first t temporaries of a step are what operands point to, the rest  *)
(* are results.                                                            *)
First(t) == varIndex .. (varIndex + t - 1)
Later(t) == (varIndex + t) .. (varIndex' - 1)

SpeaksOfFlags == \E i \in Code : SetOnCondition(i)
Speaks ==
    \E R, C :
        /\ R \subseteq Sources /\ C \subseteq Sources
        /\ emitted' \in Seq(ConstraintsOver(Sources, R, C))
        /\ (R \subseteq FreshIds /\ R \cap C = {}) \/ SpeaksOfFlags

StepTyped ==
    /\ varIndex' \in Int /\ varIndex <= varIndex'
    /\ reg' \in [Slots -> Nameable]
    /\ flag' = flag \/ flag' \in FlagsOver(Nameable)
    /\ Speaks

LEMMA Intervals ==
    ASSUME NEW m \in Int, NEW n \in Int, NEW t \in Nat, m + t <= n
    PROVE  /\ m .. (m + t - 1) \subseteq m .. (n - 1)
           /\ (m + t) .. (n - 1) \subseteq m .. (n - 1)
           /\ (m .. (m + t - 1)) \cap ((m + t) .. (n - 1)) = {}
  OBVIOUS

LEMMA Numbered ==
    ASSUME GenInv, NEW t \in Nat, varIndex' \in Int, varIndex + t <= varIndex'
    PROVE  /\ First(t) \subseteq FreshIds /\ Later(t) \subseteq FreshIds
           /\ First(t) \cap Later(t) = {}
           /\ FreshIds \subseteq Sources /\ FreshIds \subseteq Nameable
           /\ InRegisters \subseteq Sources /\ NULL \in Nameable
           /\ Nameable \subseteq Sources \cup {NULL}
<1>1. /\ First(t) \subseteq FreshIds /\ Later(t) \subseteq FreshIds
      /\ First(t) \cap Later(t) = {}
  BY Intervals DEF GenInv, First, Later, FreshIds
<1>2. InRegisters \subseteq Held(reg, flag)
  BY DEF InRegisters, Held, InSlots
<1> QED
  BY <1>1, <1>2 DEF Sources, Nameable

LEMMA Spoken ==
    ASSUME GenInv, NEW t \in Nat, varIndex' \in Int, varIndex + t <= varIndex',
           emitted' \in Seq(ConstraintsOver(Sources, Later(t), First(t)))
    PROVE  Speaks
<1>1. /\ Later(t) \subseteq Sources /\ First(t) \subseteq Sources
      /\ Later(t) \subseteq FreshIds /\ Later(t) \cap First(t) = {}
  BY Numbered
<1> QED
  BY <1>1, Zenon DEF Speaks

LEMMA Silent ==
    ASSUME GenInv, emitted' = <<>>
    PROVE  Speaks
<1>1. emitted' \in Seq(ConstraintsOver(Sources, {}, {}))
  BY EmptySeq
<1>2. {} \subseteq Sources /\ {} \subseteq FreshIds /\ {} \cap {} = {}
  OBVIOUS
<1> QED
  BY <1>1, <1>2, Zenon DEF Speaks

LEMMA RegistersNameable == GenInv => reg \in [Slots -> Nameable]
  BY DEF GenInv, GenTypeOK, Nameable, InRegisters

LEMMA OperandTemps ==
    ASSUME GenInv, NEW i \in Code, NEW o \in {i.dst, i.src}, ~Unsupported(o)
    PROVE  Value(o).temps \in {0, 1}
<1> DEFINE C == varIndex .. (varIndex + Value(o).temps - 1)
<1> {} \subseteq InRegisters
  OBVIOUS
<1> QED
  BY ValueTyped

(* ValueTyped for a step that numbers t temporaries for its operands.      *)
LEMMA OperandValue ==
    ASSUME GenInv, NEW i \in Code, NEW o \in {i.dst, i.src}, ~Unsupported(o),
           NEW t \in Nat, Value(o).temps <= t, varIndex' \in Int, varIndex + t <= varIndex'
    PROVE  /\ Value(o).var \in Nameable
           /\ Value(o).var \in Sources \cup {NULL}
           /\ Value(o).out \in Seq(ConstraintsOver(Sources, Later(t), First(t)))
<1>1. Value(o).temps \in {0, 1}
  BY OperandTemps
<1>2. varIndex .. (varIndex + Value(o).temps - 1) \subseteq First(t)
  BY <1>1 DEF First, GenInv
<1>3. InRegisters \subseteq Sources /\ Later(t) \subseteq Sources
  BY Numbered
<1>4. /\ Value(o).var \in MemoryIds \cup InRegisters \cup {NULL}
                          \cup (varIndex .. (varIndex + Value(o).temps - 1))
      /\ Value(o).out \in Seq(ConstraintsOver(Sources, Later(t), First(t)))
  BY <1>2, <1>3, ValueTyped
<1>5. Value(o).var \in Nameable
  BY <1>2, <1>4, Numbered DEF Nameable
<1> QED
  BY <1>4, <1>5, Numbered

LEMMA VisitedSupported ==
    ASSUME NEW i, Handle(i), ~UsesFrame(i), NEW o \in Visited(i)
    PROVE  ~Unsupported(o)
  BY DEF Handle, AssertFails

(* Which operands an instruction looks up, by its class.                   *)
LEMMA VisitedOperands ==
    ASSUME NEW i
    PROVE  /\ i.op \in {"MOVZX", "MOVSX"} => i.src \in Visited(i)
           /\ i.op \in OneOperand \cup {"SET"} => i.dst \in Visited(i)
           /\ i.op \in TwoOperand \cup {"DIV", "IDIV"} => i.dst \in Visited(i) /\ i.src \in Visited(i)
           /\ i.op = "MOV" /\ ~(IsMemory(i.dst) /\ IsImmediate(i.src)) =>
                i.dst \in Visited(i) /\ i.src \in Visited(i)
  BY DEF Visited

(* The sizes of what is calculated with.                                   *)
LEMMA OperandSizes ==
    ASSUME NEW i \in Code
    PROVE  i.dst.size \in Sizes /\ i.src.size \in Sizes /\ OperandSize(i) \in Sizes
  BY OperandAssumption DEF OperandSize, Sizes

----------------------------------------------------------------------------
(* Each handler, one by one.                                               *)

LEMMA Quiet ==
    ASSUME GenInv, UNCHANGED <<reg, flag, varIndex>>, emitted' = <<>>
    PROVE  StepTyped
<1>1. Speaks /\ reg' \in [Slots -> Nameable]
  BY Silent, RegistersNameable
<1>2. varIndex' \in Int /\ varIndex <= varIndex'
  BY DEF GenInv
<1> QED
  BY <1>1, <1>2 DEF StepTyped

(* The conclusions of a handler that sets a register to v, or none.        *)
LEMMA Handled ==
    ASSUME GenInv, NEW t \in Nat, NEW n \in Nat, varIndex' = varIndex + n, t <= n,
           emitted' \in Seq(ConstraintsOver(Sources, Later(t), First(t))),
           reg' \in [Slots -> Nameable], flag' = flag \/ flag' \in FlagsOver(Nameable)
    PROVE  StepTyped
<1>1. varIndex' \in Int /\ varIndex <= varIndex' /\ varIndex + t <= varIndex'
  <2> varIndex \in Int
    BY DEF GenInv
  <2> QED
    OBVIOUS
<1>2. Speaks
  BY <1>1, Spoken
<1> QED
  BY <1>1, <1>2 DEF StepTyped

(* What a handler knows that numbers n variables, t of them for operands.  *)
LEMMA Numbering ==
    ASSUME GenInv, NEW t \in Nat, NEW n \in Nat, t <= n, varIndex' = varIndex + n
    PROVE  /\ varIndex' \in Int /\ varIndex + t <= varIndex'
           /\ Later(t) \subseteq Sources /\ Later(t) \subseteq Nameable
           /\ First(t) \subseteq Nameable
           /\ \A k \in 1 .. n : NewId(k) \in Nameable
           /\ \A k \in (t + 1) .. n : NewId(k) \in Later(t)
<1>1. varIndex \in Int
  BY DEF GenInv
<1>2. varIndex' \in Int /\ varIndex + t <= varIndex'
  BY <1>1
<1>3. \A k \in 1 .. n : NewId(k) \in FreshIds
  BY <1>1 DEF NewId, FreshIds
<1>4. \A k \in (t + 1) .. n : NewId(k) \in Later(t)
  BY <1>1 DEF NewId, Later
<1> QED
  BY <1>2, <1>3, <1>4, Numbered

LEMMA Appended ==
    ASSUME NEW S, NEW a \in Seq(S), NEW b \in Seq(S), NEW q
    PROVE  /\ q \in S => a \o <<q>> \in Seq(S) /\ a \o b \o <<q>> \in Seq(S)
           /\ a \o <<>> \in Seq(S) /\ a \o b \o <<>> \in Seq(S)
<1>1. q \in S => <<q>> \in Seq(S)
  OBVIOUS
<1>2. <<>> \in Seq(S)
  BY EmptySeq
<1> QED
  BY <1>1, <1>2, Concatenated

LEMMA MoveToRegisterTyped ==
    ASSUME GenInv, NEW i \in Code, MoveToRegister(i)
    PROVE  StepTyped
<1> DEFINE s == IF IsImmediate(i.src)
                THEN [var |-> NewId(1), temps |-> 1, out |-> <<>>] ELSE Value(i.src)
<1>1. /\ reg' = SetRegister(reg, Slot(i.dst), s.var) /\ varIndex' = varIndex + s.temps
      /\ emitted' = s.out /\ flag' = flag
  BY DEF MoveToRegister
<1>2. ~Unsupported(i.src)
  <2>1. i.op = "MOV" /\ ~IsMemory(i.dst)
    BY DEF MoveToRegister, IsRegister, IsMemory
  <2> QED
    BY <2>1, VisitedOperands, VisitedSupported DEF MoveToRegister
<1>3. s.temps \in {0, 1}
  BY <1>2, OperandTemps
<1>4. s.var \in Nameable /\ s.out \in Seq(ConstraintsOver(Sources, Later(s.temps), First(s.temps)))
  <2>1. CASE IsImmediate(i.src)
    <3>1. s.var = NewId(1) /\ s.temps = 1 /\ s.out = <<>>
      BY <2>1
    <3>2. NewId(1) \in Nameable
      BY <1>1, <3>1, Numbering
    <3> QED
      BY <3>1, <3>2, EmptySeq
  <2>2. CASE ~IsImmediate(i.src)
    <3>1. s = Value(i.src)
      BY <2>2
    <3>2. varIndex' \in Int /\ varIndex + s.temps <= varIndex'
      BY <1>1, <1>3 DEF GenInv
    <3> HIDE DEF s
    <3> QED
      BY <1>2, <1>3, <3>1, <3>2, OperandValue
  <2> QED
    BY <2>1, <2>2
<1> HIDE DEF s
<1>5. reg' \in [Slots -> Nameable]
  BY <1>1, <1>4, RegistersNameable, SetRegisterTyped DEF Nameable
<1> QED
  BY <1>1, <1>3, <1>4, <1>5, Handled

LEMMA ClearRegisterTyped ==
    ASSUME GenInv, NEW i \in Code, ClearRegister(i)
    PROVE  StepTyped
<1>1. reg' = SetRegister(reg, Slot(i.dst), NULL) /\ emitted' = <<>> /\ flag' = flag
      /\ varIndex' = varIndex
  BY DEF ClearRegister
<1>2. reg' \in [Slots -> Nameable]
  BY <1>1, RegistersNameable, SetRegisterTyped DEF Nameable
<1>3. Speaks
  BY <1>1, Silent
<1>4. varIndex' \in Int /\ varIndex <= varIndex'
  BY <1>1 DEF GenInv
<1> QED
  BY <1>1, <1>2, <1>3, <1>4 DEF StepTyped

LEMMA MoveToMemoryTyped ==
    ASSUME GenInv, NEW i \in Code, MoveToMemory(i)
    PROVE  StepTyped
<1> DEFINE d == Value(i.dst)
           t == d.temps
           Q == ConstraintsOver(Sources, Later(t), First(t))
           c == ConstraintMOV(d.var, Value(i.src).var)
<1>1. /\ varIndex' = varIndex + t /\ reg' = reg /\ flag' = flag
      /\ emitted' = d.out \o (IF BothKnown(i) THEN <<c>> ELSE <<>>)
  BY DEF MoveToMemory
<1>2. ~Unsupported(i.dst) /\ ~Unsupported(i.src)
  <2>1. i.op = "MOV" /\ ~IsImmediate(i.src)
    BY DEF MoveToMemory, IsRegister, IsImmediate
  <2> QED
    BY <2>1, VisitedOperands, VisitedSupported DEF MoveToMemory
<1>3. t \in {0, 1} /\ Value(i.src).temps = 0
  <2>1. Value(i.src).temps = 0
    BY DEF MoveToMemory, Value, Lookup, IsRegister
  <2> QED
    BY <1>2, <2>1, OperandTemps
<1>4. varIndex' \in Int /\ varIndex + t <= varIndex'
  BY <1>1, <1>3 DEF GenInv
<1>5. /\ d.var \in Sources \cup {NULL} /\ d.out \in Seq(Q)
      /\ Value(i.src).var \in Sources \cup {NULL}
  BY <1>2, <1>3, <1>4, OperandValue
<1>6. c \in Q
  <2>1. Later(t) \subseteq Sources
    BY <1>3, <1>4, Numbered
  <2> QED
    BY <1>5, <2>1, MovesTyped, TypesTyped DEF Sizes
<1>7. emitted' \in Seq(Q)
  <2> HIDE DEF Q, c, d
  <2> QED
    BY <1>1, <1>5, <1>6, Appended
<1>8. reg' \in [Slots -> Nameable]
  BY <1>1, RegistersNameable
<1>9. t \in Nat /\ varIndex' = varIndex + t /\ flag' = flag
  BY <1>1, <1>3
<1> HIDE DEF t
<1> QED
  BY <1>7, <1>8, <1>9, Handled

LEMMA ExtendTyped ==
    ASSUME GenInv, NEW i \in Code, Extend(i)
    PROVE  StepTyped
<1> DEFINE s == Value(i.src)
           t == s.temps
           result == NewId(t + 1)
           signed == i.op = "MOVSX"
           c == ConstraintMOVX(Int_(i.dst.size, signed), Int_(i.src.size, signed), result, s.var)
           Q == ConstraintsOver(Sources, Later(t), First(t))
<1>1. ~Unsupported(i.src)
  BY VisitedOperands, VisitedSupported DEF Extend
<1>2. t \in {0, 1}
  BY <1>1, OperandTemps
<1>3. CASE s.var = NULL
  BY <1>3, Quiet DEF Extend
<1>4. CASE s.var # NULL
  <2>1. /\ reg' = SetRegister(reg, Slot(i.dst), result) /\ varIndex' = varIndex + (t + 1)
        /\ emitted' = s.out \o <<c>> /\ flag' = flag
    <3> varIndex \in Int
      BY DEF GenInv
    <3> QED
      BY <1>2, <1>4 DEF Extend
  <2>2. varIndex' \in Int /\ varIndex + t <= varIndex' /\ Later(t) \subseteq Sources
        /\ result \in Nameable /\ result \in Later(t)
    BY <1>2, <2>1, Numbering
  <2>3. s.var \in Sources \cup {NULL} /\ s.out \in Seq(Q)
    BY <1>1, <1>2, <2>2, OperandValue
  <2>4. c \in Q
    <3>1. Int_(i.dst.size, signed) \in Types(First(t)) /\ Int_(i.src.size, signed) \in Types(First(t))
      BY TypesTyped, OperandSizes
    <3> QED
      BY <2>2, <2>3, <3>1, MovesTyped
  <2>5. emitted' \in Seq(Q)
    <3> HIDE DEF Q, c, s
    <3> QED
      BY <2>1, <2>3, <2>4, Appended
  <2>6. reg' \in [Slots -> Nameable]
    BY <2>1, <2>2, RegistersNameable, SetRegisterTyped DEF Nameable
  <2>7. t \in Nat /\ t + 1 \in Nat /\ t <= t + 1
    BY <1>2
  <2> HIDE DEF t
  <2> QED
    BY <2>1, <2>5, <2>6, <2>7, Handled
<1> QED
  BY <1>3, <1>4

LEMMA FlagTyped ==
    ASSUME NEW T, NEW size \in Sizes, NEW v1 \in T, NEW v2 \in T, NEW r \in T \cup {Unregistered}
    PROVE  Flag(size, v1, v2, r) \in FlagsOver(T)
  BY DEF Flag, FlagsOver

LEMMA Sums ==
    ASSUME NEW m \in Int, NEW a \in Nat, NEW b \in Nat, NEW n, n = m + a + b
    PROVE  /\ a + b \in Nat /\ a <= a + b /\ b <= a + b
           /\ n \in Int /\ n = m + (a + b) /\ m + (a + b) <= n
  OBVIOUS

LEMMA CompareTyped ==
    ASSUME GenInv, NEW i \in Code, Compare(i)
    PROVE  StepTyped
<1> DEFINE d == Value(i.dst)
           s == Value(i.src)
           t == d.temps + s.temps
           c == ConstraintCMP(Num(OperandSize(i)), d.var, s.var)
           Q == ConstraintsOver(Sources, Later(t), First(t))
<1>1. /\ varIndex' = varIndex + d.temps + s.temps /\ reg' = reg
      /\ emitted' = d.out \o s.out \o (IF BothKnown(i) THEN <<c>> ELSE <<>>)
      /\ flag' = Flag(OperandSize(i), d.var, s.var, NULL)
  BY DEF Compare
<1>2. ~Unsupported(i.dst) /\ ~Unsupported(i.src)
  BY VisitedOperands, VisitedSupported DEF Compare, TwoOperand
<1>3. d.temps \in {0, 1} /\ s.temps \in {0, 1}
  BY <1>2, OperandTemps
<1>4. /\ t \in Nat /\ d.temps <= t /\ s.temps <= t
      /\ varIndex' = varIndex + t /\ varIndex' \in Int /\ varIndex + t <= varIndex'
  BY <1>1, <1>3, Sums DEF GenInv
<1>5. /\ d.var \in Sources \cup {NULL} /\ d.out \in Seq(Q) /\ d.var \in Nameable
      /\ s.var \in Sources \cup {NULL} /\ s.out \in Seq(Q) /\ s.var \in Nameable
  BY <1>2, <1>4, OperandValue
<1>6. c \in Q
  BY <1>5, ComparisonsTyped, TypesTyped, OperandSizes
<1>7. emitted' \in Seq(Q)
  <2> HIDE DEF Q, c, d, s
  <2> QED
    BY <1>1, <1>5, <1>6, Appended
<1>8. flag' \in FlagsOver(Nameable)
  BY <1>1, <1>5, FlagTyped, OperandSizes DEF Nameable
<1>9. reg' \in [Slots -> Nameable]
  BY <1>1, RegistersNameable
<1> HIDE DEF t
<1> QED
  BY <1>4, <1>7, <1>8, <1>9, Handled

LEMMA IncDecTyped ==
    ASSUME GenInv, NEW i \in Code, IncDec(i)
    PROVE  StepTyped
<1> DEFINE d == Value(i.dst)
           t == d.temps
           c == ConstraintDEC_INC(Num(i.dst.size), d.var)
           Q == ConstraintsOver(Sources, Later(t), First(t))
<1>1. /\ varIndex' = varIndex + t /\ reg' = reg
      /\ emitted' = d.out \o (IF d.var # NULL THEN <<c>> ELSE <<>>)
      /\ flag' = Flag(i.dst.size, d.var, NULL, NULL)
  BY DEF IncDec
<1>2. ~Unsupported(i.dst)
  BY VisitedOperands, VisitedSupported DEF IncDec, OneOperand
<1>3. t \in Nat
  BY <1>2, OperandTemps
<1>4. varIndex' \in Int /\ varIndex + t <= varIndex'
  BY <1>1, <1>3, Numbering
<1>5. d.var \in Sources \cup {NULL} /\ d.out \in Seq(Q) /\ d.var \in Nameable
  BY <1>2, <1>3, <1>4, OperandValue
<1>6. c \in Q
  BY <1>5, ComparisonsTyped, TypesTyped, OperandSizes
<1>7. emitted' \in Seq(Q)
  <2> HIDE DEF Q, c, d
  <2> QED
    BY <1>1, <1>5, <1>6, Appended
<1>8. flag' \in FlagsOver(Nameable)
  BY <1>1, <1>5, FlagTyped, OperandSizes DEF Nameable
<1>9. reg' \in [Slots -> Nameable]
  BY <1>1, RegistersNameable
<1> HIDE DEF t
<1> QED
  BY <1>1, <1>3, <1>7, <1>8, <1>9, Handled

LEMMA AddSubTyped ==
    ASSUME GenInv, NEW i \in Code, AddSub(i)
    PROVE  StepTyped
<1> DEFINE d == Value(i.dst)
           s == Value(i.src)
           t == d.temps + s.temps
           registers == IsRegister(i.dst) /\ BothKnown(i)
           n == IF registers THEN t + 1 ELSE t
           result == IF IsMemory(i.dst) THEN NULL
                     ELSE IF registers THEN NewId(t + 1) ELSE Unregistered
           size == OperandSize(i)
           c == IF i.op = "ADD" THEN ConstraintADD(Num(size), d.var, s.var, result)
                                ELSE ConstraintSUB(Num(size), d.var, s.var, result)
           Q == ConstraintsOver(Sources, Later(t), First(t))
<1>1. /\ reg' = IF registers THEN SetRegister(reg, Slot(i.dst), result) ELSE reg
      /\ varIndex' = varIndex + t + (IF registers THEN 1 ELSE 0)
      /\ emitted' = d.out \o s.out \o (IF BothKnown(i) THEN <<c>> ELSE <<>>)
      /\ flag' = Flag(size, d.var, s.var, result)
  BY DEF AddSub
<1>2. ~Unsupported(i.dst) /\ ~Unsupported(i.src)
  BY VisitedOperands, VisitedSupported DEF AddSub, TwoOperand
<1>3. d.temps \in {0, 1} /\ s.temps \in {0, 1}
  BY <1>2, OperandTemps
<1>4. /\ t \in Nat /\ d.temps <= t /\ s.temps <= t
      /\ n \in Nat /\ t <= n /\ varIndex' = varIndex + n
  <2>1. /\ t \in Nat /\ d.temps <= t /\ s.temps <= t /\ n \in Nat /\ t <= n
    BY <1>3
  <2> HIDE DEF t
  <2>2. varIndex' = varIndex + n
    <3>1. CASE registers
      BY <1>1, <2>1, <3>1, Sums DEF GenInv
    <3>2. CASE ~registers
      <4>1. varIndex' = varIndex + t + 0
        BY <1>1, <3>2
      <4>2. n = t /\ varIndex \in Int
        BY <3>2 DEF GenInv
      <4> HIDE DEF n
      <4>3. varIndex' = varIndex + t
        BY <2>1, <4>1, <4>2
      <4> QED
        BY <4>2, <4>3
    <3> QED
      BY <3>1, <3>2
  <2> QED
    BY <2>1, <2>2
<1>5. /\ varIndex' \in Int /\ varIndex + t <= varIndex' /\ Later(t) \subseteq Sources
      /\ registers => NewId(t + 1) \in Nameable /\ NewId(t + 1) \in Later(t)
  <2> HIDE DEF t
  <2> QED
    BY <1>4, Numbering
<1>6. /\ d.var \in Sources \cup {NULL} /\ d.out \in Seq(Q) /\ d.var \in Nameable
      /\ s.var \in Sources \cup {NULL} /\ s.out \in Seq(Q) /\ s.var \in Nameable
  BY <1>2, <1>4, <1>5, OperandValue
<1>7. BothKnown(i) => result \in Later(t) \cup {NULL}
  <2>1. BothKnown(i) => IsRegister(i.dst) \/ IsMemory(i.dst)
    BY DEF BothKnown, Value, Lookup, IsRegister, IsMemory
  <2> QED
    BY <1>5, <2>1
<1>8. BothKnown(i) => c \in Q
  <2>1. Num(size) \in Types(First(t))
    BY TypesTyped, OperandSizes
  <2> HIDE DEF t, result, d, s, size
  <2> QED
    BY <1>5, <1>6, <1>7, <2>1, CalculationsTyped
<1>9. emitted' \in Seq(Q)
  <2> HIDE DEF Q, c, d, s
  <2> QED
    BY <1>1, <1>6, <1>8, Appended
<1>10. result \in Nameable \cup {Unregistered} /\ (registers => result \in Nameable)
  <2>1. IsRegister(i.dst) => ~IsMemory(i.dst)
    BY DEF IsRegister, IsMemory
  <2> QED
    BY <1>5, <2>1 DEF Nameable
<1>11. flag' \in FlagsOver(Nameable)
  <2>1. size \in Sizes
    BY OperandSizes
  <2> HIDE DEF result, d, s, size
  <2> QED
    BY <1>1, <1>6, <1>10, <2>1, FlagTyped
<1>12. reg' \in [Slots -> Nameable]
  <2> HIDE DEF result, registers
  <2> QED
    BY <1>1, <1>10, RegistersNameable, SetRegisterTyped DEF Nameable
<1> HIDE DEF t, n
<1> QED
  BY <1>4, <1>9, <1>11, <1>12, Handled

LEMMA ShiftTyped ==
    ASSUME GenInv, NEW i \in Code, Shift(i)
    PROVE  StepTyped
<1> DEFINE d == Value(i.dst)
           registers == IsRegister(i.dst) /\ d.var # NULL
           n == IF registers THEN 1 ELSE 0
           result == IF IsMemory(i.dst) THEN NULL
                     ELSE IF registers THEN NewId(1) ELSE Unregistered
           c == ConstraintSHIFT(ShiftType(i), d.var, result)
           Q == ConstraintsOver(Sources, Later(0), First(0))
<1>1. /\ reg' = IF registers THEN SetRegister(reg, Slot(i.dst), result) ELSE reg
      /\ varIndex' = varIndex + n
      /\ emitted' = IF registers THEN <<c>> ELSE <<>>
      /\ flag' = Flag(i.dst.size, d.var, NULL, result)
  BY DEF Shift
<1>2. ~Unsupported(i.dst)
  BY VisitedOperands, VisitedSupported DEF Shift, OneOperand
<1>3. n \in Nat /\ varIndex' \in Int /\ varIndex + 0 <= varIndex'
      /\ (registers => NewId(1) \in Nameable)
  BY <1>1, Numbering
<1>4. IsRegister(i.dst) => d.temps = 0
  BY DEF Value, Lookup, IsRegister
<1>5. IsMemory(i.dst) => d.var = NULL
  BY <1>2 DEF Shift, Handle, NullResult
<1>6. ~IsMemory(i.dst) /\ ~IsRegister(i.dst) => d.var = NULL
  BY DEF Value, Lookup, IsRegister, IsMemory
<1>7. d.var \in Nameable /\ d.var \in Sources \cup {NULL}
  <2>1. CASE IsRegister(i.dst)
    BY <1>2, <1>3, <1>4, <2>1, OperandValue
  <2>2. CASE ~IsRegister(i.dst)
    BY <1>5, <1>6, <2>2 DEF Nameable
  <2> QED
    BY <2>1, <2>2
<1>8. result \in Nameable \cup {Unregistered} /\ (registers => result \in Nameable)
  <2>1. IsRegister(i.dst) => ~IsMemory(i.dst)
    BY DEF IsRegister, IsMemory
  <2> QED
    BY <1>3, <2>1 DEF Nameable
<1>9. registers => c \in Q
  <2>1. ShiftType(i) \in Types(First(0))
    BY TypesTyped, OperandSizes DEF ShiftType
  <2>2. registers => result \in Sources \cup {NULL}
    BY <1>3, <1>8, Numbered
  <2> HIDE DEF d, result
  <2> QED
    BY <1>7, <2>1, <2>2, ComparisonsTyped
<1>10. emitted' \in Seq(Q)
  <2> HIDE DEF Q, c, registers
  <2> QED
    BY <1>1, <1>9, EmptySeq
<1>11. flag' \in FlagsOver(Nameable)
  <2> HIDE DEF result, d
  <2> QED
    BY <1>1, <1>7, <1>8, FlagTyped, OperandSizes DEF Nameable
<1>12. reg' \in [Slots -> Nameable]
  <2> HIDE DEF result, registers
  <2> QED
    BY <1>1, <1>8, RegistersNameable, SetRegisterTyped DEF Nameable
<1> HIDE DEF n
<1> QED
  BY <1>1, <1>3, <1>10, <1>11, <1>12, Handled

LEMMA SetOnConditionTyped ==
    ASSUME GenInv, NEW i \in Code, SetOnCondition(i)
    PROVE  StepTyped
<1> DEFINE d == IF IsRegister(i.dst)
                THEN [var |-> NewId(1), temps |-> 1, out |-> <<>>] ELSE Value(i.dst)
           t == d.temps
           c == ConstraintSET(Num(i.dst.size), d.var)
           f == ConditionFeedback(Int_(flag.size, Signed(i.cond)),
                                  flag.var1, flag.var2, flag.result)
           Q == ConstraintsOver(Sources, Sources, First(t))
<1>1. /\ reg' = IF IsRegister(i.dst) THEN SetRegister(reg, Slot(i.dst), d.var) ELSE reg
      /\ varIndex' = varIndex + t /\ flag' = flag
      /\ emitted' = d.out \o (IF d.var # NULL THEN <<c>> ELSE <<>>)
                          \o (IF Telling(i) THEN <<f>> ELSE <<>>)
  BY DEF SetOnCondition
<1>2. ~Unsupported(i.dst)
  BY VisitedOperands, VisitedSupported DEF SetOnCondition
<1>3. t \in Nat
  BY <1>2, OperandTemps
<1>4. /\ varIndex' \in Int /\ varIndex + t <= varIndex' /\ InRegisters \subseteq Sources
      /\ First(t) \subseteq Sources /\ First(t) \subseteq Nameable
      /\ (1 \in 1 .. t => NewId(1) \in Nameable)
      /\ Nameable \subseteq Sources \cup {NULL}
  <2> HIDE DEF t
  <2>1. varIndex' \in Int /\ varIndex + t <= varIndex' /\ (1 \in 1 .. t => NewId(1) \in Nameable)
    BY <1>1, <1>3, Numbering
  <2> QED
    BY <1>3, <2>1, Numbered
<1>5. d.var \in Nameable /\ d.var \in Sources \cup {NULL} /\ d.out \in Seq(Q)
  <2>1. CASE IsRegister(i.dst)
    <3>1. d.var = NewId(1) /\ t = 1 /\ d.out = <<>>
      BY <2>1
    <3>2. NewId(1) \in Nameable /\ NewId(1) \in Sources \cup {NULL}
      BY <1>4, <3>1
    <3> QED
      BY <3>1, <3>2, EmptySeq
  <2>2. CASE ~IsRegister(i.dst)
    <3>1. d = Value(i.dst)
      BY <2>2
    <3> HIDE DEF d
    <3>2. /\ Value(i.dst).var \in Nameable /\ Value(i.dst).var \in Sources \cup {NULL}
      BY <1>2, <1>3, <1>4, <3>1, OperandValue
    <3>3. Value(i.dst).out \in Seq(Q)
      <4>1. varIndex .. (varIndex + Value(i.dst).temps - 1) \subseteq First(t)
        BY <3>1 DEF First
      <4> HIDE DEF t
      <4> QED
        BY <1>2, <1>4, <4>1, ValueTyped
    <3> QED
      BY <3>1, <3>2, <3>3
  <2> QED
    BY <2>1, <2>2
<1>6. c \in Q
  <2> HIDE DEF d
  <2> QED
    BY <1>5, ComparisonsTyped, TypesTyped, OperandSizes
<1>7. f \in Q
  <2>1. flag.size \in Sizes
    BY DEF GenInv, GenTypeOK, Sizes
  <2>2. /\ flag.var1 \in Sources \cup {NULL} /\ flag.var2 \in Sources \cup {NULL}
        /\ flag.result \in Sources \cup {NULL}
    BY DEF Sources, Held, InSlots
  <2> HIDE DEF d
  <2> QED
    BY <2>1, <2>2, FeedbackTyped, TypesTyped
<1>8. emitted' \in Seq(Q)
  <2> HIDE DEF Q, c, d, f
  <2>1. (IF d.var # NULL THEN <<c>> ELSE <<>>) \in Seq(Q)
    BY <1>6, EmptySeq
  <2>2. (IF Telling(i) THEN <<f>> ELSE <<>>) \in Seq(Q)
    BY <1>7, EmptySeq
  <2> QED
    BY <1>1, <1>5, <2>1, <2>2, Concatenated
<1>9. Speaks
  <2>1. SpeaksOfFlags /\ Sources \subseteq Sources
    BY DEF SpeaksOfFlags
  <2> HIDE DEF t
  <2> QED
    BY <1>4, <1>8, <2>1, Zenon DEF Speaks
<1>10. reg' \in [Slots -> Nameable]
  <2> HIDE DEF d
  <2> QED
    BY <1>1, <1>5, RegistersNameable, SetRegisterTyped DEF Nameable
<1>11. varIndex <= varIndex'
  <2> HIDE DEF t
  <2> QED
    BY <1>1, <1>3 DEF GenInv
<1> QED
  BY <1>1, <1>4, <1>9, <1>10, <1>11 DEF StepTyped

LEMMA LoadAddressTyped ==
    ASSUME GenInv, NEW i \in Code, LoadAddress(i)
    PROVE  StepTyped
<1> DEFINE c == ConstraintADD(Num(OperandSize(i)), Base(i.src), Index(i.src), NewId(1))
           Q == ConstraintsOver(Sources, Later(0), First(0))
<1>1. CASE ~AddressKnown(i.src)
  BY <1>1, Quiet DEF LoadAddress
<1>2. CASE AddressKnown(i.src)
  <2>1. /\ reg' = SetRegister(reg, Slot(i.dst), NewId(1)) /\ varIndex' = varIndex + 1
        /\ emitted' = <<c>> /\ flag' = flag
    BY <1>2 DEF LoadAddress
  <2>2. ~AddressFails(i.src) /\ i.op = "LEA"
    BY DEF LoadAddress, Handle, AssertFails
  <2>3. Base(i.src) \in InRegisters
    <3>1. i.src.reg \in Quads \cup Singles
      BY <2>2, OperandAssumption DEF AddressFails, OnFrame, IsMemory
    <3> QED
      BY <3>1 DEF Base, InRegisters, Slots
  <2>4. Index(i.src) \in InRegisters \cup {NULL}
    BY <2>2 DEF AddressFails, Supported, Index, InRegisters, Slots
  <2>5. /\ varIndex' \in Int /\ varIndex + 0 <= varIndex' /\ Later(0) \subseteq Sources
        /\ NewId(1) \in Nameable /\ NewId(1) \in Later(0)
    BY <2>1, Numbering
  <2>6. InRegisters \subseteq Sources
    BY <2>5, Numbered
  <2>7. c \in Q
    BY <2>3, <2>4, <2>5, <2>6, CalculationsTyped, TypesTyped, OperandSizes
  <2>8. emitted' \in Seq(Q)
    <3> HIDE DEF Q, c
    <3> QED
      BY <2>1, <2>7
  <2>9. reg' \in [Slots -> Nameable]
    BY <2>1, <2>5, RegistersNameable, SetRegisterTyped DEF Nameable
  <2> QED
    BY <2>1, <2>8, <2>9, Handled
<1> QED
  BY <1>1, <1>2

LEMMA DivideTyped ==
    ASSUME GenInv, NEW i \in Code, Divide(i)
    PROVE  StepTyped
<1> DEFINE dividend == Value(i.src)
           divisor == Value(i.dst)
           t == divisor.temps
           quotient == NewId(t + 1)
           remainder == NewId(t + 2)
           c == ConstraintDIV(Int_(i.src.size, i.op = "IDIV"),
                              dividend.var, divisor.var, quotient, remainder)
           Q == ConstraintsOver(Sources, Later(t), First(t))
<1>1. ~Unsupported(i.dst) /\ ~Unsupported(i.src) /\ IsRegister(i.src)
  BY VisitedOperands, VisitedSupported, OperandAssumption DEF Divide
<1>2. t \in {0, 1} /\ dividend.temps = 0
  <2>1. dividend.temps = 0
    BY <1>1 DEF Value, Lookup, IsRegister
  <2> QED
    BY <1>1, <2>1, OperandTemps
<1>3. ASSUME varIndex' \in Int, varIndex + t <= varIndex'
      PROVE  /\ divisor.var \in Sources \cup {NULL} /\ divisor.out \in Seq(Q)
             /\ dividend.var \in Sources \cup {NULL}
  BY <1>1, <1>2, <1>3, OperandValue
<1>4. CASE ~BothKnown(i)
  <2>1. /\ reg' = reg /\ varIndex' = varIndex + t /\ emitted' = divisor.out /\ flag' = flag
        /\ t \in Nat
    BY <1>2, <1>4 DEF Divide
  <2>2. varIndex' \in Int /\ varIndex + t <= varIndex'
    BY <2>1 DEF GenInv
  <2>3. emitted' \in Seq(Q) /\ reg' \in [Slots -> Nameable]
    BY <1>3, <2>1, <2>2, RegistersNameable
  <2> HIDE DEF t
  <2> QED
    BY <2>1, <2>3, Handled
<1>5. CASE BothKnown(i)
  <2>1. /\ reg' = SetRegister(SetRegister(reg, QuotientSlot(i.src.size), quotient),
                              RemainderSlot(i.src.size), remainder)
        /\ varIndex' = varIndex + t + 2 /\ flag' = flag
        /\ emitted' = divisor.out \o <<c>>
    BY <1>5 DEF Divide
  <2>2. t \in Nat /\ t + 2 \in Nat /\ t <= t + 2 /\ t + 1 \in 1 .. (t + 2) /\ t + 2 \in 1 .. (t + 2)
        /\ t + 1 \in (t + 1) .. (t + 2) /\ t + 2 \in (t + 1) .. (t + 2)
    BY <1>2
  <2>3. varIndex' = varIndex + (t + 2)
    <3> HIDE DEF t
    <3> QED
      BY <2>1, <2>2, Sums DEF GenInv
  <2>4. /\ varIndex' \in Int /\ varIndex + t <= varIndex' /\ Later(t) \subseteq Sources
        /\ quotient \in Nameable /\ remainder \in Nameable
        /\ quotient \in Later(t) /\ remainder \in Later(t)
    <3> HIDE DEF t
    <3> QED
      BY <2>2, <2>3, Numbering
  <2>5. c \in Q
    <3>1. Int_(i.src.size, i.op = "IDIV") \in Types(First(t))
      BY TypesTyped, OperandSizes
    <3> HIDE DEF t, quotient, remainder, dividend, divisor
    <3> QED
      BY <1>3, <2>4, <3>1, DivisionTyped
  <2>6. emitted' \in Seq(Q)
    <3>1. divisor.out \in Seq(Q)
      BY <1>3, <2>4
    <3> HIDE DEF Q, c, divisor
    <3> QED
      BY <2>1, <2>5, <3>1, Appended
  <2>7. reg' \in [Slots -> Nameable]
    <3> HIDE DEF quotient, remainder
    <3>1. SetRegister(reg, QuotientSlot(i.src.size), quotient) \in [Slots -> Nameable]
      BY <2>4, RegistersNameable, SetRegisterTyped DEF Nameable
    <3> QED
      BY <2>1, <2>4, <3>1, SetRegisterTyped DEF Nameable
  <2> HIDE DEF t
  <2> QED
    BY <2>1, <2>2, <2>3, <2>6, <2>7, Handled
<1> QED
  BY <1>4, <1>5

LEMMA CallTyped ==
    ASSUME GenInv, NEW i \in Code, Call(i)
    PROVE  StepTyped
<1>1. /\ reg' = SetRegister(reg, <<"EAX", "E">>, NewId(1)) /\ varIndex' = varIndex + 1
      /\ emitted' = <<>> /\ flag' = flag
  BY DEF Call
<1>2. NewId(1) \in Nameable
  BY <1>1, Numbering
<1>3. reg' \in [Slots -> Nameable]
  BY <1>1, <1>2, RegistersNameable, SetRegisterTyped DEF Nameable
<1>4. emitted' \in Seq(ConstraintsOver(Sources, Later(0), First(0)))
  BY <1>1, EmptySeq
<1> QED
  BY <1>1, <1>3, <1>4, Handled

LEMMA EveryStepTyped ==
    ASSUME GenInv, NEW i \in Code, Step(i)
    PROVE  StepTyped
<1>1. CASE Ignore(i)
  BY <1>1, Quiet DEF Ignore
<1>2. CASE Abort(i)
  BY <1>2, Quiet DEF Abort
<1>3. ASSUME ~Ignore(i), ~Abort(i) PROVE StepTyped
  BY <1>3, MoveToRegisterTyped, ClearRegisterTyped, MoveToMemoryTyped, ExtendTyped, AddSubTyped,
     CompareTyped, IncDecTyped, ShiftTyped, SetOnConditionTyped, LoadAddressTyped, DivideTyped,
     CallTyped DEF Step
<1> QED
  BY <1>1, <1>2, <1>3

(* The rest of a step: the instruction is counted, or the process dies.    *)
LEMMA EveryStepCounts ==
    ASSUME GenInv, NEW i \in Code, Step(i)
    PROVE  /\ esp' \in Int /\ current' \in 0 .. MaxInstructions
           /\ halt' \in {"no", "assert", "null"}
<1>1. esp \in Int /\ current \in 0 .. MaxInstructions /\ halt \in {"no", "assert", "null"}
  BY DEF GenInv, GenTypeOK
<1>2. CASE Abort(i)
  BY <1>1, <1>2 DEF Abort
<1>3. CASE Handle(i)
  <2>1. current' \in 0 .. MaxInstructions /\ halt' \in {"no", "assert", "null"}
    BY <1>1, <1>3, TrackerAssumption DEF Handle
  <2>2. TrackESP(esp, i) \in Int
    <3>1. i.src.disp \in Int
      BY OperandAssumption
    <3>2. Moved(i) \in Int
      BY <3>1 DEF Moved
    <3> QED
      BY <1>1, <3>2 DEF TrackESP, AddESP
  <2> QED
    BY <1>3, <2>1, <2>2 DEF Handle
<1> QED
  BY <1>2, <1>3 DEF Step, Ignore, MoveToRegister, ClearRegister, MoveToMemory, Extend, AddSub,
     Compare, IncDec, Shift, SetOnCondition, LoadAddress, Divide, Call

LEMMA KnownGrow ==
    ASSUME GenInv, varIndex' \in Int, varIndex <= varIndex'
    PROVE  Nameable \subseteq Known' \cup {NULL} /\ Known \subseteq Known'
<1>1. ASSUME NEW f \in Int, NEW m \in Int, NEW n \in Int, f <= m, m <= n
      PROVE  f .. (m - 1) \subseteq f .. (n - 1) /\ m .. (n - 1) \subseteq f .. (n - 1)
  BY <1>1
<1>2. varIndex \in Int /\ FirstTemporary <= varIndex /\ FirstTemporary \in Int
  <2>1. varIndex >= FirstTemporary /\ varIndex \in Int /\ FirstTemporary \in Int
    BY MemoryNumbers DEF GenInv, GenTypeOK
  <2> QED
    BY <2>1
<1>3. /\ FirstTemporary .. (varIndex - 1) \subseteq FirstTemporary .. (varIndex' - 1)
      /\ FreshIds \subseteq FirstTemporary .. (varIndex' - 1)
  BY <1>1, <1>2 DEF FreshIds
<1>4. Known' = MemoryIds \cup (FirstTemporary .. (varIndex' - 1))
  BY DEF Known, MemoryIds, FirstTemporary
<1>5. Known \subseteq Known' /\ FreshIds \subseteq Known' /\ MemoryIds \subseteq Known'
  <2> HIDE DEF Known
  <2>1. Known \subseteq Known'
    BY <1>3, <1>4 DEF Known
  <2> QED
    BY <1>3, <1>4, <2>1
<1>6. InRegisters \subseteq Known \cup {NULL}
  BY DEF InRegisters, GenInv, GenTypeOK
<1> QED
  BY <1>5, <1>6 DEF Nameable

LEMMA InitGen == Init => GenInv
<1> SUFFICES ASSUME Init PROVE GenInv
  OBVIOUS
<1>1. FirstTemporary \in Int
  BY MemoryNumbers
<1>2. reg \in [Slots -> Known \cup {NULL}]
  BY DEF Init, NoVariables
<1>3. flag \in [size : {0, 8, 16, 32}, var1 : Known \cup {NULL}, var2 : Known \cup {NULL},
                result : Known \cup {NULL, Unregistered}]
  BY DEF Init, NoFlag
<1>4. esp \in Int /\ current \in 0 .. MaxInstructions
  BY TrackerAssumption DEF Init, UNKNOWN
<1>5. varIndex \in Int /\ varIndex >= FirstTemporary /\ halt \in {"no", "assert", "null"}
  BY <1>1 DEF Init
<1> QED
  BY <1>2, <1>3, <1>4, <1>5 DEF GenInv, GenTypeOK

LEMMA NextGen == GenInv /\ [Next]_vars => GenInv'
<1> SUFFICES ASSUME GenInv, [Next]_vars PROVE GenInv'
  OBVIOUS
<1>1. CASE UNCHANGED vars
  BY <1>1 DEF vars, GenInv, GenTypeOK, Known, MemoryIds, FirstTemporary
<1>2. ASSUME NEW i \in Code, Step(i) PROVE GenInv'
  <2>1. StepTyped
    BY <1>2, EveryStepTyped
  <2>2. varIndex' \in Int /\ varIndex <= varIndex'
    BY <2>1 DEF StepTyped
  <2>3. Nameable \subseteq Known' \cup {NULL} /\ Known \subseteq Known'
    BY <2>2, KnownGrow
  <2>4. reg' \in [Slots -> Known' \cup {NULL}]
    BY <2>1, <2>3 DEF StepTyped
  <2>5. flag' \in [size : {0, 8, 16, 32}, var1 : Known' \cup {NULL}, var2 : Known' \cup {NULL},
                   result : Known' \cup {NULL, Unregistered}]
    <3>1. CASE flag' = flag
      BY <2>3, <3>1 DEF GenInv, GenTypeOK
    <3>2. CASE flag' \in FlagsOver(Nameable)
      BY <2>3, <3>2 DEF FlagsOver, Sizes
    <3> QED
      BY <2>1, <3>1, <3>2 DEF StepTyped
  <2>6. FirstTemporary' = FirstTemporary /\ FirstTemporary \in Int
    BY MemoryNumbers DEF FirstTemporary
  <2>7. varIndex' >= FirstTemporary
    <3>1. ASSUME NEW m \in Int, NEW n \in Int, m >= FirstTemporary, m <= n PROVE n >= FirstTemporary
      BY <2>6, <3>1
    <3>2. varIndex \in Int /\ varIndex >= FirstTemporary
      BY DEF GenInv, GenTypeOK
    <3> QED
      BY <2>2, <3>1, <3>2
  <2>8. /\ esp' \in Int /\ current' \in 0 .. MaxInstructions
        /\ halt' \in {"no", "assert", "null"}
    BY <1>2, EveryStepCounts
  <2> HIDE DEF Known, FirstTemporary, Unregistered
  <2>9. GenTypeOK'
    BY <2>4, <2>5, <2>6, <2>7, <2>8 DEF GenTypeOK, Slots, Unregistered
  <2> QED
    BY <2>2, <2>9 DEF GenInv
<1> QED
  BY <1>1, <1>2 DEF Next

(* Registers and flags hold variables that have been numbered, whatever    *)
(* instructions a block is made of.                                        *)
THEOREM NumberedOnly == Spec => []GenTypeOK
<1>1. GenInv => GenTypeOK
  BY DEF GenInv
<1> QED
  BY <1>1, InitGen, NextGen, PTL DEF Spec

(* Every element of such constraints is one of such elements.              *)
LEMMA ElementsTyped ==
    ASSUME NEW S, NEW R, NEW C, NEW Qs \in Seq(ConstraintsOver(S, R, C))
    PROVE  AllElements(Qs) \subseteq ElementsOver(S, R, C)
<1> SUFFICES ASSUME NEW k \in 1 .. Len(Qs), NEW e \in Elements(Qs[k])
             PROVE  e \in ElementsOver(S, R, C)
  BY DEF AllElements
<1>1. Qs[k] \in Seq(PartsOver(S, R, C))
  BY ElementOfSeq DEF ConstraintsOver
<1>2. PICK p \in 1 .. Len(Qs[k]) : e \in {Qs[k][p][n] : n \in 1 .. Len(Qs[k][p])}
  BY DEF Elements
<1>3. Qs[k][p] \in Seq(ElementsOver(S, R, C))
  BY <1>1, ElementOfSeq DEF PartsOver
<1>4. PICK n \in 1 .. Len(Qs[k][p]) : e = Qs[k][p][n]
  BY <1>2
<1> QED
  BY <1>3, <1>4, ElementOfSeq

LEMMA ElementFields ==
    ASSUME NEW S, NEW R, NEW C, NEW e \in ElementsOver(S, R, C)
    PROVE  /\ e.left \in S /\ e.var \in S \cup {NULL} /\ e.type.contain \in C \cup {NULL}
           /\ e.category = "result" => e.left \in R
  BY DEF ElementsOver, Types

(* A step speaks of what was there before it and of what it numbers, and   *)
(* registers and flags hold nothing else after it: for every code.         *)
THEOREM Nowhere == Spec => NothingFromNowhere
<1> DEFINE Known0 == MemoryIds \cup Held(reg, flag) \cup FreshIds
           Allowed == /\ Held(reg', flag') \subseteq Known0 \cup {NULL, Unregistered}
                      /\ MentionedIn(emitted') \subseteq Known0
<1>1. ASSUME GenInv, NEW i \in Code, Step(i) PROVE Allowed
  <2>1. StepTyped
    BY <1>1, EveryStepTyped
  <2>2. Nameable \subseteq Sources \cup {NULL}
    <3>1. varIndex' \in Int /\ varIndex + 0 <= varIndex'
      BY <1>1, <2>1 DEF StepTyped, GenInv
    <3> QED
      BY <1>1, <3>1, Numbered
  <2>3. PICK R, C : /\ R \subseteq Sources /\ C \subseteq Sources
                    /\ emitted' \in Seq(ConstraintsOver(Sources, R, C))
    BY <2>1 DEF StepTyped, Speaks
  <2>4. MentionedIn(emitted') \subseteq Sources
    <3> SUFFICES ASSUME NEW e \in AllElements(emitted') PROVE Mentions(e) \subseteq Sources
      BY DEF MentionedIn, AllElements
    <3> QED
      BY <2>3, ElementsTyped, ElementFields DEF Mentions
  <2>5. {reg'[s] : s \in Slots} \subseteq Sources \cup {NULL}
    BY <2>1, <2>2 DEF StepTyped
  <2>6. {flag'.var1, flag'.var2, flag'.result} \subseteq Sources \cup {NULL, Unregistered}
    <3>1. CASE flag' = flag
      BY <3>1 DEF Sources, Held, InSlots
    <3>2. CASE flag' \in FlagsOver(Nameable)
      BY <2>2, <3>2 DEF FlagsOver
    <3> QED
      BY <2>1, <3>1, <3>2 DEF StepTyped
  <2>7. Sources = Known0
    BY DEF Sources
  <2> QED
    BY <2>4, <2>5, <2>6, <2>7 DEF Held, InSlots
<1>2. GenInv /\ [Next]_vars => [Allowed]_vars
  BY <1>1 DEF Next
<1>3. NothingFromNowhere <=> [][Allowed]_vars
  BY DEF NothingFromNowhere
<1> QED
  BY <1>2, <1>3, InitGen, NextGen, PTL DEF Spec

(* The result of a calculation is a variable of its own: for every code.   *)
THEOREM Fresh == Spec => FreshResults
<1> DEFINE Own == ~(\E i \in Code : SetOnCondition(i)) =>
                      \A e \in AllElements(emitted') : e.category = "result" =>
                          /\ e.left \in FreshIds
                          /\ \A p \in AllElements(emitted') : p.type.contain # e.left
<1>1. ASSUME GenInv, NEW i \in Code, Step(i) PROVE Own
  <2> SUFFICES ASSUME ~SpeaksOfFlags, NEW e \in AllElements(emitted'), e.category = "result"
               PROVE  /\ e.left \in FreshIds
                      /\ \A p \in AllElements(emitted') : p.type.contain # e.left
    BY DEF SpeaksOfFlags
  <2>1. StepTyped
    BY <1>1, EveryStepTyped
  <2>2. PICK R, C : /\ emitted' \in Seq(ConstraintsOver(Sources, R, C))
                    /\ R \subseteq FreshIds /\ R \cap C = {}
    BY <2>1 DEF StepTyped, Speaks
  <2>3. e.left \in R
    BY <2>2, ElementsTyped, ElementFields
  <2>4. e.left # NULL
    <3>1. FreshIds \subseteq Int
      BY DEF FreshIds
    <3> QED
      BY <2>2, <2>3, <3>1, NullAssumption
  <2>5. ASSUME NEW p \in AllElements(emitted') PROVE p.type.contain \in C \cup {NULL}
    BY <2>2, ElementsTyped, ElementFields
  <2> QED
    BY <2>2, <2>3, <2>4, <2>5
<1>2. GenInv /\ [Next]_vars => [Own]_vars
  BY <1>1 DEF Next
<1>3. FreshResults <=> [][Own]_vars
  BY DEF FreshResults
<1> QED
  BY <1>2, <1>3, InitGen, NextGen, PTL DEF Spec

----------------------------------------------------------------------------
(* What becomes of the variables a step numbers.                           *)
PointerTo(v, Qs) == \E e \in AllElements(Qs) : e.type.contain = v
Kept(v) == v \in InSlots(reg') \/ PointerTo(v, emitted')

LEMMA PointerKept ==
    ASSUME NEW X, NEW a \in Seq(X), NEW b \in Seq(X), NEW v
    PROVE  /\ PointerTo(v, a) => PointerTo(v, a \o b)
           /\ PointerTo(v, b) => PointerTo(v, a \o b)
<1>1. /\ Len(a) \in Nat /\ Len(b) \in Nat /\ Len(a \o b) = Len(a) + Len(b)
      /\ \A k \in 1 .. Len(a) + Len(b) :
            (a \o b)[k] = IF k <= Len(a) THEN a[k] ELSE b[k - Len(a)]
  BY ConcatProperties, LenProperties
<1>2. AllElements(a) \subseteq AllElements(a \o b)
  <2> SUFFICES ASSUME NEW k \in 1 .. Len(a)
               PROVE  k \in 1 .. Len(a \o b) /\ (a \o b)[k] = a[k]
    BY DEF AllElements
  <2> QED
    BY <1>1
<1>3. AllElements(b) \subseteq AllElements(a \o b)
  <2> SUFFICES ASSUME NEW k \in 1 .. Len(b)
               PROVE  /\ Len(a) + k \in 1 .. Len(a \o b)
                      /\ (a \o b)[Len(a) + k] = b[k]
    BY DEF AllElements
  <2> QED
    BY <1>1
<1> QED
  BY <1>2, <1>3 DEF PointerTo

LEMMA AddressOf ==
    ASSUME NEW v, NEW p, p # NULL
    PROVE  PointerTo(v, <<ConstraintLEA(v, p)>>)
<1> DEFINE e == [left |-> p, relation |-> "=", type |-> Pointer(v), var |-> NULL,
                 category |-> "operand"]
<1>1. ConstraintLEA(v, p) = <<<<e>>>>
  BY DEF ConstraintLEA, Element
<1>2. e \in Elements(<<<<e>>>>)
  BY DEF Elements
<1>3. e.type.contain = v
  BY DEF Pointer
<1> HIDE DEF e
<1>4. e \in AllElements(<<<<<<e>>>>>>)
  BY <1>2 DEF AllElements
<1> QED
  BY <1>1, <1>3, <1>4 DEF PointerTo

(* The variable pointerInfer() numbers is what a pointer of its constraint *)
(* points to.                                                              *)
LEMMA PointeeKept ==
    ASSUME GenInv, NEW i \in Code, NEW o \in {i.dst, i.src}, ~Unsupported(o), Value(o).temps # 0
    PROVE  PointerTo(varIndex, Value(o).out) /\ IsMemory(o) /\ Value(o).temps = 1
<1>1. IsMemory(o) /\ o.reg \notin {"ESP", "EBP", "none"}
  BY DEF Value, MemoryVariable, Lookup, Unsupported, IsMemory, IsRegister
<1>2. Value(o) = Pointee(reg[<<o.reg, "E">>])
  BY <1>1 DEF Value, MemoryVariable, IsMemory
<1>3. reg[<<o.reg, "E">>] # NULL
  BY <1>2 DEF Pointee, Lookup
<1>4. Value(o).out = <<ConstraintLEA(varIndex, reg[<<o.reg, "E">>])>> /\ Value(o).temps = 1
  BY <1>2, <1>3 DEF Pointee, NewId, GenInv
<1> QED
  BY <1>1, <1>3, <1>4, AddressOf

(* A variable is held after setRegister() has put it in a slot.            *)
LEMMA SetKept ==
    ASSUME NEW F, NEW s \in Slots, NEW v, reg' = SetRegister(F, s, v)
    PROVE  Kept(v)
<1>1. reg'[s] = v
  BY DEF SetRegister
<1> QED
  BY <1>1 DEF Kept, InSlots, Slots

LEMMA SlotOf ==
    ASSUME NEW i \in Code, NEW o \in {i.dst, i.src}, IsRegister(o), ~Unsupported(o)
    PROVE  Slot(o) \in Slots
  BY OperandAssumption DEF Unsupported, Supported, Slot, Slots

LEMMA OneNew ==
    ASSUME GenInv
    PROVE  /\ varIndex' = varIndex => FreshIds = {}
           /\ varIndex' = varIndex + 1 => FreshIds = {varIndex}
           /\ varIndex' = varIndex + 2 => FreshIds = {varIndex, varIndex + 1}
<1>1. \A m \in Int : m .. (m - 1) = {} /\ m .. (m + 1 - 1) = {m} /\ m .. (m + 2 - 1) = {m, m + 1}
  OBVIOUS
<1>2. varIndex \in Int
  BY DEF GenInv
<1> QED
  BY <1>1, <1>2 DEF FreshIds

LEMMA PointersKept ==
    ASSUME NEW X, NEW a \in Seq(X), NEW b \in Seq(X), NEW c \in Seq(X), NEW v,
           PointerTo(v, a) \/ PointerTo(v, b)
    PROVE  PointerTo(v, a \o b \o c)
<1>1. a \o b \in Seq(X)
  BY ConcatProperties
<1>2. PointerTo(v, a \o b)
  BY PointerKept
<1> QED
  BY <1>1, <1>2, PointerKept

(* The constraints of an operand are a sequence of anything, c included.   *)
LEMMA OutTyped ==
    ASSUME GenInv, NEW i \in Code, NEW o \in {i.dst, i.src}, ~Unsupported(o), NEW c, NEW d
    PROVE  Value(o).out \in Seq(ConstraintsOver(InRegisters, {}, {varIndex}) \cup {c, d})
<1> DEFINE Q == ConstraintsOver(InRegisters, {}, {varIndex})
<1>1. varIndex .. (varIndex + Value(o).temps - 1) \subseteq {varIndex}
  <2>1. Value(o).temps \in {0, 1} /\ varIndex \in Int
    BY OperandTemps DEF GenInv
  <2> QED
    BY <2>1
<1>2. Value(o).out \in Seq(Q)
  BY <1>1, ValueTyped
<1> HIDE DEF Q
<1>3. Value(o).out \in Seq(Q \cup {c, d})
  BY <1>2, SeqMonotonic
<1> QED
  BY <1>3 DEF Q

LEMMA OneKept ==
    ASSUME GenInv, NEW i \in Code, NEW o \in {i.dst, i.src}, ~Unsupported(o),
           NEW c, NEW tail \in {<<>>, <<c>>}, emitted' = Value(o).out \o tail
    PROVE  /\ Value(o).temps \in {0, 1}
           /\ Value(o).temps = 1 => Kept(varIndex) /\ ~IsRegister(o)
<1> DEFINE X == ConstraintsOver(InRegisters, {}, {varIndex}) \cup {c, c}
<1>1. Value(o).temps \in {0, 1}
  BY OperandTemps
<1>2. ASSUME Value(o).temps = 1 PROVE Kept(varIndex) /\ ~IsRegister(o)
  <2>1. PointerTo(varIndex, Value(o).out) /\ IsMemory(o)
    BY <1>2, PointeeKept
  <2>2. Value(o).out \in Seq(X) /\ c \in X
    BY OutTyped
  <2> HIDE DEF X
  <2>3. tail \in Seq(X)
    <3>1. <<c>> \in Seq(X)
      BY <2>2
    <3> QED
      BY <3>1, EmptySeq
  <2>4. PointerTo(varIndex, emitted')
    BY <2>1, <2>2, <2>3, PointerKept
  <2> QED
    BY <2>1, <2>4 DEF Kept, IsMemory, IsRegister
<1> QED
  BY <1>1, <1>2

LEMMA TwoKept ==
    ASSUME GenInv, NEW i \in Code, ~Unsupported(i.dst), ~Unsupported(i.src),
           NEW c, NEW tail \in {<<>>, <<c>>},
           emitted' = Value(i.dst).out \o Value(i.src).out \o tail
    PROVE  /\ Value(i.dst).temps + Value(i.src).temps \in {0, 1}
           /\ Value(i.dst).temps + Value(i.src).temps = 1 => Kept(varIndex)
<1> DEFINE X == ConstraintsOver(InRegisters, {}, {varIndex}) \cup {c, c}
           d == Value(i.dst)
           s == Value(i.src)
<1>1. d.temps \in {0, 1} /\ s.temps \in {0, 1}
  BY OperandTemps
<1>2. /\ d.temps # 0 => PointerTo(varIndex, d.out) /\ IsMemory(i.dst)
      /\ s.temps # 0 => PointerTo(varIndex, s.out) /\ IsMemory(i.src)
  BY PointeeKept
<1>3. ~(IsMemory(i.dst) /\ IsMemory(i.src))
  BY OperandAssumption
<1>4. d.out \in Seq(X) /\ s.out \in Seq(X) /\ c \in X
  BY OutTyped
<1> HIDE DEF X, d, s
<1>5. tail \in Seq(X)
  <2>1. <<c>> \in Seq(X)
    BY <1>4
  <2> QED
    BY <2>1, EmptySeq
<1>6. d.temps + s.temps \in {0, 1} /\ (d.temps + s.temps = 1 => d.temps # 0 \/ s.temps # 0)
  BY <1>1, <1>2, <1>3
<1>7. d.temps # 0 \/ s.temps # 0 => PointerTo(varIndex, d.out \o s.out \o tail)
  BY <1>2, <1>4, <1>5, PointersKept
<1>8. d.temps + s.temps = 1 => Kept(varIndex)
  BY <1>6, <1>7 DEF Kept, d, s
<1> QED
  BY <1>6, <1>8 DEF d, s

LEMMA MovesKept ==
    ASSUME GenInv, NEW i \in Code, MoveToRegister(i) \/ MoveToMemory(i) \/ Extend(i),
           NEW v \in FreshIds
    PROVE  Kept(v)
<1>1. CASE MoveToRegister(i)
  <2>1. i.op = "MOV" /\ ~IsMemory(i.dst) /\ Handle(i) /\ ~UsesFrame(i) /\ IsRegister(i.dst)
    BY <1>1 DEF MoveToRegister, IsRegister, IsMemory
  <2>2. ~Unsupported(i.src) /\ Slot(i.dst) \in Slots
    BY <2>1, VisitedOperands, VisitedSupported, SlotOf
  <2>3. CASE IsImmediate(i.src)
    <3>1. reg' = SetRegister(reg, Slot(i.dst), NewId(1)) /\ varIndex' = varIndex + 1
      BY <1>1, <2>3 DEF MoveToRegister
    <3>2. FreshIds = {varIndex} /\ NewId(1) = varIndex
      BY <3>1, OneNew DEF NewId, GenInv
    <3> QED
      BY <2>2, <3>1, <3>2, SetKept
  <2>4. CASE ~IsImmediate(i.src)
    <3>1. varIndex' = varIndex + Value(i.src).temps /\ emitted' = Value(i.src).out
      BY <1>1, <2>4 DEF MoveToRegister
    <3>2. Value(i.src).temps \in {0, 1}
      BY <2>2, OperandTemps
    <3>3. Value(i.src).temps = 1 => PointerTo(varIndex, emitted')
      BY <2>2, <3>1, PointeeKept
    <3>4. varIndex + 0 = varIndex
      BY DEF GenInv
    <3> QED
      BY <3>1, <3>2, <3>3, <3>4, OneNew DEF Kept
  <2> QED
    BY <2>3, <2>4
<1>2. CASE MoveToMemory(i)
  <2> DEFINE c == ConstraintMOV(Value(i.dst).var, Value(i.src).var)
             tail == IF BothKnown(i) THEN <<c>> ELSE <<>>
  <2>1. i.op = "MOV" /\ ~IsImmediate(i.src) /\ Handle(i) /\ ~UsesFrame(i)
    BY <1>2 DEF MoveToMemory, IsRegister, IsImmediate
  <2>2. ~Unsupported(i.dst)
    BY <2>1, VisitedOperands, VisitedSupported
  <2>3. varIndex' = varIndex + Value(i.dst).temps /\ emitted' = Value(i.dst).out \o tail
    BY <1>2 DEF MoveToMemory
  <2>4. tail \in {<<>>, <<c>>}
    OBVIOUS
  <2> HIDE DEF tail, c
  <2>5. /\ Value(i.dst).temps \in {0, 1}
        /\ Value(i.dst).temps = 1 => Kept(varIndex)
    BY <2>2, <2>3, <2>4, OneKept
  <2>6. varIndex + 0 = varIndex
    BY DEF GenInv
  <2> QED
    BY <2>3, <2>5, <2>6, OneNew
<1>3. CASE Extend(i)
  <2> DEFINE s == Value(i.src)
             result == NewId(s.temps + 1)
             signed == i.op = "MOVSX"
             c == ConstraintMOVX(Int_(i.dst.size, signed), Int_(i.src.size, signed), result, s.var)
  <2>1. ~Unsupported(i.src) /\ IsRegister(i.dst) /\ i.op \in {"MOVZX", "MOVSX"}
        /\ Handle(i) /\ ~UsesFrame(i)
    BY <1>3, VisitedOperands, VisitedSupported, OperandAssumption DEF Extend
  <2>2. CASE s.var = NULL
    BY <1>3, <2>2, OneNew DEF Extend
  <2>3. CASE s.var # NULL
    <3>1. Slot(i.dst) \in Slots
      BY <2>1, <2>3, SlotOf DEF Handle, AssertFails
    <3>2. /\ reg' = SetRegister(reg, Slot(i.dst), result)
          /\ varIndex' = varIndex + s.temps + 1 /\ emitted' = s.out \o <<c>>
      BY <1>3, <2>3 DEF Extend
    <3>3. Kept(result)
      BY <3>1, <3>2, SetKept
    <3>4. s.temps \in {0, 1} /\ (s.temps = 1 => Kept(varIndex))
      <4> HIDE DEF c
      <4> QED
        BY <2>1, <3>2, OneKept
    <3> HIDE DEF s
    <3>5. CASE s.temps = 0
      <4>1. result = varIndex /\ varIndex' = varIndex + 1
        BY <3>2, <3>5 DEF NewId, GenInv
      <4> QED
        BY <3>3, <4>1, OneNew
    <3>6. CASE s.temps = 1
      <4>1. result = varIndex + 1 /\ varIndex' = varIndex + 2
        BY <3>2, <3>6 DEF NewId, GenInv
      <4> QED
        BY <3>3, <3>4, <3>6, <4>1, OneNew
    <3> QED
      BY <3>4, <3>5, <3>6
  <2> QED
    BY <2>2, <2>3
<1> QED
  BY <1>1, <1>2, <1>3

LEMMA CalculationsKept ==
    ASSUME GenInv, NEW i \in Code, AddSub(i) \/ Compare(i) \/ IncDec(i) \/ Shift(i),
           NEW v \in FreshIds
    PROVE  Kept(v)
<1> DEFINE d == Value(i.dst)
           s == Value(i.src)
           t == d.temps + s.temps
<1>1. CASE AddSub(i)
  <2> DEFINE registers == IsRegister(i.dst) /\ BothKnown(i)
             result == IF IsMemory(i.dst) THEN NULL
                       ELSE IF registers THEN NewId(t + 1) ELSE Unregistered
             size == OperandSize(i)
             c == IF i.op = "ADD" THEN ConstraintADD(Num(size), d.var, s.var, result)
                                  ELSE ConstraintSUB(Num(size), d.var, s.var, result)
             tail == IF BothKnown(i) THEN <<c>> ELSE <<>>
  <2>1. /\ reg' = IF registers THEN SetRegister(reg, Slot(i.dst), result) ELSE reg
        /\ varIndex' = varIndex + t + (IF registers THEN 1 ELSE 0)
        /\ emitted' = d.out \o s.out \o tail
    BY <1>1 DEF AddSub
  <2>2. ~Unsupported(i.dst) /\ ~Unsupported(i.src)
    BY <1>1, VisitedOperands, VisitedSupported DEF AddSub, TwoOperand
  <2>3. t \in {0, 1} /\ (t = 1 => Kept(varIndex))
    <3>1. tail \in {<<>>, <<c>>}
      OBVIOUS
    <3> HIDE DEF tail, c
    <3> QED
      BY <2>1, <2>2, <3>1, TwoKept
  <2>4. CASE ~registers
    <3>1. varIndex' = varIndex + t
      <4> HIDE DEF registers
      <4>1. varIndex' = varIndex + t + 0
        BY <2>1, <2>4
      <4> HIDE DEF t
      <4> QED
        BY <2>3, <4>1, Sums DEF GenInv
    <3>2. varIndex + 0 = varIndex
      BY DEF GenInv
    <3> HIDE DEF t
    <3> QED
      BY <2>3, <3>1, <3>2, OneNew
  <2>5. CASE registers
    <3>1. Slot(i.dst) \in Slots
      BY <2>2, <2>5, SlotOf
    <3>2. result = NewId(t + 1)
      BY <2>5 DEF IsRegister, IsMemory
    <3>3. Kept(NewId(t + 1)) /\ varIndex' = varIndex + t + 1
      <4> HIDE DEF registers, result
      <4> QED
        BY <2>1, <2>5, <3>1, <3>2, SetKept
    <3> HIDE DEF t
    <3>4. CASE t = 0
      <4>1. NewId(t + 1) = varIndex /\ varIndex' = varIndex + 1
        BY <3>3, <3>4 DEF NewId, GenInv
      <4> QED
        BY <3>3, <4>1, OneNew
    <3>5. CASE t = 1
      <4>1. NewId(t + 1) = varIndex + 1 /\ varIndex' = varIndex + 2
        BY <3>3, <3>5 DEF NewId, GenInv
      <4> QED
        BY <2>3, <3>3, <3>5, <4>1, OneNew
    <3> QED
      BY <2>3, <3>4, <3>5
  <2> QED
    BY <2>4, <2>5
<1>2. CASE Compare(i)
  <2> DEFINE c == ConstraintCMP(Num(OperandSize(i)), d.var, s.var)
             tail == IF BothKnown(i) THEN <<c>> ELSE <<>>
  <2>1. varIndex' = varIndex + d.temps + s.temps /\ emitted' = d.out \o s.out \o tail
    BY <1>2 DEF Compare
  <2>2. ~Unsupported(i.dst) /\ ~Unsupported(i.src)
    BY <1>2, VisitedOperands, VisitedSupported DEF Compare, TwoOperand
  <2>3. t \in {0, 1} /\ (t = 1 => Kept(varIndex))
    <3>1. tail \in {<<>>, <<c>>}
      OBVIOUS
    <3> HIDE DEF tail, c
    <3> QED
      BY <2>1, <2>2, <3>1, TwoKept
  <2>4. varIndex' = varIndex + t
    <3>1. d.temps \in {0, 1} /\ s.temps \in {0, 1}
      BY <2>2, OperandTemps
    <3> QED
      BY <2>1, <3>1, Sums DEF GenInv
  <2>5. varIndex + 0 = varIndex
    BY DEF GenInv
  <2> HIDE DEF t
  <2> QED
    BY <2>3, <2>4, <2>5, OneNew
<1>3. CASE IncDec(i)
  <2> DEFINE c == ConstraintDEC_INC(Num(i.dst.size), d.var)
             tail == IF d.var # NULL THEN <<c>> ELSE <<>>
  <2>1. varIndex' = varIndex + d.temps /\ emitted' = d.out \o tail
    BY <1>3 DEF IncDec
  <2>2. ~Unsupported(i.dst)
    BY <1>3, VisitedOperands, VisitedSupported DEF IncDec, OneOperand
  <2>3. tail \in {<<>>, <<c>>}
    OBVIOUS
  <2> HIDE DEF tail, c
  <2>4. d.temps \in {0, 1} /\ (d.temps = 1 => Kept(varIndex))
    BY <2>1, <2>2, <2>3, OneKept
  <2>5. varIndex + 0 = varIndex
    BY DEF GenInv
  <2> QED
    BY <2>1, <2>4, <2>5, OneNew
<1>4. CASE Shift(i)
  <2>1. ~Unsupported(i.dst)
    BY <1>4, VisitedOperands, VisitedSupported DEF Shift, OneOperand
  <2>2. CASE IsRegister(i.dst) /\ d.var # NULL
    <3>1. Slot(i.dst) \in Slots
      BY <2>1, <2>2, SlotOf
    <3>2. reg' = SetRegister(reg, Slot(i.dst), NewId(1)) /\ varIndex' = varIndex + 1
      BY <1>4, <2>2 DEF Shift, IsRegister, IsMemory
    <3>3. FreshIds = {varIndex} /\ NewId(1) = varIndex
      BY <3>2, OneNew DEF NewId, GenInv
    <3> QED
      BY <3>1, <3>2, <3>3, SetKept
  <2>3. CASE ~(IsRegister(i.dst) /\ d.var # NULL)
    <3>1. varIndex' = varIndex
      <4>1. varIndex' = varIndex + 0
        BY <1>4, <2>3 DEF Shift
      <4> QED
        BY <4>1 DEF GenInv
    <3> QED
      BY <3>1, OneNew
  <2> QED
    BY <2>2, <2>3
<1> QED
  BY <1>1, <1>2, <1>3, <1>4

LEMMA OthersKept ==
    ASSUME GenInv, NEW i \in Code,
           SetOnCondition(i) \/ LoadAddress(i) \/ Divide(i) \/ Call(i), NEW v \in FreshIds
    PROVE  Kept(v)
<1> DEFINE d == Value(i.dst)
<1>1. CASE SetOnCondition(i)
  <2>1. ~Unsupported(i.dst)
    BY <1>1, VisitedOperands, VisitedSupported DEF SetOnCondition
  <2>2. CASE IsRegister(i.dst)
    <3>1. Slot(i.dst) \in Slots
      BY <2>1, <2>2, SlotOf
    <3>2. reg' = SetRegister(reg, Slot(i.dst), NewId(1)) /\ varIndex' = varIndex + 1
      BY <1>1, <2>2 DEF SetOnCondition
    <3>3. FreshIds = {varIndex} /\ NewId(1) = varIndex
      BY <3>2, OneNew DEF NewId, GenInv
    <3> QED
      BY <3>1, <3>2, <3>3, SetKept
  <2>3. CASE ~IsRegister(i.dst)
    <3> DEFINE c == ConstraintSET(Num(i.dst.size), d.var)
               f == ConditionFeedback(Int_(flag.size, Signed(i.cond)),
                                      flag.var1, flag.var2, flag.result)
               X == ConstraintsOver(InRegisters, {}, {varIndex}) \cup {c, f}
               first == IF d.var # NULL THEN <<c>> ELSE <<>>
               second == IF Telling(i) THEN <<f>> ELSE <<>>
    <3>1. varIndex' = varIndex + d.temps /\ emitted' = d.out \o first \o second
      BY <1>1, <2>3 DEF SetOnCondition
    <3>2. d.temps \in {0, 1} /\ (d.temps # 0 => PointerTo(varIndex, d.out))
      BY <2>1, OperandTemps, PointeeKept
    <3>3. d.out \in Seq(X) /\ c \in X /\ f \in X
      BY <2>1, OutTyped
    <3> HIDE DEF X, c, f
    <3>4. <<c>> \in Seq(X) /\ <<f>> \in Seq(X) /\ <<>> \in Seq(X)
      BY <3>3, EmptySeq
    <3>5. first \in Seq(X) /\ second \in Seq(X)
      BY <3>4
    <3> HIDE DEF first, second, d
    <3>6. d.temps # 0 => PointerTo(varIndex, emitted')
      BY <3>1, <3>2, <3>3, <3>5, PointersKept
    <3>7. varIndex + 0 = varIndex
      BY DEF GenInv
    <3> QED
      BY <3>1, <3>2, <3>6, <3>7, OneNew DEF Kept
  <2> QED
    BY <2>2, <2>3
<1>2. CASE LoadAddress(i)
  <2>1. CASE ~AddressKnown(i.src)
    BY <1>2, <2>1, OneNew DEF LoadAddress
  <2>2. CASE AddressKnown(i.src)
    <3>1. i.op = "LEA" /\ ~Unsupported(i.dst)
      BY <1>2, <2>2 DEF LoadAddress, Handle, AssertFails
    <3>2. Slot(i.dst) \in Slots
      BY <3>1, SlotOf, OperandAssumption
    <3>3. reg' = SetRegister(reg, Slot(i.dst), NewId(1)) /\ varIndex' = varIndex + 1
      BY <1>2, <2>2 DEF LoadAddress
    <3>4. FreshIds = {varIndex} /\ NewId(1) = varIndex
      BY <3>3, OneNew DEF NewId, GenInv
    <3> QED
      BY <3>2, <3>3, <3>4, SetKept
  <2> QED
    BY <2>1, <2>2
<1>3. CASE Divide(i)
  <2> DEFINE t == d.temps
             quotient == NewId(t + 1)
             remainder == NewId(t + 2)
             c == ConstraintDIV(Int_(i.src.size, i.op = "IDIV"),
                                Value(i.src).var, d.var, quotient, remainder)
             size == i.src.size
             R == SetRegister(reg, QuotientSlot(size), quotient)
             tail == IF BothKnown(i) THEN <<c>> ELSE <<>>
  <2>1. ~Unsupported(i.dst)
    BY <1>3, VisitedOperands, VisitedSupported DEF Divide
  <2>2. t \in {0, 1} /\ (t = 1 => PointerTo(varIndex, d.out))
    BY <2>1, OperandTemps, PointeeKept
  <2>3. CASE ~BothKnown(i)
    <3>1. varIndex' = varIndex + t /\ emitted' = d.out
      BY <1>3, <2>3 DEF Divide
    <3>2. varIndex + 0 = varIndex
      BY DEF GenInv
    <3> HIDE DEF t, d
    <3> QED
      BY <2>2, <3>1, <3>2, OneNew DEF Kept
  <2>4. CASE BothKnown(i)
    <3>1. /\ reg' = SetRegister(R, RemainderSlot(size), remainder)
          /\ varIndex' = varIndex + t + 2 /\ emitted' = d.out \o <<c>>
      BY <1>3, <2>4 DEF Divide
    <3>2. t = 1 => Kept(varIndex)
      <4> HIDE DEF c
      <4> QED
        BY <2>1, <3>1, OneKept
    <3>3. QuotientSlot(size) \in Slots /\ RemainderSlot(size) \in Slots
      BY TrackerAssumption DEF QuotientSlot, RemainderSlot, Slots
    <3>4. Kept(remainder)
      <4> HIDE DEF R, remainder, size
      <4> QED
        BY <3>1, <3>3, SetKept
    <3>5. Kept(quotient)
      <4>1. R[QuotientSlot(size)] = quotient
        <5> HIDE DEF quotient, size
        <5> QED
          BY <3>3 DEF SetRegister
      <4>2. reg'[QuotientSlot(size)] = R[QuotientSlot(size)]
        <5> HIDE DEF quotient, remainder, size, R
        <5> QED
          BY <3>1, <3>3 DEF SetRegister, QuotientSlot, RemainderSlot
      <4> HIDE DEF R, quotient, size
      <4> QED
        BY <3>3, <4>1, <4>2 DEF Kept, InSlots, Slots
    <3>6. \A w \in FreshIds : w \in {quotient, remainder} \/ (t = 1 /\ w = varIndex)
      <4>1. ASSUME NEW m \in Int, NEW w \in m .. (m + t + 2 - 1)
            PROVE  w \in {m + (t + 1) - 1, m + (t + 2) - 1} \/ (t = 1 /\ w = m)
        <5> HIDE DEF t
        <5> QED
          BY <2>2, <4>1
      <4>2. varIndex' = varIndex + t + 2
        BY <3>1
      <4> HIDE DEF t
      <4>3. \A w \in FreshIds : w \in varIndex .. (varIndex + t + 2 - 1)
        <5>1. ASSUME NEW m \in Int, NEW n \in Int, n = m + t + 2
              PROVE  \A w \in m .. (n - 1) : w \in m .. (m + t + 2 - 1)
          BY <2>2, <5>1
        <5> QED
          BY <2>2, <4>2, <5>1 DEF FreshIds, GenInv
      <4> QED
        BY <4>1, <4>3 DEF NewId, GenInv
    <3> HIDE DEF quotient, remainder, t
    <3> QED
      BY <3>2, <3>4, <3>5, <3>6
  <2> QED
    BY <2>3, <2>4
<1>4. CASE Call(i)
  <2>1. <<"EAX", "E">> \in Slots
    BY TrackerAssumption DEF Slots
  <2>2. reg' = SetRegister(reg, <<"EAX", "E">>, NewId(1)) /\ varIndex' = varIndex + 1
    BY <1>4 DEF Call
  <2>3. FreshIds = {varIndex} /\ NewId(1) = varIndex
    BY <2>2, OneNew DEF NewId, GenInv
  <2> QED
    BY <2>1, <2>2, <2>3, SetKept
<1> QED
  BY <1>1, <1>2, <1>3, <1>4

(* What is numbered ends up in a register or behind a pointer, for every   *)
(* code; the flags do not count.                                           *)
THEOREM NothingLost == Spec => NumberedIsHeld
<1> DEFINE Lossless ==
        \A v \in FreshIds :
            \/ v \in InSlots(reg')
            \/ \E e \in AllElements(emitted') : e.type.contain = v
<1>1. ASSUME GenInv, NEW i \in Code, Step(i) PROVE Lossless
  <2>1. CASE Ignore(i) \/ ClearRegister(i) \/ Abort(i)
    BY <1>1, <2>1, OneNew DEF Ignore, ClearRegister, Abort
  <2>2. CASE ~(Ignore(i) \/ ClearRegister(i) \/ Abort(i))
    <3>1. \A v \in FreshIds : Kept(v)
      BY <1>1, <2>2, MovesKept, CalculationsKept, OthersKept DEF Step
    <3> QED
      BY <3>1 DEF Kept, PointerTo
  <2> QED
    BY <2>1, <2>2
<1>2. GenInv /\ [Next]_vars => [Lossless]_vars
  BY <1>1 DEF Next
<1>3. NumberedIsHeld <=> [][Lossless]_vars
  BY DEF NumberedIsHeld
<1> QED
  BY <1>2, <1>3, InitGen, NextGen, PTL DEF Spec

=============================================================================
