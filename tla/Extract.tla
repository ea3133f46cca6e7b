------------------------------- MODULE Extract -------------------------------
(***************************************************************************)
(* The constraint each instruction yields (extract.cpp) over the types of  *)
(* constraint.h.  A constraint is a sequence of parts, of which at least   *)
(* one holds; a part is a sequence of elements, which hold together; an    *)
(* element bounds or equates a variable with a type or another variable.   *)
(*                                                                         *)
(* Source: project/source/extract.cpp, project/include/constraint.h.       *)
(*                                                                         *)
(* An operand that is NULL in a call contributes no element.               *)
(***************************************************************************)
EXTENDS Variables, Sequences

Num(size) == [name |-> "num", size |-> size, contain |-> NULL]
Int_(size, signed) ==
    [name |-> IF signed THEN "int" ELSE "uint", size |-> size, contain |-> NULL]
Pointer(contain) == [name |-> "ptr", size |-> 32, contain |-> contain]
Ptr == Pointer(NULL)
NoType == [name |-> "none", size |-> 0, contain |-> NULL]

(* An element as a sequence: empty for a variable that is NULL.            *)
Element(v, relation, type, var, category) ==
    IF v = NULL THEN <<>>
    ELSE <<[left |-> v, relation |-> relation, type |-> type, var |-> var,
            category |-> category]>>

OperandOf(v, type) == Element(v, "<", type, NULL, "operand")
ResultOf(v, type) == Element(v, "<", type, NULL, "result")

(* num + num, and for 32 bits pointer + num and num + pointer.             *)
ConstraintADD(type, v1, v2, r) ==
    <<OperandOf(v1, type) \o OperandOf(v2, type) \o ResultOf(r, type)>>
    \o (IF type.size # 32 THEN <<>> ELSE
        <<OperandOf(v1, Ptr) \o OperandOf(v2, Num(32)) \o ResultOf(r, Ptr)>>)
    \o (IF type.size # 32 \/ v2 = NULL THEN <<>> ELSE
        <<OperandOf(v2, Ptr) \o OperandOf(v1, Num(32)) \o ResultOf(r, Ptr)>>)

(* num - num, and for 32 bits pointer - num and pointer - pointer.         *)
ConstraintSUB(type, v1, v2, r) ==
    <<OperandOf(v1, type) \o OperandOf(v2, type) \o ResultOf(r, type)>>
    \o (IF type.size # 32 THEN <<>> ELSE
        <<OperandOf(v1, Ptr) \o OperandOf(v2, Num(32)) \o ResultOf(r, Ptr)>>)
    \o (IF type.size # 32 \/ v2 = NULL THEN <<>> ELSE
        <<OperandOf(v2, Ptr) \o OperandOf(v1, Ptr) \o ResultOf(r, Num(32))>>)

(* num compared with num, pointer compared with pointer.                   *)
ConstraintCMP(type, v1, v2) ==
    <<OperandOf(v1, type) \o OperandOf(v2, type)>>
    \o (IF type.size # 32 \/ v2 = NULL THEN <<>> ELSE
        <<OperandOf(v2, Ptr) \o OperandOf(v1, Ptr)>>)

ConstraintDEC_INC(type, v) ==
    <<OperandOf(v, type)>> \o (IF type.size # 32 THEN <<>> ELSE <<OperandOf(v, Ptr)>>)

(* The same list P is extended for the remainder and added a second time,  *)
(* so both parts are the whole list.                                       *)
ConstraintDIV(type, v1, v2, quotient, remainder) ==
    LET P == OperandOf(v1, type) \o OperandOf(v2, type) \o ResultOf(quotient, type)
             \o OperandOf(v1, type) \o OperandOf(v2, type) \o ResultOf(remainder, type)
    IN  <<P, P>>

(* Shifts, and ConstraintREVERSE for NOT and NEG.  The result is entered   *)
(* with the category of an operand.                                        *)
ConstraintSHIFT(type, v, r) == <<OperandOf(v, type) \o OperandOf(r, type)>>

ConstraintSET(type, v) == <<OperandOf(v, type)>>

ConstraintMOV(v1, v2) == <<Element(v1, "=", NoType, v2, "operand")>>

ConstraintMOVX(type1, type2, v1, v2) == <<OperandOf(v2, type2) \o ResultOf(v1, type1)>>

(* calcResult is a pointer to contain.                                     *)
ConstraintLEA(contain, r) == <<Element(r, "=", Pointer(contain), NULL, "operand")>>

ConditionFeedback(type, v1, v2, r) ==
    <<OperandOf(v1, type) \o OperandOf(v2, type) \o ResultOf(r, type)>>

(* The variable that stands for those of the branches: above each of them. *)
ConstraintMerge(v, list) ==
    <<[k \in 1 .. Len(list) |->
        [left |-> v, relation |-> "<", type |-> NoType, var |-> list[k],
         category |-> "operand"]]>>

----------------------------------------------------------------------------
Elements(Q) == UNION {{Q[p][k] : k \in 1 .. Len(Q[p])} : p \in 1 .. Len(Q)}

(* The ids an element mentions.                                            *)
Mentions(e) == {e.left, e.var, e.type.contain} \ {NULL}

=============================================================================
