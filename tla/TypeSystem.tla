------------------------------ MODULE TypeSystem ------------------------------
(***************************************************************************)
(* The hierarchy of types and the comparison by which the solver keeps the *)
(* more accurate of two bounds.  A smaller type says more of a variable.   *)
(*                                                                         *)
(* Source: project/include/constraint.h, project/source/constraint.cpp.    *)
(***************************************************************************)
EXTENDS Extract

(* getLevel().  No constraint is made of a register or of the All type.    *)
Level == [reg |-> 1, num |-> 2, ptr |-> 2, int |-> 3, uint |-> 3, all |-> 4]

(* The TypeName: signed and unsigned integers are both INTEGER.            *)
SameName(a, b) == a.name = b.name \/ {a.name, b.name} = {"int", "uint"}

(* CompareType() returns true.                                             *)
Comparable(a, b) == SameName(a, b) \/ "all" \in {a.name, b.name} \/ a.size = b.size

(* The sign of the `answer` of CompareType(): negative if a is smaller.    *)
Answer(a, b) ==
    IF SameName(a, b) THEN a.size - b.size ELSE Level[b.name] - Level[a.name]

Smaller(a, b) == Comparable(a, b) /\ Answer(a, b) < 0

=============================================================================
