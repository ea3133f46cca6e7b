------------------------------ MODULE TypeSolver ------------------------------
(***************************************************************************)
(* TypeSolver::processSolving(): one pass over the constraints replaces    *)
(* variables by others they equal, a second one keeps an upper bound for   *)
(* each variable that is left.                                             *)
(*                                                                         *)
(* Source: project/source/typeslvr.cpp, project/source/constraint.cpp.     *)
(*                                                                         *)
(* The solver walks through the elements of all parts of all constraints   *)
(* in their order, so the list is kept as one sequence of elements, each   *)
(* with the number of its part.  Nothing is ever inserted or removed.  The *)
(* working lists, lowerBound and searchResult() are without effect.        *)
(***************************************************************************)
EXTENDS TypeSystem, SequencesExt

CONSTANTS
    MemoryVars,     \* variables of the regions Stack and Absolute
    TempVars,       \* variables of the region Temporary
    Stranger,       \* the id of an object that was never registered
    Constraints,    \* the constraints a list may be made of
    MaxConstraints  \* bound on the length of the list

VARIABLES
    given,          \* the elements as they came
    elements,       \* the elements now
    cursor,         \* the element the current pass looks at
    upperBound,     \* the type of each variable, NULL for none
    equalityPair,   \* memory variable -> memory variable
    phase,          \* "equal", "bound", "print", "done"
    halt            \* "no", or how the process died: "assert" or "null"

vars == <<given, elements, cursor, upperBound, equalityPair, phase, halt>>

RegisteredVars == MemoryVars \cup TempVars
Vars == RegisteredVars \cup {Stranger}

(* What extract.cpp makes: a variable equals another one or a type, stays  *)
(* below another one, or is bounded by a type.  Only the result of a       *)
(* comparison, which is bounded, may be an id that was never registered.   *)
Types == [name : DOMAIN Level, size : Nat, contain : Vars \cup {NULL}]
Categories == {"operand", "result"}
Equalities ==
    [left : RegisteredVars, relation : {"="}, type : Types \cup {NoType},
     var : RegisteredVars \cup {NULL}, category : Categories]
Orders ==
    [left : RegisteredVars, relation : {"<"}, type : {NoType}, var : RegisteredVars,
     category : Categories]
TypeBounds ==
    [left : Vars, relation : {"<"}, type : Types, var : {NULL}, category : Categories]

ASSUME SolverAssumption ==
    /\ MaxConstraints \in Nat
    /\ MemoryVars \cap TempVars = {} /\ NULL \notin Vars \cup Types
    /\ \A Q \in Constraints : Q \in Seq(Seq(Equalities \cup Orders \cup TypeBounds))

----------------------------------------------------------------------------
NumberedPart(Q, p) ==
    [k \in 1 .. Len(Q[p]) |->
        [left |-> Q[p][k].left, relation |-> Q[p][k].relation, type |-> Q[p][k].type,
         var |-> Q[p][k].var, part |-> p - 1]]
AllParts(Q) == FlattenSeq([p \in 1 .. Len(Q) |-> NumberedPart(Q, p)])

Init ==
    /\ \E n \in 0 .. MaxConstraints : \E list \in [1 .. n -> Constraints] :
            given = FlattenSeq([c \in 1 .. n |-> AllParts(list[c])])
    /\ elements = given
    /\ cursor = 1
    /\ upperBound = [v \in RegisteredVars |-> NULL]
    /\ equalityPair = [v \in {} |-> NULL]
    /\ phase = "equal"
    /\ halt = "no"

(* Slip: only left hands are replaced.                                     *)
ReplaceLeftOnly(v1, v2) ==
    [k \in DOMAIN elements |->
        IF elements[k].left = v1 THEN [elements[k] EXCEPT !.left = v2] ELSE elements[k]]

(* replaceVariable(): the right hand of an element whose left hand was     *)
(* replaced stays as it is, and so does the variable a pointer contains.   *)
Replace(v1, v2) ==
    [k \in DOMAIN elements |->
        LET e == elements[k]
        IN  IF e.left = v1 THEN [e EXCEPT !.left = v2]
            ELSE IF e.var = v1 THEN [e EXCEPT !.var = v2] ELSE e]

(* equalityPair[v1] = v2.                                                  *)
Pair(v1, v2) ==
    [v \in DOMAIN equalityPair \cup {v1} |-> IF v = v1 THEN v2 ELSE equalityPair[v]]

----------------------------------------------------------------------------
AtElement(p) == phase = p /\ halt = "no" /\ cursor <= Len(elements)
Here == elements[cursor]
EqualVars == AtElement("equal") /\ Here.relation = "=" /\ Here.var # NULL

(* ASSERT(!typeContainer.empty()).                                         *)
NoConstraints ==
    /\ phase = "equal" /\ halt = "no" /\ elements = <<>>
    /\ halt' = "assert"
    /\ UNCHANGED <<given, elements, cursor, upperBound, equalityPair, phase>>

(* Slip: the pair is recorded the other way round.                         *)
MemoryEqualsMemoryReversed ==
    /\ EqualVars /\ Here.left \in MemoryVars /\ Here.var \in MemoryVars
    /\ elements' = Replace(Here.var, Here.left)
    /\ equalityPair' = Pair(Here.left, Here.var)
    /\ cursor' = cursor + 1
    /\ UNCHANGED <<given, upperBound, phase, halt>>

(* equalConstraint(), memory = memory: the right one is replaced and the   *)
(* two are recorded.                                                       *)
MemoryEqualsMemory ==
    /\ EqualVars /\ Here.left \in MemoryVars /\ Here.var \in MemoryVars
    /\ elements' = Replace(Here.var, Here.left)
    /\ equalityPair' = Pair(Here.var, Here.left)
    /\ cursor' = cursor + 1
    /\ UNCHANGED <<given, upperBound, phase, halt>>

(* Slip: the temporary one stays.                                          *)
TempEqualsMemoryReversed ==
    /\ EqualVars /\ Here.left \in TempVars /\ Here.var \in MemoryVars
    /\ elements' = Replace(Here.var, Here.left)
    /\ cursor' = cursor + 1
    /\ UNCHANGED <<given, upperBound, equalityPair, phase, halt>>

(* temporary = memory: the temporary one is replaced.                      *)
TempEqualsMemory ==
    /\ EqualVars /\ Here.left \in TempVars /\ Here.var \in MemoryVars
    /\ elements' = Replace(Here.left, Here.var)
    /\ cursor' = cursor + 1
    /\ UNCHANGED <<given, upperBound, equalityPair, phase, halt>>

(* Slip: the pair is recorded whatever the regions are.                    *)
EqualsTempRecorded ==
    /\ EqualVars /\ Here.left \in RegisteredVars /\ Here.var \in TempVars
    /\ elements' = Replace(Here.var, Here.left)
    /\ equalityPair' = Pair(Here.var, Here.left)
    /\ cursor' = cursor + 1
    /\ UNCHANGED <<given, upperBound, phase, halt>>

(* memory = temporary, temporary = temporary: the right one is replaced.   *)
EqualsTemp ==
    /\ EqualVars /\ Here.left \in RegisteredVars /\ Here.var \in TempVars
    /\ elements' = Replace(Here.var, Here.left)
    /\ cursor' = cursor + 1
    /\ UNCHANGED <<given, upperBound, equalityPair, phase, halt>>

(* Any other element, variable = type among them.                          *)
SkipElement ==
    /\ AtElement("equal") /\ ~EqualVars
    /\ cursor' = cursor + 1
    /\ UNCHANGED <<given, elements, upperBound, equalityPair, phase, halt>>

StartBounds ==
    /\ phase = "equal" /\ halt = "no" /\ elements # <<>> /\ cursor > Len(elements)
    /\ cursor' = 1
    /\ phase' = "bound"
    /\ UNCHANGED <<given, elements, upperBound, equalityPair, halt>>

----------------------------------------------------------------------------
(* Slip: a type that is not smaller replaces the bound, too.               *)
TightenedByLast(old, type) ==
    IF old = NULL \/ Comparable(type, old) THEN type ELSE old

(* subConstraint(): the first type, then any smaller one; what to do with  *)
(* types that cannot be compared is left to do.                            *)
Tightened(old, type) ==
    IF old = NULL THEN type ELSE IF Smaller(type, old) THEN type ELSE old

Bound(v) == IF v \in DOMAIN upperBound THEN upperBound[v] ELSE NULL

(* An element of a constraint's first part that bounds a variable by a     *)
(* type; the map has no entry for an id that was never registered.         *)
Bounds(e) == e.part = 0 /\ e.relation = "<" /\ e.var = NULL

SubConstraint ==
    /\ AtElement("bound") /\ Bounds(Here)
    /\ upperBound' = [v \in DOMAIN upperBound \cup {Here.left} |->
                        IF v = Here.left THEN Tightened(Bound(v), Here.type) ELSE upperBound[v]]
    /\ cursor' = cursor + 1
    /\ UNCHANGED <<given, elements, equalityPair, phase, halt>>

(* variable < variable is left to do; other parts are not looked at.       *)
SkipBound ==
    /\ AtElement("bound") /\ ~Bounds(Here)
    /\ cursor' = cursor + 1
    /\ UNCHANGED <<given, elements, upperBound, equalityPair, phase, halt>>

(* The bounds are printed with the sizes of the variables, which an        *)
(* unregistered one has not got.                                           *)
Report ==
    /\ phase = "bound" /\ halt = "no" /\ cursor > Len(elements)
    /\ IF DOMAIN upperBound \subseteq RegisteredVars
       THEN phase' = "done" /\ UNCHANGED halt
       ELSE halt' = "null" /\ UNCHANGED phase
    /\ UNCHANGED <<given, elements, cursor, upperBound, equalityPair>>

Next ==
    \/ NoConstraints
    \/ MemoryEqualsMemory \/ TempEqualsMemory \/ EqualsTemp \/ SkipElement
    \/ StartBounds \/ SubConstraint \/ SkipBound \/ Report

Spec == Init /\ [][Next]_vars

----------------------------------------------------------------------------
(* Reference: the variables that the first n elements say are equal to v:  *)
(* no set that each of these equalities stays in or out of has just one of *)
(* the two.                                                                *)
Equal(n) ==
    {<<given[k].left, given[k].var>> :
        k \in {k \in 1 .. n : given[k].relation = "=" /\ given[k].var # NULL}}
EqualTo(v, n) ==
    LET equal == Equal(n)
        closed == {S \in SUBSET RegisteredVars : \A p \in equal : p[1] \in S <=> p[2] \in S}
    IN  {u \in Vars : \A S \in closed : u \in S <=> v \in S}

Processed == IF phase = "equal" THEN cursor - 1 ELSE Len(given)

SolverTypeOK ==
    /\ Len(elements) = Len(given)
    /\ \A k \in DOMAIN elements :
        elements[k].left \in Vars /\ elements[k].var \in RegisteredVars \cup {NULL}
    /\ cursor \in 1 .. (Len(elements) + 1)
    /\ DOMAIN upperBound \subseteq Vars
    /\ DOMAIN equalityPair \subseteq MemoryVars
    /\ phase \in {"equal", "bound", "done"}
    /\ halt \in {"no", "assert", "null"}

(* After any number of elements, two left hands have been made the same    *)
(* variable exactly if the equalities so far, in whatever order they came  *)
(* and whichever of them earlier replacements have rewritten, make them    *)
(* equal; and it is one of the variables they equal.                       *)
OneNamePerClass ==
    \A k \in DOMAIN given :
        LET class == EqualTo(given[k].left, Processed)
        IN  /\ elements[k].left \in class
            /\ \A l \in DOMAIN given :
                given[l].left \in class => elements[l].left = elements[k].left

(* What stands for a class of equal variables is a memory variable when    *)
(* there is one in it, so that its bound is a result about memory.         *)
NamedByMemory ==
    \A k \in DOMAIN elements :
        EqualTo(given[k].left, Processed) \cap MemoryVars # {} =>
            elements[k].left \in MemoryVars

(* Where the pairs lead from v, v itself included.                         *)
PairedFrom(v) ==
    LET closed == {S \in SUBSET MemoryVars : v \in S /\
                        \A w \in S \cap DOMAIN equalityPair : equalityPair[w] \in S}
    IN  {u \in MemoryVars : \A S \in closed : u \in S}

(* equalityPair tells for each replaced memory variable, over one or more  *)
(* pairs, which variable carries its bound; they end there, and never lead *)
(* in a circle other than from a variable to itself.                       *)
PairsLeadToName ==
    \A k \in DOMAIN elements :
        LET name == elements[k].left
        IN  given[k].left \in MemoryVars =>
                /\ name \in PairedFrom(given[k].left)
                /\ name \in DOMAIN equalityPair => equalityPair[name] = name

(* The bounds given to any variable of a class, before it was replaced or  *)
(* after, that the second pass has come to.                                *)
BoundsOf(v) ==
    LET class == EqualTo(v, Len(given))
    IN  {given[k].type : k \in {k \in DOMAIN given :
            phase # "equal" /\ k < cursor /\ Bounds(given[k]) /\ given[k].left \in class}}

(* The bound of a class is one of the bounds given to its variables, and   *)
(* where these have one size none of them is smaller: no constraint is     *)
(* lost by the replacements, and their order does not matter.              *)
BoundIsTightest ==
    \A k \in DOMAIN given :
        LET types == BoundsOf(given[k].left)
            bound == Bound(elements[k].left)
        IN  IF types = {} THEN bound = NULL
            ELSE /\ bound \in types
                 /\ (\A a, b \in types : a.size = b.size) => \A a \in types : ~Smaller(a, bound)

=============================================================================
