----------------------------- MODULE MCTypeSolver -----------------------------
(* Instances of TypeSolver: three memory variables and two temporary ones, *)
(* and the kinds of constraints that extract.cpp makes about them.         *)
EXTENDS TypeSolver

CONSTANTS m1, m2, m3, t1, t2

MCMemory == {m1, m2, m3}
MCTemp == {t1, t2}
(* Only a variable in memory is ever moved to itself.                      *)
Moves ==
    {ConstraintMOV(a, b) : a \in RegisteredVars, b \in RegisteredVars}
        \ {ConstraintMOV(t, t) : t \in MCTemp}

MCConstraints ==
    Moves
    \cup {ConstraintDEC_INC(Num(32), v) : v \in {m1, m3, t1, t2}}
    \cup {ConstraintSET(Num(8), v) : v \in MCTemp}
    \cup {ConditionFeedback(Int_(32, TRUE), v, NULL, NULL) : v \in {m2, t1, t2}}
    \cup {ConstraintMOVX(Int_(32, FALSE), Int_(8, FALSE), t1, v) : v \in {m1, t2}}
    \cup {ConstraintMerge(t1, <<t2, m1>>), ConstraintLEA(m1, t1),
          ConditionFeedback(Int_(32, TRUE), t1, NULL, Stranger)}

=============================================================================
