--------------------------- MODULE TypeSolverProofs ---------------------------
(***************************************************************************)
(* What the solver makes of any list of constraints: equal variables get   *)
(* one name, that of a variable in memory if there is one, the pairs lead  *)
(* to it, and the bound kept for it is a tightest of all its variables.    *)
(* The invariant that carries the argument is Inv.                         *)
(***************************************************************************)
EXTENDS TypeSolver, WellFoundedInduction, TLAPS

LessThan == {p \in Nat \X Nat : p[1] < p[2]}

LEMMA LeastNumber ==
    ASSUME NEW T, T \subseteq Nat, T # {}
    PROVE  \E x \in T : \A y \in T : x <= y
<1>1. IsWellFoundedOn(LessThan, Nat)
  BY NatLessThanWellFounded DEF OpToRel, LessThan
<1>2. \E x \in T : \A y \in T : ~ (<<y, x>> \in LessThan)
  BY WFMin, <1>1
<1>3. PICK x \in T : \A y \in T : ~ (<<y, x>> \in LessThan)
  BY <1>2
<1>4. ASSUME NEW y \in T PROVE x <= y
  <2>1. x \in Nat /\ y \in Nat
    OBVIOUS
  <2>2. ~ (<<y, x>> \in LessThan)
    BY <1>3
  <2> QED
    BY <2>1, <2>2 DEF LessThan
<1> QED
  BY <1>4

----------------------------------------------------------------------------
(* FlattenSeq() of a sequence of sequences over X is a sequence over X.    *)
(* g tabulates its recursive function up to n.                             *)
Joins(g, seqs, n) ==
    g = [i \in 1 .. n |-> IF i = 1 THEN seqs[i] ELSE g[i - 1] \o seqs[i]]

LEMMA JoinExists ==
    ASSUME NEW X, NEW seqs \in Seq(Seq(X)), NEW n \in 1 .. Len(seqs)
    PROVE  \E g : Joins(g, seqs, n)
<1> DEFINE Bad == {m \in 1 .. Len(seqs) : ~ \E g : Joins(g, seqs, m)}
<1> SUFFICES ASSUME Bad # {} PROVE FALSE
  OBVIOUS
<1>1. PICK m \in Bad : \A y \in Bad : m <= y
  <2>1. Bad \subseteq Nat
    OBVIOUS
  <2> HIDE DEF Bad
  <2> QED
    BY <2>1, LeastNumber
<1>2. CASE m = 1
  <2> DEFINE g == [i \in 1 .. 1 |-> seqs[i]]
  <2>1. Joins(g, seqs, 1)
    BY DEF Joins
  <2> QED
    BY <1>2, <2>1
<1>3. CASE m # 1
  <2>1. m - 1 \in 1 .. Len(seqs) /\ ~ (m <= m - 1) /\ m \in Nat
    BY <1>3
  <2>2. PICK g : Joins(g, seqs, m - 1)
    BY <1>1, <2>1
  <2> DEFINE h == [i \in 1 .. m |-> IF i = m THEN g[m - 1] \o seqs[m] ELSE g[i]]
  <2>3. \A i \in 1 .. m - 1 : g[i] = IF i = 1 THEN seqs[i] ELSE g[i - 1] \o seqs[i]
    BY <2>1, <2>2 DEF Joins
  <2>4. ASSUME NEW i \in 1 .. m
        PROVE  h[i] = IF i = 1 THEN seqs[i] ELSE h[i - 1] \o seqs[i]
    <3>1. CASE i = m
      <4>1. i # 1 /\ i - 1 \in 1 .. m /\ i - 1 # i
        BY <1>3, <2>1, <3>1
      <4>2. h[i - 1] = g[i - 1]
        BY <3>1, <4>1
      <4>3. h[i] = g[i - 1] \o seqs[i]
        BY <3>1
      <4> QED
        BY <4>1, <4>2, <4>3
    <3>2. CASE i # m /\ i = 1
      BY <2>1, <2>3, <3>2
    <3>3. CASE i # m /\ i # 1
      <4>1. i \in 1 .. m - 1 /\ i - 1 \in 1 .. m /\ i - 1 # m
        BY <2>1, <3>3
      <4>2. h[i] = g[i] /\ h[i - 1] = g[i - 1]
        BY <3>3, <4>1
      <4> QED
        BY <2>3, <3>3, <4>1, <4>2
    <3> QED
      BY <3>1, <3>2, <3>3
  <2> HIDE DEF Bad
  <2>5. Joins(h, seqs, m)
    BY <2>4 DEF Joins
  <2> QED
    BY <2>5 DEF Bad
<1> QED
  BY <1>2, <1>3

LEMMA JoinTyped ==
    ASSUME NEW X, NEW seqs \in Seq(Seq(X)), NEW n \in 1 .. Len(seqs),
           NEW g, Joins(g, seqs, n), NEW m \in 1 .. n
    PROVE  g[m] \in Seq(X)
<1> DEFINE Bad == {i \in 1 .. n : g[i] \notin Seq(X)}
<1> SUFFICES ASSUME Bad # {} PROVE FALSE
  OBVIOUS
<1>1. PICK i \in Bad : \A y \in Bad : i <= y
  <2>1. Bad \subseteq Nat
    OBVIOUS
  <2> HIDE DEF Bad
  <2> QED
    BY <2>1, LeastNumber
<1>2. i \in 1 .. Len(seqs) /\ seqs[i] \in Seq(X)
  OBVIOUS
<1>3. g[i] = IF i = 1 THEN seqs[i] ELSE g[i - 1] \o seqs[i]
  BY DEF Joins
<1>4. CASE i = 1
  BY <1>2, <1>3, <1>4
<1>5. CASE i # 1
  <2>1. i - 1 \in 1 .. n /\ ~ (i <= i - 1)
    BY <1>5
  <2>2. g[i - 1] \in Seq(X)
    BY <1>1, <2>1
  <2>3. g[i - 1] \o seqs[i] \in Seq(X)
    BY ONLY <1>2, <2>2
  <2> QED
    BY <1>3, <1>5, <2>3
<1> QED
  BY <1>4, <1>5

LEMMA FlattenTyped ==
    ASSUME NEW X, NEW seqs \in Seq(Seq(X))
    PROVE  FlattenSeq(seqs) \in Seq(X)
<1>1. CASE Len(seqs) = 0
  <2>1. seqs = <<>>
    BY <1>1
  <2>2. FlattenSeq(seqs) = <<>>
    BY <1>1, <2>1 DEF FlattenSeq
  <2> QED
    BY <2>2
<1>2. CASE Len(seqs) # 0
  <2> DEFINE w == CHOOSE g : Joins(g, seqs, Len(seqs))
  <2>1. Len(seqs) \in 1 .. Len(seqs)
    BY <1>2
  <2>2. Joins(w, seqs, Len(seqs))
    BY <2>1, JoinExists
  <2>3. FlattenSeq(seqs) = w[Len(seqs)]
    BY <1>2 DEF FlattenSeq, Joins
  <2> QED
    BY <2>1, <2>2, <2>3, JoinTyped
<1> QED
  BY <1>1, <1>2

----------------------------------------------------------------------------
(* The elements of a list of constraints, as Init numbers their parts.     *)
GivenElements ==
    {[left |-> e.left, relation |-> e.relation, type |-> e.type, var |-> e.var, part |-> p] :
        e \in Equalities \cup Orders \cup TypeBounds, p \in Nat}

LEMMA GivenTyped == Init => given \in Seq(GivenElements)
<1> SUFFICES ASSUME Init PROVE given \in Seq(GivenElements)
  OBVIOUS
<1> DEFINE P == Equalities \cup Orders \cup TypeBounds
<1>0. PICK n \in 0 .. MaxConstraints : \E list \in [1 .. n -> Constraints] :
            given = FlattenSeq([c \in 1 .. n |-> AllParts(list[c])])
  BY DEF Init
<1>1. PICK list \in [1 .. n -> Constraints] :
            given = FlattenSeq([c \in 1 .. n |-> AllParts(list[c])])
  BY <1>0
<1>2. n \in Nat
  BY SolverAssumption
<1>3. ASSUME NEW Q \in Constraints PROVE AllParts(Q) \in Seq(GivenElements)
  <2>1. Q \in Seq(Seq(P))
    BY SolverAssumption
  <2>2. ASSUME NEW p \in 1 .. Len(Q) PROVE NumberedPart(Q, p) \in Seq(GivenElements)
    <3>1. Q[p] \in Seq(P) /\ p - 1 \in Nat
      BY <2>1
    <3>2. \A k \in 1 .. Len(Q[p]) : Q[p][k] \in P
      BY <3>1
    <3>3. \A k \in 1 .. Len(Q[p]) :
            [left |-> Q[p][k].left, relation |-> Q[p][k].relation, type |-> Q[p][k].type,
             var |-> Q[p][k].var, part |-> p - 1] \in GivenElements
      BY <3>1, <3>2 DEF GivenElements
    <3>4. Len(Q[p]) \in Nat
      BY <3>1
    <3> QED
      BY <3>3, <3>4 DEF NumberedPart
  <2>3. [p \in 1 .. Len(Q) |-> NumberedPart(Q, p)] \in Seq(Seq(GivenElements))
    BY <2>1, <2>2
  <2> QED
    BY <2>3, FlattenTyped DEF AllParts
<1>4. \A c \in 1 .. n : AllParts(list[c]) \in Seq(GivenElements)
  BY <1>3
<1>5. [c \in 1 .. n |-> AllParts(list[c])] \in Seq(Seq(GivenElements))
  BY <1>2, <1>4
<1> QED
  BY <1>1, <1>5, FlattenTyped

(* What a given element may say.                                           *)
LEMMA GivenFacts ==
    ASSUME NEW e \in GivenElements
    PROVE  /\ e.left \in Vars /\ e.relation \in {"<", "="} /\ e.type \in Types \cup {NoType}
           /\ e.var \in RegisteredVars \cup {NULL} /\ e.part \in Nat
           /\ e.relation = "=" => e.left \in RegisteredVars
           /\ Bounds(e) => e.type \in Types
<1>1. PICK d \in Equalities \cup Orders \cup TypeBounds, p \in Nat :
        e = [left |-> d.left, relation |-> d.relation, type |-> d.type, var |-> d.var, part |-> p]
  BY DEF GivenElements
<1>2. /\ e.left = d.left /\ e.relation = d.relation /\ e.type = d.type /\ e.var = d.var
      /\ e.part \in Nat
  BY <1>1
<1>3. NULL \notin RegisteredVars /\ RegisteredVars \subseteq Vars
  BY SolverAssumption DEF Vars
<1>4. CASE d \in Equalities
  <2>1. /\ d.left \in RegisteredVars /\ d.relation = "=" /\ d.type \in Types \cup {NoType}
        /\ d.var \in RegisteredVars \cup {NULL}
    BY <1>4 DEF Equalities
  <2> QED
    BY <1>2, <1>3, <2>1 DEF Bounds
<1>5. CASE d \in Orders
  <2>1. /\ d.left \in RegisteredVars /\ d.relation = "<" /\ d.type = NoType
        /\ d.var \in RegisteredVars
    BY <1>5 DEF Orders
  <2> QED
    BY <1>2, <1>3, <2>1 DEF Bounds
<1>6. CASE d \in TypeBounds
  <2>1. d.left \in Vars /\ d.relation = "<" /\ d.type \in Types /\ d.var = NULL
    BY <1>6 DEF TypeBounds
  <2> QED
    BY <1>2, <1>3, <2>1 DEF Bounds
<1> QED
  BY <1>4, <1>5, <1>6

----------------------------------------------------------------------------
(* The classes of equal variables.                                         *)
ClosedSets(n) ==
    {S \in SUBSET RegisteredVars : \A p \in Equal(n) : p[1] \in S <=> p[2] \in S}
Same(u, v, n) == \A S \in ClosedSets(n) : u \in S <=> v \in S

LEMMA ClassIsSame ==
    ASSUME NEW n, NEW u, NEW v
    PROVE  u \in EqualTo(v, n) <=> u \in Vars /\ Same(u, v, n)
  BY DEF EqualTo, Same, ClosedSets

LEMMA EqualRegistered ==
    ASSUME NEW n \in 0 .. Len(given), given \in Seq(GivenElements)
    PROVE  Equal(n) \subseteq RegisteredVars \X RegisteredVars
<1> SUFFICES ASSUME NEW p \in Equal(n) PROVE p \in RegisteredVars \X RegisteredVars
  OBVIOUS
<1>1. PICK k \in 1 .. n : /\ given[k].relation = "=" /\ given[k].var # NULL
                          /\ p = <<given[k].left, given[k].var>>
  BY DEF Equal
<1>2. given[k] \in GivenElements
  OBVIOUS
<1> QED
  BY <1>1, <1>2, GivenFacts

LEMMA SameRegistered ==
    ASSUME NEW n \in 0 .. Len(given), given \in Seq(GivenElements),
           NEW u \in RegisteredVars, NEW v, Same(u, v, n) \/ Same(v, u, n)
    PROVE  v \in RegisteredVars
<1>1. \A p \in Equal(n) : p[1] \in RegisteredVars /\ p[2] \in RegisteredVars
  BY EqualRegistered
<1>2. RegisteredVars \in ClosedSets(n)
  BY <1>1 DEF ClosedSets
<1> QED
  BY <1>2 DEF Same

LEMMA EqualGrows ==
    ASSUME NEW n \in 0 .. Len(given) - 1, given \in Seq(GivenElements)
    PROVE  Equal(n + 1) =
            IF given[n + 1].relation = "=" /\ given[n + 1].var # NULL
            THEN Equal(n) \cup {<<given[n + 1].left, given[n + 1].var>>} ELSE Equal(n)
<1>1. 1 .. n + 1 = 1 .. n \cup {n + 1}
  OBVIOUS
<1>2. {k \in 1 .. n + 1 : given[k].relation = "=" /\ given[k].var # NULL}
      = {k \in 1 .. n : given[k].relation = "=" /\ given[k].var # NULL}
        \cup (IF given[n + 1].relation = "=" /\ given[n + 1].var # NULL
              THEN {n + 1} ELSE {})
  BY ONLY <1>1
<1> QED
  BY <1>2 DEF Equal

LEMMA SameMerge ==
    ASSUME NEW n, NEW a \in RegisteredVars, NEW b \in RegisteredVars,
           Equal(n) \subseteq RegisteredVars \X RegisteredVars,
           Equal(n + 1) = Equal(n) \cup {<<a, b>>}
    PROVE  /\ Same(a, b, n + 1)
           /\ \A u, v : Same(u, v, n) => Same(u, v, n + 1)
           /\ \A u, v : Same(u, v, n + 1) =>
                \/ Same(u, v, n)
                \/ (Same(u, a, n) \/ Same(u, b, n)) /\ (Same(v, a, n) \/ Same(v, b, n))
<1> DEFINE T == {w \in RegisteredVars : Same(w, a, n) \/ Same(w, b, n)}
<1>1. ClosedSets(n + 1) = {S \in ClosedSets(n) : a \in S <=> b \in S}
  <2>1. ASSUME NEW S
        PROVE  (\A p \in Equal(n + 1) : p[1] \in S <=> p[2] \in S)
               <=> (\A p \in Equal(n) : p[1] \in S <=> p[2] \in S) /\ (a \in S <=> b \in S)
    <3>1. <<a, b>>[1] = a /\ <<a, b>>[2] = b
      OBVIOUS
    <3> QED
      BY <3>1, Zenon
  <2> QED
    BY <2>1, Zenon DEF ClosedSets
<1>2. ASSUME NEW p \in Equal(n)
      PROVE  p[1] \in RegisteredVars /\ p[2] \in RegisteredVars /\ (p[1] \in T <=> p[2] \in T)
  <2>1. p[1] \in RegisteredVars /\ p[2] \in RegisteredVars
    OBVIOUS
  <2>2. Same(p[1], p[2], n)
    BY DEF Same, ClosedSets
  <2>3. \A c : Same(p[1], c, n) <=> Same(p[2], c, n)
    BY <2>2 DEF Same
  <2> QED
    BY <2>1, <2>3
<1>3. a \in T /\ b \in T /\ T \subseteq RegisteredVars
  BY DEF Same
<1>4. T \in ClosedSets(n + 1)
  BY <1>1, <1>2, <1>3 DEF ClosedSets
<1>5. ASSUME NEW S \in ClosedSets(n) PROVE S \ T \in ClosedSets(n + 1)
  <2>1. S \subseteq RegisteredVars /\ \A p \in Equal(n) : p[1] \in S <=> p[2] \in S
    BY DEF ClosedSets
  <2>2. \A p \in Equal(n) : p[1] \in S \ T <=> p[2] \in S \ T
    BY <1>2, <2>1
  <2>3. S \ T \in ClosedSets(n)
    BY <2>1, <2>2 DEF ClosedSets
  <2> QED
    BY <1>1, <1>3, <2>3
<1> HIDE DEF T
<1>6. ASSUME NEW u, NEW v, Same(u, v, n + 1), ~ (u \in T /\ v \in T)
      PROVE  Same(u, v, n)
  <2>1. u \notin T /\ v \notin T
    BY <1>4, <1>6 DEF Same
  <2>2. \A S \in ClosedSets(n) : u \in S <=> v \in S
    BY <1>5, <1>6, <2>1 DEF Same
  <2> QED
    BY <2>2 DEF Same
<1>7. \A u \in T : Same(u, a, n) \/ Same(u, b, n)
  BY DEF T
<1> QED
  BY <1>1, <1>6, <1>7 DEF Same

----------------------------------------------------------------------------
(* rep tells the name that stands for each variable's class after n        *)
(* elements.                                                               *)
Names(rep, n) ==
    /\ rep \in [Vars -> Vars]
    /\ \A v \in Vars : Same(rep[v], v, n)
    /\ \A u, v \in Vars : Same(u, v, n) => rep[u] = rep[v]

InMemory(rep, n) ==
    \A u \in MemoryVars, v \in Vars : Same(u, v, n) => rep[v] \in MemoryVars

(* The left hand of an element is the name of its class.  So is its right  *)
(* hand, unless the two sides have been equal already: then the right one  *)
(* may have kept an older name.                                            *)
Written(rep, n) ==
    \A k \in 1 .. Len(given) :
        LET g == given[k]
            e == elements[k]
        IN  /\ e.left = rep[g.left] /\ e.relation = g.relation
            /\ e.type = g.type /\ e.part = g.part
            /\ g.var = NULL <=> e.var = NULL
            /\ g.var # NULL =>
                /\ Same(e.var, g.var, n)
                /\ e.var = rep[g.var] \/ Same(g.var, g.left, n)

(* Pairs stay within a class, end at its name and lead to it.              *)
Paired(rep, n) ==
    /\ \A v \in DOMAIN equalityPair : Same(equalityPair[v], v, n)
    /\ \A v \in Vars : rep[v] \in DOMAIN equalityPair => equalityPair[rep[v]] = rep[v]
    /\ \A v \in MemoryVars : rep[v] \in PairedFrom(v)

WorkElements ==
    [left : Vars, relation : {"<", "="}, type : Types \cup {NoType},
     var : RegisteredVars \cup {NULL}, part : Nat]

Typed ==
    /\ given \in Seq(GivenElements)
    /\ elements \in Seq(WorkElements) /\ Len(elements) = Len(given)
    /\ cursor \in 1 .. (Len(given) + 1)
    /\ upperBound \in [DOMAIN upperBound -> Types \cup {NULL}]
    /\ RegisteredVars \subseteq DOMAIN upperBound /\ DOMAIN upperBound \subseteq Vars
    /\ equalityPair \in [DOMAIN equalityPair -> MemoryVars]
    /\ DOMAIN equalityPair \subseteq MemoryVars
    /\ phase \in {"equal", "bound", "done"}
    /\ halt \in {"no", "assert", "null"}
    /\ phase = "equal" => upperBound = [v \in RegisteredVars |-> NULL]

Solved == \E rep :
    /\ Names(rep, Processed) /\ InMemory(rep, Processed)
    /\ Written(rep, Processed) /\ Paired(rep, Processed)

(* What bounds the variables of one name so far.                           *)
TypesNamed(v) ==
    {given[k].type : k \in {k \in 1 .. Len(given) :
        phase # "equal" /\ k < cursor /\ Bounds(given[k]) /\ elements[k].left = v}}
Tight ==
    \A v \in Vars :
        /\ TypesNamed(v) = {} => Bound(v) = NULL
        /\ TypesNamed(v) # {} =>
            /\ Bound(v) \in TypesNamed(v)
            /\ (\A a, b \in TypesNamed(v) : a.size = b.size) =>
                    \A a \in TypesNamed(v) : ~Smaller(a, Bound(v))

Inv == Typed /\ Solved /\ Tight

----------------------------------------------------------------------------
(* Replacing old by new where the element at the cursor equates them.      *)
Renamed(rep, old, new) == [v \in Vars |-> IF rep[v] = old THEN new ELSE rep[v]]

(* What the element at the cursor says in terms of the names.              *)
LEMMA HereFacts ==
    ASSUME Typed, EqualVars, NEW rep, Names(rep, cursor - 1), Written(rep, cursor - 1)
    PROVE  /\ cursor - 1 \in 0 .. Len(given) - 1 /\ cursor \in 1 .. Len(given)
           /\ Here.left \in RegisteredVars /\ Here.var \in RegisteredVars
           /\ given[cursor].left \in RegisteredVars /\ given[cursor].var \in RegisteredVars
           /\ Same(Here.left, given[cursor].left, cursor - 1)
           /\ Same(Here.var, given[cursor].var, cursor - 1)
           /\ rep[Here.left] = Here.left
           /\ rep[Here.var] = Here.var \/ Same(Here.var, Here.left, cursor - 1)
           /\ Equal(cursor) = Equal(cursor - 1) \cup {<<given[cursor].left, given[cursor].var>>}
           /\ Equal(cursor - 1) \subseteq RegisteredVars \X RegisteredVars
<1> DEFINE g == given[cursor]
<1>1. cursor \in 1 .. Len(given) /\ cursor - 1 \in 0 .. Len(given) - 1
      /\ cursor - 1 \in 0 .. Len(given) /\ (cursor - 1) + 1 = cursor
  BY DEF Typed, EqualVars, AtElement
<1>2. /\ Here.left = rep[g.left] /\ Here.relation = g.relation
      /\ g.var = NULL <=> Here.var = NULL
      /\ g.var # NULL => /\ Same(Here.var, g.var, cursor - 1)
                         /\ Here.var = rep[g.var] \/ Same(g.var, g.left, cursor - 1)
  BY <1>1 DEF Written, Here
<1>3. g.relation = "=" /\ g.var # NULL /\ g \in GivenElements
  BY <1>1, <1>2 DEF EqualVars, Typed
<1>4. g.left \in RegisteredVars /\ g.var \in RegisteredVars /\ RegisteredVars \subseteq Vars
  BY <1>3, GivenFacts DEF Vars
<1>5. Same(Here.left, g.left, cursor - 1) /\ Here.left \in Vars
  BY <1>2, <1>4 DEF Names
<1>6. Same(Here.var, g.var, cursor - 1)
  BY <1>2, <1>3
<1>7. Here.left \in RegisteredVars /\ Here.var \in RegisteredVars
  BY <1>1, <1>4, <1>5, <1>6, SameRegistered DEF Typed
<1>8. rep[Here.left] = Here.left
  BY <1>2, <1>4, <1>5 DEF Names
<1>9. rep[Here.var] = Here.var \/ Same(Here.var, Here.left, cursor - 1)
  <2>1. CASE Here.var = rep[g.var]
    BY <1>4, <1>6, <1>7, <2>1 DEF Names
  <2>2. CASE Same(g.var, g.left, cursor - 1)
    BY <1>5, <1>6, <2>2 DEF Same
  <2> QED
    BY <1>2, <1>3, <2>1, <2>2
<1>10. Equal(cursor) = Equal(cursor - 1) \cup {<<g.left, g.var>>}
  BY <1>1, <1>3, EqualGrows DEF Typed
<1>11. Equal(cursor - 1) \subseteq RegisteredVars \X RegisteredVars
  BY <1>1, EqualRegistered DEF Typed
<1> QED
  BY <1>1, <1>4, <1>5, <1>6, <1>7, <1>8, <1>9, <1>10, <1>11

(* The classes after the element at the cursor.                            *)
LEMMA HereMerge ==
    ASSUME Typed, EqualVars, NEW rep, Names(rep, cursor - 1), Written(rep, cursor - 1)
    PROVE  /\ Same(Here.left, Here.var, cursor)
           /\ \A u, v : Same(u, v, cursor - 1) => Same(u, v, cursor)
           /\ \A u, v : Same(u, v, cursor) =>
                \/ Same(u, v, cursor - 1)
                \/ /\ Same(u, Here.left, cursor - 1) \/ Same(u, Here.var, cursor - 1)
                   /\ Same(v, Here.left, cursor - 1) \/ Same(v, Here.var, cursor - 1)
<1> DEFINE g == given[cursor]
<1>1. cursor = (cursor - 1) + 1
  BY DEF Typed
<1>2. /\ Same(g.left, g.var, cursor)
      /\ \A u, v : Same(u, v, cursor - 1) => Same(u, v, cursor)
      /\ \A u, v : Same(u, v, cursor) =>
            \/ Same(u, v, cursor - 1)
            \/ /\ Same(u, g.left, cursor - 1) \/ Same(u, g.var, cursor - 1)
               /\ Same(v, g.left, cursor - 1) \/ Same(v, g.var, cursor - 1)
  BY <1>1, HereFacts, SameMerge
<1>3. Same(Here.left, g.left, cursor - 1) /\ Same(Here.var, g.var, cursor - 1)
  BY HereFacts
<1>4. \A u : /\ Same(u, g.left, cursor - 1) => Same(u, Here.left, cursor - 1)
             /\ Same(u, g.var, cursor - 1) => Same(u, Here.var, cursor - 1)
  BY <1>3 DEF Same
<1>5. Same(Here.left, g.left, cursor) /\ Same(Here.var, g.var, cursor)
  BY <1>2, <1>3
<1>6. Same(Here.left, Here.var, cursor)
  BY <1>2, <1>5 DEF Same
<1> QED
  BY <1>2, <1>4, <1>6

(* The replacement is one of the two the code makes: the right one by the  *)
(* left one, or the left one by the right one if that is still a name.     *)
Replaces(rep, old, new) ==
    \/ old = Here.var /\ new = Here.left
    \/ old = Here.left /\ new = Here.var /\ rep[Here.var] = Here.var

LEMMA RenamedNames ==
    ASSUME Typed, EqualVars, NEW rep, Names(rep, cursor - 1), Written(rep, cursor - 1),
           NEW old, NEW new, Replaces(rep, old, new)
    PROVE  Names(Renamed(rep, old, new), cursor)
<1> DEFINE a == Here.left
           b == Here.var
           rep2 == Renamed(rep, old, new)
<1>1. a \in Vars /\ b \in Vars /\ rep[a] = a
      /\ (rep[b] = b \/ Same(b, a, cursor - 1))
  BY HereFacts DEF Vars
<1>2. rep \in [Vars -> Vars] /\ new \in Vars
  BY <1>1 DEF Names, Replaces
<1>3. rep2 \in [Vars -> Vars]
      /\ \A v \in Vars : rep2[v] = IF rep[v] = old THEN new ELSE rep[v]
  BY <1>2 DEF Renamed
<1>4. /\ Same(a, b, cursor)
      /\ \A u, v : Same(u, v, cursor - 1) => Same(u, v, cursor)
      /\ \A u, v : Same(u, v, cursor) =>
            \/ Same(u, v, cursor - 1)
            \/ /\ Same(u, a, cursor - 1) \/ Same(u, b, cursor - 1)
               /\ Same(v, a, cursor - 1) \/ Same(v, b, cursor - 1)
  BY HereMerge
<1>5. Same(old, new, cursor)
  BY <1>4 DEF Replaces, Same
<1>6. \A v \in Vars : Same(rep[v], v, cursor)
  BY <1>4 DEF Names
<1>7. ASSUME NEW v \in Vars PROVE Same(rep2[v], v, cursor)
  BY <1>3, <1>5, <1>6 DEF Same
<1>8. ASSUME NEW v \in Vars, Same(v, a, cursor - 1) \/ Same(v, b, cursor - 1)
      PROVE  rep2[v] = new
  <2>1. rep[v] = a \/ rep[v] = rep[b]
    BY <1>1, <1>8 DEF Names
  <2>2. rep[b] = a \/ rep[b] = b
    BY <1>1 DEF Names
  <2> QED
    BY <1>3, <2>1, <2>2 DEF Replaces
<1>9. ASSUME NEW u \in Vars, NEW v \in Vars, Same(u, v, cursor) PROVE rep2[u] = rep2[v]
  <2>1. CASE Same(u, v, cursor - 1)
    BY <1>3, <2>1 DEF Names
  <2>2. CASE ~ Same(u, v, cursor - 1)
    BY <1>4, <1>8, <1>9, <2>2
  <2> QED
    BY <2>1, <2>2
<1> HIDE DEF rep2
<1> QED
  BY <1>3, <1>7, <1>9 DEF Names, rep2

(* replaceVariable() writes the new names.                                 *)
LEMMA RenamedWritten ==
    ASSUME Typed, EqualVars, NEW rep, Names(rep, cursor - 1), Written(rep, cursor - 1),
           NEW old, NEW new, Replaces(rep, old, new), NEW n, n = cursor,
           elements' = Replace(old, new), UNCHANGED given
    PROVE  /\ Written(Renamed(rep, old, new), n)'
           /\ elements' \in Seq(WorkElements) /\ Len(elements') = Len(given)
<1> DEFINE rep2 == Renamed(rep, old, new)
<1>1. old \in RegisteredVars /\ new \in RegisteredVars /\ RegisteredVars \subseteq Vars
  BY HereFacts DEF Vars, Replaces
<1>2. rep \in [Vars -> Vars] /\ \A v \in Vars : rep2[v] = IF rep[v] = old THEN new ELSE rep[v]
  BY DEF Renamed, Names
<1>3. Same(old, new, cursor) /\ \A u, v : Same(u, v, cursor - 1) => Same(u, v, cursor)
  BY HereMerge DEF Replaces, Same
<1>4. DOMAIN elements = 1 .. Len(given) /\ \A k \in 1 .. Len(given) : elements[k] \in WorkElements
  BY DEF Typed
<1>5. ASSUME NEW k \in 1 .. Len(given)
      PROVE  LET e == elements[k]
             IN  elements'[k] = IF e.left = old THEN [e EXCEPT !.left = new]
                                ELSE IF e.var = old THEN [e EXCEPT !.var = new] ELSE e
  BY <1>4 DEF Replace
<1>6. ASSUME NEW k \in 1 .. Len(given) PROVE elements'[k] \in WorkElements
  BY <1>1, <1>4, <1>5 DEF WorkElements
<1>7. DOMAIN elements' = 1 .. Len(given) /\ Len(given) \in Nat
      /\ elements' = [k \in 1 .. Len(given) |-> elements'[k]]
  BY <1>4 DEF Replace, Typed
<1>8. elements' \in Seq(WorkElements) /\ Len(elements') = Len(given)
  BY <1>6, <1>7
<1>9. \A u, v : Same(u, v, n)' <=> Same(u, v, cursor)
  BY DEF Same, ClosedSets, Equal
<1>10. ASSUME NEW k \in 1 .. Len(given)
       PROVE  LET g == given[k]
                  e == elements'[k]
              IN  /\ e.left = rep2[g.left] /\ e.relation = g.relation
                  /\ e.type = g.type /\ e.part = g.part
                  /\ g.var = NULL <=> e.var = NULL
                  /\ g.var # NULL =>
                        /\ Same(e.var, g.var, cursor)
                        /\ e.var = rep2[g.var] \/ Same(g.var, g.left, cursor)
  <2> DEFINE g == given[k]
             e == elements[k]
             f == elements'[k]
  <2>1. /\ g.left \in Vars /\ g.var \in RegisteredVars \cup {NULL}
        /\ NULL \notin RegisteredVars
    <3>1. g \in GivenElements
      BY DEF Typed
    <3> QED
      BY <3>1, GivenFacts, SolverAssumption DEF Vars
  <2>2. /\ e.left = rep[g.left] /\ e.relation = g.relation /\ e.type = g.type /\ e.part = g.part
        /\ g.var = NULL <=> e.var = NULL
        /\ g.var # NULL => /\ Same(e.var, g.var, cursor - 1)
                           /\ e.var = rep[g.var] \/ Same(g.var, g.left, cursor - 1)
    BY DEF Written
  <2>3. e \in WorkElements
    BY <1>4
  <2>4. CASE e.left = old
    <3>1. f.left = new /\ f.relation = e.relation /\ f.type = e.type /\ f.part = e.part
          /\ f.var = e.var
      BY <1>5, <2>3, <2>4 DEF WorkElements
    <3>2. rep2[g.left] = new
      BY <1>2, <2>1, <2>2, <2>4
    <3>3. ASSUME g.var # NULL
          PROVE  Same(e.var, g.var, cursor)
                 /\ (e.var = rep2[g.var] \/ Same(g.var, g.left, cursor))
      <4>1. Same(e.var, g.var, cursor) /\ Same(old, g.left, cursor)
        BY <1>3, <2>1, <2>2, <2>4, <3>3 DEF Names
      <4>2. CASE Same(g.var, g.left, cursor - 1)
        BY <1>3, <4>1, <4>2
      <4>3. CASE e.var = rep[g.var] /\ e.var # old
        BY <1>1, <1>2, <2>1, <3>3, <4>1, <4>3
      <4>4. CASE e.var = old
        BY <4>1, <4>4 DEF Same
      <4> QED
        BY <2>2, <3>3, <4>2, <4>3, <4>4
    <3> QED
      BY <2>2, <3>1, <3>2, <3>3
  <2>5. CASE e.left # old /\ e.var = old
    <3>1. f.left = e.left /\ f.relation = e.relation /\ f.type = e.type /\ f.part = e.part
          /\ f.var = new
      BY <1>5, <2>3, <2>5 DEF WorkElements
    <3>2. rep2[g.left] = f.left
      BY <1>2, <2>1, <2>2, <2>5, <3>1
    <3>3. g.var # NULL /\ f.var # NULL
      BY <1>1, <2>1, <2>2, <2>5, <3>1
    <3>4. Same(new, g.var, cursor)
      <4>1. Same(old, g.var, cursor)
        BY <1>3, <2>2, <2>5, <3>3
      <4> QED
        BY <1>3, <4>1 DEF Same
    <3>5. new = rep2[g.var] \/ Same(g.var, g.left, cursor)
      BY <1>1, <1>2, <1>3, <2>1, <2>2, <2>5, <3>3
    <3> QED
      BY <2>2, <3>1, <3>2, <3>3, <3>4, <3>5
  <2>6. CASE e.left # old /\ e.var # old
    <3>1. f = e
      BY <1>5, <2>6
    <3>2. rep2[g.left] = f.left
      BY <1>2, <2>1, <2>2, <2>6, <3>1
    <3>3. g.var # NULL => /\ Same(e.var, g.var, cursor)
                          /\ e.var = rep2[g.var] \/ Same(g.var, g.left, cursor)
      BY <1>1, <1>2, <1>3, <2>1, <2>2, <2>6
    <3> QED
      BY <2>2, <3>1, <3>2, <3>3
  <2> QED
    BY <2>4, <2>5, <2>6
<1> HIDE DEF rep2
<1>11. Written(rep2, n)'
  BY <1>9, <1>10 DEF Written
<1> QED
  BY <1>8, <1>11 DEF rep2

(* A class with a memory variable keeps a name in memory.                  *)
LEMMA RenamedInMemory ==
    ASSUME Typed, EqualVars, NEW rep, Names(rep, cursor - 1), Written(rep, cursor - 1),
           InMemory(rep, cursor - 1), NEW old, NEW new, Replaces(rep, old, new),
           new \in MemoryVars \/ (old = Here.var /\ new = Here.left /\ old \notin MemoryVars)
    PROVE  InMemory(Renamed(rep, old, new), cursor)
<1> DEFINE a == Here.left
           b == Here.var
           rep2 == Renamed(rep, old, new)
<1>1. a \in Vars /\ b \in Vars /\ rep[a] = a /\ MemoryVars \subseteq Vars
      /\ (rep[b] = b \/ Same(b, a, cursor - 1))
  BY HereFacts DEF Vars, RegisteredVars
<1>2. \A v \in Vars : rep2[v] = IF rep[v] = old THEN new ELSE rep[v]
  BY DEF Renamed
<1>3. \A u, v : Same(u, v, cursor) =>
            \/ Same(u, v, cursor - 1)
            \/ /\ Same(u, a, cursor - 1) \/ Same(u, b, cursor - 1)
               /\ Same(v, a, cursor - 1) \/ Same(v, b, cursor - 1)
  BY HereMerge
<1>4. Names(rep2, cursor)
  BY RenamedNames
<1> SUFFICES ASSUME NEW u \in MemoryVars, NEW v \in Vars, Same(u, v, cursor)
             PROVE  rep2[v] \in MemoryVars
  BY DEF InMemory
<1>5. rep2[u] = rep2[v]
  BY <1>1, <1>4 DEF Names
<1>6. Same(u, u, cursor - 1)
  BY DEF Same
<1>7. rep[u] \in MemoryVars
  BY <1>1, <1>6 DEF InMemory
<1>8. rep2[u] = IF rep[u] = old THEN new ELSE rep[u]
  BY <1>1, <1>2
<1> QED
  BY <1>5, <1>7, <1>8

(* Where no memory variable is replaced the pairs stay right as they are.  *)
LEMMA UnpairedPaired ==
    ASSUME Typed, EqualVars, NEW rep, Names(rep, cursor - 1), Written(rep, cursor - 1),
           InMemory(rep, cursor - 1), Paired(rep, cursor - 1),
           NEW old, NEW new, Replaces(rep, old, new), NEW n, n = cursor,
           old \notin MemoryVars, UNCHANGED <<given, equalityPair>>
    PROVE  Paired(Renamed(rep, old, new), n)'
<1> DEFINE rep2 == Renamed(rep, old, new)
<1>1. /\ rep[Here.left] = Here.left /\ MemoryVars \subseteq Vars
      /\ Here.left \in Vars /\ Here.var \in Vars
  BY HereFacts DEF Vars, RegisteredVars
<1>2. \A v \in Vars : rep2[v] = IF rep[v] = old THEN new ELSE rep[v]
  BY DEF Renamed
<1>3. \A u, v : Same(u, v, cursor - 1) => Same(u, v, cursor)
  BY HereMerge
<1>4. \A u, v : Same(u, v, n)' <=> Same(u, v, cursor)
  BY DEF Same, ClosedSets, Equal
<1>5. \A v \in DOMAIN equalityPair' : Same(equalityPair'[v], v, cursor)
  BY <1>3 DEF Paired
<1>6. ASSUME NEW v \in Vars, rep2[v] \in DOMAIN equalityPair
      PROVE  equalityPair[rep2[v]] = rep2[v]
  <2>1. \E u \in Vars : new = rep[u]
    BY <1>1 DEF Replaces
  <2> QED
    BY <1>2, <1>6, <2>1 DEF Paired
<1>7. ASSUME NEW v \in MemoryVars PROVE rep2[v] \in PairedFrom(v)
  <2>1. Same(v, v, cursor - 1)
    BY DEF Same
  <2>2. rep[v] \in MemoryVars
    BY <1>1, <2>1 DEF InMemory
  <2>3. rep2[v] = rep[v]
    BY <1>1, <1>2, <2>2
  <2> QED
    BY <2>3 DEF Paired
<1>8. \A v : PairedFrom(v)' = PairedFrom(v)
  BY DEF PairedFrom
<1> HIDE DEF rep2
<1>9. Paired(rep2, n)'
  BY <1>4, <1>5, <1>6, <1>7, <1>8 DEF Paired
<1> QED
  BY <1>9 DEF rep2

(* Where one is replaced by another the new pair leads to the new name.    *)
LEMMA PairPaired ==
    ASSUME Typed, EqualVars, NEW rep, Names(rep, cursor - 1), Written(rep, cursor - 1),
           InMemory(rep, cursor - 1), Paired(rep, cursor - 1),
           NEW a, a = Here.left, NEW b, b = Here.var, NEW n, n = cursor,
           a \in MemoryVars, b \in MemoryVars,
           equalityPair' = Pair(b, a), UNCHANGED given
    PROVE  Paired(Renamed(rep, b, a), n)'
<1> DEFINE rep2 == Renamed(rep, b, a)
<1>1. /\ rep[a] = a /\ MemoryVars \subseteq Vars /\ a \in Vars /\ b \in Vars
      /\ rep[b] = b \/ Same(b, a, cursor - 1)
  BY HereFacts DEF Vars, RegisteredVars
<1>2. \A v \in Vars : rep2[v] = IF rep[v] = b THEN a ELSE rep[v]
  BY DEF Renamed
<1>3. Same(a, b, cursor) /\ \A u, v : Same(u, v, cursor - 1) => Same(u, v, cursor)
  BY HereMerge
<1>4. \A u, v : Same(u, v, n)' <=> Same(u, v, cursor)
  BY DEF Same, ClosedSets, Equal
<1>5. /\ DOMAIN equalityPair' = DOMAIN equalityPair \cup {b}
      /\ equalityPair'[b] = a
      /\ \A v \in DOMAIN equalityPair \ {b} : equalityPair'[v] = equalityPair[v]
  BY DEF Pair
<1>6. \A v \in DOMAIN equalityPair' : Same(equalityPair'[v], v, cursor)
  BY <1>3, <1>5 DEF Paired, Same
<1>7. ASSUME NEW v \in Vars, rep2[v] \in DOMAIN equalityPair'
      PROVE  equalityPair'[rep2[v]] = rep2[v]
  <2>1. rep2[v] = a \/ (rep2[v] = rep[v] /\ rep[v] # b)
    BY <1>2
  <2>2. a \in DOMAIN equalityPair => equalityPair[a] = a
    BY <1>1 DEF Paired
  <2> QED
    BY <1>5, <1>7, <2>1, <2>2 DEF Paired
<1>8. ASSUME NEW v \in MemoryVars, NEW S \in SUBSET MemoryVars, v \in S,
             \A w \in S \cap DOMAIN equalityPair' : equalityPair'[w] \in S
      PROVE  rep2[v] \in S
  <2>1. \A R \in SUBSET MemoryVars :
            v \in R /\ (\A w \in R \cap DOMAIN equalityPair : equalityPair[w] \in R) => rep[v] \in R
    BY DEF Paired, PairedFrom
  <2>2. CASE b \notin S
    <3>1. rep[v] \in S
      BY <1>5, <1>8, <2>1, <2>2
    <3> QED
      BY <1>1, <1>2, <2>2, <3>1
  <2>3. CASE b \in S
    <3>1. a \in S
      BY <1>5, <1>8, <2>3
    <3>2. CASE rep[v] = b \/ rep[v] = a
      BY <1>1, <1>2, <3>1, <3>2
    <3>3. CASE rep[v] # b /\ rep[v] # a
      <4>1. ~ Same(b, v, cursor - 1)
        <5>1. SUFFICES ASSUME Same(b, v, cursor - 1) PROVE FALSE
          OBVIOUS
        <5>2. rep[b] = rep[v]
          BY <1>1, <5>1 DEF Names
        <5>3. Same(b, a, cursor - 1) => rep[b] = a
          BY <1>1 DEF Names
        <5> QED
          BY <1>1, <3>3, <5>2, <5>3
      <4> DEFINE R == {w \in S : Same(w, v, cursor - 1)}
      <4>2. R \in SUBSET MemoryVars /\ v \in R
        BY <1>8 DEF Same
      <4>3. ASSUME NEW w \in R, w \in DOMAIN equalityPair PROVE equalityPair[w] \in R
        <5>1. w # b
          BY <4>1
        <5>2. equalityPair[w] \in S
          BY <1>5, <1>8, <4>3, <5>1
        <5>3. Same(equalityPair[w], v, cursor - 1)
          <6>1. Same(equalityPair[w], w, cursor - 1) /\ Same(w, v, cursor - 1)
            BY <4>3 DEF Paired
          <6> QED
            BY <6>1 DEF Same
        <5> QED
          BY <5>2, <5>3
      <4>4. rep[v] \in R
        <5> HIDE DEF R
        <5> QED
          BY <2>1, <4>2, <4>3
      <4> QED
        BY <1>1, <1>2, <3>3, <4>4
    <3> QED
      BY <3>2, <3>3
  <2> QED
    BY <2>2, <2>3
<1>9. \A v \in MemoryVars : rep2[v] \in PairedFrom(v)'
  <2> SUFFICES ASSUME NEW v \in MemoryVars PROVE rep2[v] \in PairedFrom(v)'
    OBVIOUS
  <2>1. rep2[v] \in MemoryVars
    <3>1. Same(v, v, cursor - 1)
      BY DEF Same
    <3> QED
      BY <1>1, <1>2, <3>1 DEF InMemory
  <2> HIDE DEF rep2
  <2> QED
    BY <1>8, <2>1 DEF PairedFrom
<1> HIDE DEF rep2
<1>10. Paired(rep2, n)'
  BY <1>4, <1>6, <1>7, <1>9 DEF Paired
<1> QED
  BY <1>10 DEF rep2

----------------------------------------------------------------------------
(* The first pass.                                                         *)
LEMMA SolvedNext ==
    ASSUME NEW rep, NEW n, n = cursor, UNCHANGED given, Processed' = n,
           Names(rep, cursor), InMemory(rep, cursor), Written(rep, n)', Paired(rep, n)'
    PROVE  Solved'
<1>1. \A u, v : Same(u, v, n)' <=> Same(u, v, cursor)
  BY DEF Same, ClosedSets, Equal
<1>2. Names(rep, n)' /\ InMemory(rep, n)'
  BY <1>1 DEF Names, InMemory
<1> QED
  BY <1>2 DEF Solved

LEMMA TightAtFirst ==
    ASSUME Typed, phase = "equal" \/ cursor = 1, upperBound = [v \in RegisteredVars |-> NULL]
    PROVE  Tight
<1>1. \A v : TypesNamed(v) = {}
  BY DEF TypesNamed, Typed
<1>2. \A v : Bound(v) = NULL
  BY DEF Bound
<1> QED
  BY <1>1, <1>2 DEF Tight

LEMMA InitInv == Init => Inv
<1> SUFFICES ASSUME Init PROVE Inv
  OBVIOUS
<1>1. given \in Seq(GivenElements) /\ elements = given
  BY GivenTyped DEF Init
<1>2. \A e \in GivenElements : e \in WorkElements
  <2> SUFFICES ASSUME NEW e \in GivenElements PROVE e \in WorkElements
    OBVIOUS
  <2>1. e = [left |-> e.left, relation |-> e.relation, type |-> e.type, var |-> e.var,
             part |-> e.part]
    BY DEF GivenElements
  <2> QED
    BY <2>1, GivenFacts DEF WorkElements
<1>3. Typed
  <2>1. elements \in Seq(WorkElements)
    BY <1>1, <1>2
  <2>2. cursor \in 1 .. (Len(given) + 1)
    BY <1>1 DEF Init
  <2>3. equalityPair \in [DOMAIN equalityPair -> MemoryVars] /\ DOMAIN equalityPair = {}
    BY DEF Init
  <2> QED
    BY <1>1, <2>1, <2>2, <2>3 DEF Init, Typed, Vars
<1>4. Tight
  BY <1>3, TightAtFirst DEF Init
<1>5. Solved
  <2> DEFINE rep == [v \in Vars |-> v]
  <2>1. Processed = 0
    BY DEF Processed, Init
  <2>2. \A v \in Vars : rep[v] = v
    OBVIOUS
  <2>3. ASSUME NEW u, NEW v \in RegisteredVars, Same(u, v, 0) \/ Same(v, u, 0) PROVE u = v
    <3>1. Equal(0) = {}
      BY DEF Equal
    <3>2. {v} \in ClosedSets(0)
      BY <3>1 DEF ClosedSets
    <3> QED
      BY <2>3, <3>2 DEF Same
  <2>4. MemoryVars \subseteq RegisteredVars /\ RegisteredVars \subseteq Vars
        /\ Vars = RegisteredVars \cup {Stranger}
    BY DEF RegisteredVars, Vars
  <2>5. \A v : Same(v, v, 0)
    BY DEF Same
  <2>6. ASSUME NEW u \in Vars, NEW v \in Vars, Same(u, v, 0) PROVE u = v
    BY <2>3, <2>4, <2>6
  <2>7. Names(rep, 0)
    <3>1. \A v \in Vars : Same(rep[v], v, 0)
      BY <2>2, <2>5
    <3>2. \A u, v \in Vars : Same(u, v, 0) => rep[u] = rep[v]
      BY <2>6
    <3> QED
      BY <3>1, <3>2 DEF Names
  <2>8. InMemory(rep, 0)
    BY <2>4, <2>6 DEF InMemory
  <2>9. Written(rep, 0)
    <3> SUFFICES ASSUME NEW k \in 1 .. Len(given)
                 PROVE  given[k].left = rep[given[k].left]
                        /\ (given[k].var # NULL => given[k].var = rep[given[k].var])
      BY <1>1, <2>5 DEF Written
    <3>1. given[k] \in GivenElements
      BY <1>1
    <3>2. given[k].left \in Vars /\ given[k].var \in RegisteredVars \cup {NULL}
      BY <3>1, GivenFacts
    <3> QED
      BY <2>4, <3>2
  <2>10. Paired(rep, 0)
    <3>1. DOMAIN equalityPair = {}
      BY DEF Init
    <3>2. \A v \in MemoryVars : v \in PairedFrom(v)
      BY DEF PairedFrom
    <3> QED
      BY <2>2, <2>4, <3>1, <3>2 DEF Paired
  <2> HIDE DEF rep
  <2> QED
    BY <2>1, <2>7, <2>8, <2>9, <2>10 DEF Solved
<1> QED
  BY <1>3, <1>4, <1>5 DEF Inv

(* One of the three replacements, whatever becomes of the pairs.           *)
LEMMA ReplaceInv ==
    ASSUME Inv, EqualVars, NEW rep, Names(rep, cursor - 1), Written(rep, cursor - 1),
           InMemory(rep, cursor - 1),
           NEW old, NEW new, Replaces(rep, old, new), NEW n, n = cursor,
           new \in MemoryVars \/ (old = Here.var /\ new = Here.left /\ old \notin MemoryVars),
           elements' = Replace(old, new), cursor' = cursor + 1,
           UNCHANGED <<given, upperBound, phase, halt>>,
           equalityPair' \in [DOMAIN equalityPair' -> MemoryVars],
           DOMAIN equalityPair' \subseteq MemoryVars,
           Paired(Renamed(rep, old, new), n)'
    PROVE  Inv'
<1>1. Typed /\ phase = "equal" /\ cursor \in 1 .. Len(given)
  BY DEF Inv, EqualVars, AtElement, Typed
<1>2. Names(Renamed(rep, old, new), cursor) /\ InMemory(Renamed(rep, old, new), cursor)
  BY <1>1, RenamedNames, RenamedInMemory
<1>3. /\ Written(Renamed(rep, old, new), n)'
      /\ elements' \in Seq(WorkElements) /\ Len(elements') = Len(given)
  BY <1>1, RenamedWritten
<1>4. Processed' = n
  BY <1>1 DEF Processed
<1>5. Solved'
  <2> DEFINE rep2 == Renamed(rep, old, new)
  <2> HIDE DEF rep2
  <2>1. Names(rep2, cursor) /\ InMemory(rep2, cursor) /\ Written(rep2, n)' /\ Paired(rep2, n)'
    BY <1>2, <1>3 DEF rep2
  <2> QED
    BY <1>4, <2>1, SolvedNext
<1>6. Typed'
  BY <1>1, <1>3 DEF Typed
<1>7. Tight'
  BY <1>1, <1>6 DEF Typed, Tight, TypesNamed, Bound
<1> QED
  BY <1>5, <1>6, <1>7 DEF Inv

LEMMA EqualNames ==
    ASSUME Inv, EqualVars
    PROVE  \E rep : /\ Names(rep, cursor - 1) /\ Written(rep, cursor - 1)
                    /\ InMemory(rep, cursor - 1) /\ Paired(rep, cursor - 1)
<1>1. Processed = cursor - 1
  BY DEF Processed, EqualVars, AtElement
<1> QED
  BY <1>1 DEF Inv, Solved

LEMMA MemoryEqualsMemoryInv == ASSUME Inv, MemoryEqualsMemory PROVE Inv'
<1>1. EqualVars /\ Here.left \in MemoryVars /\ Here.var \in MemoryVars
  BY DEF MemoryEqualsMemory
<1>2. PICK rep : /\ Names(rep, cursor - 1) /\ Written(rep, cursor - 1)
                 /\ InMemory(rep, cursor - 1) /\ Paired(rep, cursor - 1)
  BY <1>1, EqualNames
<1>3. PICK a : a = Here.left
  OBVIOUS
<1>4. PICK b : b = Here.var
  OBVIOUS
<1>5. PICK n : n = cursor
  OBVIOUS
<1>6. elements' = Replace(b, a) /\ equalityPair' = Pair(b, a) /\ cursor' = cursor + 1
      /\ UNCHANGED <<given, upperBound, phase, halt>>
  BY <1>3, <1>4 DEF MemoryEqualsMemory
<1>7. Replaces(rep, b, a)
  BY <1>3, <1>4 DEF Replaces
<1>8. Paired(Renamed(rep, b, a), n)'
  BY <1>1, <1>2, <1>3, <1>4, <1>5, <1>6, PairPaired DEF Inv
<1>9. equalityPair' \in [DOMAIN equalityPair' -> MemoryVars] /\ DOMAIN equalityPair' \subseteq MemoryVars
  BY <1>1, <1>3, <1>4, <1>6 DEF Pair, Inv, Typed
<1> QED
  BY <1>1, <1>2, <1>3, <1>5, <1>6, <1>7, <1>8, <1>9, ReplaceInv

LEMMA TempEqualsMemoryInv == ASSUME Inv, TempEqualsMemory PROVE Inv'
<1>1. EqualVars /\ Here.left \in TempVars /\ Here.var \in MemoryVars
  BY DEF TempEqualsMemory
<1>2. PICK rep : /\ Names(rep, cursor - 1) /\ Written(rep, cursor - 1)
                 /\ InMemory(rep, cursor - 1) /\ Paired(rep, cursor - 1)
  BY <1>1, EqualNames
<1>3. PICK a : a = Here.left
  OBVIOUS
<1>4. PICK b : b = Here.var
  OBVIOUS
<1>5. PICK n : n = cursor
  OBVIOUS
<1>6. elements' = Replace(a, b) /\ cursor' = cursor + 1
      /\ UNCHANGED <<given, upperBound, equalityPair, phase, halt>>
  BY <1>3, <1>4 DEF TempEqualsMemory
<1>7. a \notin MemoryVars
  BY <1>1, <1>3, SolverAssumption
<1>8. Replaces(rep, a, b)
  <2>1. Typed
    BY DEF Inv
  <2>2. a \in Vars /\ rep[a] = a /\ (rep[b] = b \/ Same(b, a, cursor - 1))
    BY <1>1, <1>2, <1>3, <1>4, <2>1, HereFacts DEF Vars
  <2>3. ~ Same(b, a, cursor - 1)
    BY <1>1, <1>2, <1>4, <1>7, <2>2 DEF InMemory
  <2> QED
    BY <1>3, <1>4, <2>2, <2>3 DEF Replaces
<1>9. Paired(Renamed(rep, a, b), n)'
  BY <1>1, <1>2, <1>5, <1>6, <1>7, <1>8, UnpairedPaired DEF Inv
<1>10. equalityPair' \in [DOMAIN equalityPair' -> MemoryVars] /\ DOMAIN equalityPair' \subseteq MemoryVars
  BY <1>6 DEF Inv, Typed
<1> QED
  BY <1>1, <1>2, <1>4, <1>5, <1>6, <1>8, <1>9, <1>10, ReplaceInv

LEMMA EqualsTempInv == ASSUME Inv, EqualsTemp PROVE Inv'
<1>1. EqualVars /\ Here.var \in TempVars
  BY DEF EqualsTemp
<1>2. PICK rep : /\ Names(rep, cursor - 1) /\ Written(rep, cursor - 1)
                 /\ InMemory(rep, cursor - 1) /\ Paired(rep, cursor - 1)
  BY <1>1, EqualNames
<1>3. PICK a : a = Here.left
  OBVIOUS
<1>4. PICK b : b = Here.var
  OBVIOUS
<1>5. PICK n : n = cursor
  OBVIOUS
<1>6. elements' = Replace(b, a) /\ cursor' = cursor + 1
      /\ UNCHANGED <<given, upperBound, equalityPair, phase, halt>>
  BY <1>3, <1>4 DEF EqualsTemp
<1>7. b \notin MemoryVars
  BY <1>1, <1>4, SolverAssumption
<1>8. Replaces(rep, b, a)
  BY <1>3, <1>4 DEF Replaces
<1>9. Paired(Renamed(rep, b, a), n)'
  BY <1>1, <1>2, <1>5, <1>6, <1>7, <1>8, UnpairedPaired DEF Inv
<1>10. equalityPair' \in [DOMAIN equalityPair' -> MemoryVars] /\ DOMAIN equalityPair' \subseteq MemoryVars
  BY <1>6 DEF Inv, Typed
<1> QED
  BY <1>1, <1>2, <1>3, <1>4, <1>5, <1>6, <1>7, <1>8, <1>9, <1>10, ReplaceInv

(* Steps that leave the elements, the pairs and the classes alone.         *)
LEMMA SolvedKept ==
    ASSUME Solved, UNCHANGED <<given, elements, equalityPair>>,
           Equal(Processed') = Equal(Processed)
    PROVE  Solved'
<1>1. PICK rep : /\ Names(rep, Processed) /\ InMemory(rep, Processed)
                 /\ Written(rep, Processed) /\ Paired(rep, Processed)
  BY DEF Solved
<1>2. PICK n : n = Processed'
  OBVIOUS
<1>3. \A u, v : Same(u, v, n)' <=> Same(u, v, Processed)
  <2>1. Equal(n)' = Equal(n)
    BY DEF Equal
  <2> QED
    BY <1>2, <2>1 DEF Same, ClosedSets
<1>4. \A v : PairedFrom(v)' = PairedFrom(v)
  BY DEF PairedFrom
<1>5. Names(rep, n)' /\ InMemory(rep, n)'
  BY <1>1, <1>3 DEF Names, InMemory
<1>6. Written(rep, n)'
  BY <1>1, <1>3 DEF Written
<1>7. Paired(rep, n)'
  BY <1>1, <1>3, <1>4 DEF Paired
<1> QED
  BY <1>2, <1>5, <1>6, <1>7 DEF Solved

LEMMA SkipElementInv == ASSUME Inv, SkipElement PROVE Inv'
<1> USE DEF Inv, SkipElement, AtElement
<1>1. Typed /\ phase = "equal" /\ cursor \in 1 .. Len(given) /\ cursor - 1 \in 0 .. Len(given) - 1
      /\ (cursor - 1) + 1 = cursor
  BY DEF Typed
<1>2. PICK rep : Written(rep, Processed)
  BY DEF Solved
<1>3. Here.relation = given[cursor].relation /\ (Here.var = NULL <=> given[cursor].var = NULL)
  BY <1>1, <1>2 DEF Written, Here
<1>4. ~ (given[cursor].relation = "=" /\ given[cursor].var # NULL)
  BY <1>1, <1>3 DEF EqualVars
<1>5. Equal(cursor) = Equal(cursor - 1)
  BY <1>1, <1>4, EqualGrows DEF Typed
<1>6. Processed' = cursor /\ Processed = cursor - 1
  BY <1>1 DEF Processed
<1>7. Solved'
  BY <1>5, <1>6, SolvedKept
<1>8. Typed'
  BY <1>1 DEF Typed
<1>9. Tight'
  BY <1>1, <1>8 DEF Typed, Tight, TypesNamed, Bound
<1> QED
  BY <1>7, <1>8, <1>9

LEMMA NoConstraintsInv == ASSUME Inv, NoConstraints PROVE Inv'
<1> USE DEF Inv, NoConstraints
<1>1. Processed' = Processed
  BY DEF Processed
<1>2. Solved'
  BY <1>1, SolvedKept
<1>3. Typed'
  BY DEF Typed
<1>4. Tight'
  BY DEF Tight, TypesNamed, Bound
<1> QED
  BY <1>2, <1>3, <1>4

LEMMA StartBoundsInv == ASSUME Inv, StartBounds PROVE Inv'
<1> USE DEF Inv, StartBounds
<1>1. Processed' = Processed
  BY DEF Processed, Typed
<1>2. Solved'
  BY <1>1, SolvedKept
<1>3. Typed'
  BY DEF Typed
<1>4. Tight'
  BY <1>3 DEF Typed, Tight, TypesNamed, Bound
<1> QED
  BY <1>2, <1>3, <1>4

LEMMA ReportInv == ASSUME Inv, Report PROVE Inv'
<1> USE DEF Inv, Report
<1>1. Processed' = Processed
  BY DEF Processed
<1>2. Solved'
  BY <1>1, SolvedKept
<1>3. Typed'
  BY DEF Typed
<1>4. \A v : TypesNamed(v)' = TypesNamed(v)
  BY DEF TypesNamed, Bounds
<1>5. Tight'
  BY <1>4 DEF Tight, Bound
<1> QED
  BY <1>2, <1>3, <1>5

----------------------------------------------------------------------------
(* The second pass.  CompareType() orders types of one size by their level.*)
LEMMA SmallerBySize ==
    ASSUME NEW a \in Types, NEW b \in Types, a.size = b.size
    PROVE  /\ Smaller(a, b) <=> Level[b.name] < Level[a.name]
           /\ Level[a.name] \in Nat
<1>1. a.name \in DOMAIN Level /\ b.name \in DOMAIN Level /\ a.size \in Nat
  BY DEF Types
<1>2. DOMAIN Level = {"reg", "num", "ptr", "int", "uint", "all"}
      /\ Level["reg"] = 1 /\ Level["num"] = 2 /\ Level["ptr"] = 2
      /\ Level["int"] = 3 /\ Level["uint"] = 3 /\ Level["all"] = 4
  BY DEF Level
<1>3. Level[a.name] \in Nat /\ Level[b.name] \in Nat
  BY <1>1, <1>2
<1>4. CASE SameName(a, b)
  <2>1. Level[a.name] = Level[b.name]
    BY <1>2, <1>4 DEF SameName
  <2>2. Answer(a, b) = 0
    BY <1>1, <1>4 DEF Answer
  <2> QED
    BY <1>3, <2>1, <2>2 DEF Smaller
<1>5. CASE ~ SameName(a, b)
  <2>1. Comparable(a, b)
    BY DEF Comparable
  <2>2. Answer(a, b) = Level[b.name] - Level[a.name]
    BY <1>5 DEF Answer
  <2>3. Level[b.name] - Level[a.name] < 0 <=> Level[b.name] < Level[a.name]
    BY ONLY <1>3
  <2> QED
    BY <1>3, <2>1, <2>2, <2>3 DEF Smaller
<1> QED
  BY <1>4, <1>5

(* Whether the element at the cursor bounds its left hand.                 *)
LEMMA BoundHere ==
    ASSUME Inv, AtElement("bound")
    PROVE  /\ cursor \in 1 .. Len(given) /\ phase = "bound"
           /\ Here = elements[cursor] /\ Here.left \in Vars
           /\ Bounds(Here) <=> Bounds(given[cursor])
           /\ Here.type = given[cursor].type
           /\ Bounds(Here) => Here.type \in Types
<1>1. Typed /\ Solved
  BY DEF Inv
<1>2. cursor \in 1 .. Len(given) /\ phase = "bound"
  BY <1>1 DEF AtElement, Typed
<1>3. PICK rep : Written(rep, Processed)
  BY <1>1 DEF Solved
<1>4. /\ Here.relation = given[cursor].relation /\ Here.type = given[cursor].type
      /\ Here.part = given[cursor].part /\ (given[cursor].var = NULL <=> Here.var = NULL)
  BY <1>2, <1>3 DEF Written, Here
<1>5. Bounds(Here) <=> Bounds(given[cursor])
  BY <1>4 DEF Bounds
<1>6. given[cursor] \in GivenElements /\ elements[cursor] \in WorkElements
  BY <1>1, <1>2 DEF Typed
<1>7. Here.left \in Vars
  BY <1>6 DEF Here, WorkElements
<1>8. Bounds(Here) => Here.type \in Types
  BY <1>4, <1>5, <1>6, GivenFacts
<1> QED
  BY <1>2, <1>4, <1>5, <1>7, <1>8 DEF Here

LEMMA TypesNamedTyped ==
    ASSUME Typed, NEW v
    PROVE  TypesNamed(v) \subseteq Types
<1> SUFFICES ASSUME NEW k \in 1 .. Len(given), Bounds(given[k]) PROVE given[k].type \in Types
  BY DEF TypesNamed
<1>1. given[k] \in GivenElements
  BY DEF Typed
<1> QED
  BY <1>1, GivenFacts

(* What the second pass has come to after one more element.                *)
LEMMA TypesNamedNext ==
    ASSUME Typed, phase = "bound", cursor \in 1 .. Len(given), cursor' = cursor + 1,
           UNCHANGED <<given, elements, phase>>, NEW v
    PROVE  TypesNamed(v)' =
            IF Bounds(given[cursor]) /\ elements[cursor].left = v
            THEN TypesNamed(v) \cup {given[cursor].type} ELSE TypesNamed(v)
<1>1. \A k \in 1 .. Len(given) : k < cursor' <=> k < cursor \/ k = cursor
  BY DEF Typed
<1> QED
  BY <1>1 DEF TypesNamed, Bounds

LEMMA SkipBoundInv == ASSUME Inv, SkipBound PROVE Inv'
<1> USE DEF Inv, SkipBound
<1>1. /\ cursor \in 1 .. Len(given) /\ phase = "bound" /\ Typed
      /\ ~ Bounds(given[cursor])
  BY BoundHere
<1>2. Processed' = Processed
  BY <1>1 DEF Processed
<1>3. Solved'
  BY <1>2, SolvedKept
<1>4. Typed'
  BY <1>1 DEF Typed
<1>5. \A v : TypesNamed(v)' = TypesNamed(v)
  BY <1>1, TypesNamedNext
<1>6. Tight'
  BY <1>5 DEF Tight, Bound
<1> QED
  BY <1>3, <1>4, <1>6

LEMMA SubConstraintInv == ASSUME Inv, SubConstraint PROVE Inv'
<1> DEFINE x == Here.left
           t == Here.type
<1>1. /\ cursor \in 1 .. Len(given) /\ phase = "bound" /\ Typed /\ Tight
      /\ Here = elements[cursor] /\ x \in Vars
      /\ Bounds(given[cursor]) /\ t = given[cursor].type /\ t \in Types
  BY BoundHere DEF SubConstraint, Inv
<1>2. /\ upperBound' = [v \in DOMAIN upperBound \cup {x} |->
                            IF v = x THEN Tightened(Bound(v), t) ELSE upperBound[v]]
      /\ cursor' = cursor + 1
      /\ UNCHANGED <<given, elements, equalityPair, phase, halt>>
  BY DEF SubConstraint
<1>3. Processed' = Processed
  BY <1>1, <1>2 DEF Processed
<1>4. Solved'
  BY <1>2, <1>3, SolvedKept DEF Inv
<1>5. Bound(x) \in Types \cup {NULL} /\ NULL \notin Types
  BY <1>1, SolverAssumption DEF Bound, Typed
<1>6. Tightened(Bound(x), t) \in Types
  BY <1>1, <1>5 DEF Tightened
<1>7. Typed'
  <2>1. upperBound' \in [DOMAIN upperBound' -> Types \cup {NULL}]
    BY <1>1, <1>2, <1>6 DEF Typed
  <2>2. RegisteredVars \subseteq DOMAIN upperBound' /\ DOMAIN upperBound' \subseteq Vars
    BY <1>1, <1>2 DEF Typed
  <2> QED
    BY <1>1, <1>2, <2>1, <2>2 DEF Typed
<1>8. \A v : /\ v # x => Bound(v)' = Bound(v)
             /\ v = x => Bound(v)' = Tightened(Bound(x), t)
  BY <1>2 DEF Bound
<1>9. \A v : TypesNamed(v)' = IF v = x THEN TypesNamed(v) \cup {t} ELSE TypesNamed(v)
  BY <1>1, <1>2, TypesNamedNext
<1>10. Tight'
  <2> SUFFICES ASSUME NEW v \in Vars
               PROVE  /\ TypesNamed(v)' = {} => Bound(v)' = NULL
                      /\ TypesNamed(v)' # {} =>
                            /\ Bound(v)' \in TypesNamed(v)'
                            /\ (\A a, b \in TypesNamed(v)' : a.size = b.size) =>
                                    \A a \in TypesNamed(v)' : ~Smaller(a, Bound(v)')
    BY DEF Tight, Smaller, Comparable, Answer, SameName, Level
  <2>1. CASE v # x
    BY <1>1, <1>8, <1>9, <2>1 DEF Tight
  <2>2. CASE v = x
    <3> DEFINE T == TypesNamed(x)
               o == Bound(x)
    <3>1. TypesNamed(v)' = T \cup {t} /\ Bound(v)' = Tightened(o, t)
      BY <1>8, <1>9, <2>2
    <3>2. T \subseteq Types
      BY <1>1, TypesNamedTyped
    <3>3. /\ T = {} => o = NULL
          /\ T # {} => /\ o \in T
                       /\ (\A a, b \in T : a.size = b.size) => \A a \in T : ~Smaller(a, o)
      BY <1>1 DEF Tight
    <3>4. Tightened(o, t) \in T \cup {t}
      BY <1>5, <3>3 DEF Tightened
    <3>5. ASSUME \A a, b \in T \cup {t} : a.size = b.size, NEW a \in T \cup {t}
          PROVE  ~ Smaller(a, Tightened(o, t))
      <4>1. \A b, c \in T \cup {t} :
                /\ Smaller(b, c) <=> Level[c.name] < Level[b.name]
                /\ Level[b.name] \in Nat
        BY <1>1, <3>2, <3>5, SmallerBySize
      <4>2. CASE T = {}
        <5>1. Tightened(o, t) = t /\ a = t
          BY <3>3, <4>2 DEF Tightened
        <5> QED
          BY <4>1, <5>1
      <4>3. CASE T # {}
        <5>1. o \in T /\ o # NULL /\ \A b \in T : ~Smaller(b, o)
          BY <1>5, <3>2, <3>3, <3>5, <4>3
        <5>2. Tightened(o, t) = IF Smaller(t, o) THEN t ELSE o
          BY <5>1 DEF Tightened
        <5>3. \A b \in T : ~ (Level[o.name] < Level[b.name])
          BY <4>1, <5>1
        <5> QED
          BY <4>1, <5>1, <5>2, <5>3
      <4> QED
        BY <4>2, <4>3
    <3> QED
      BY <3>1, <3>4, <3>5
  <2> QED
    BY <2>1, <2>2
<1> QED
  BY <1>4, <1>7, <1>10 DEF Inv

----------------------------------------------------------------------------
LEMMA NextInv == Inv /\ [Next]_vars => Inv'
<1> SUFFICES ASSUME Inv, [Next]_vars PROVE Inv'
  OBVIOUS
<1>1. CASE NoConstraints
  BY <1>1, NoConstraintsInv
<1>2. CASE MemoryEqualsMemory
  BY <1>2, MemoryEqualsMemoryInv
<1>3. CASE TempEqualsMemory
  BY <1>3, TempEqualsMemoryInv
<1>4. CASE EqualsTemp
  BY <1>4, EqualsTempInv
<1>5. CASE SkipElement
  BY <1>5, SkipElementInv
<1>6. CASE StartBounds
  BY <1>6, StartBoundsInv
<1>7. CASE SubConstraint
  BY <1>7, SubConstraintInv
<1>8. CASE SkipBound
  BY <1>8, SkipBoundInv
<1>9. CASE Report
  BY <1>9, ReportInv
<1>10. CASE UNCHANGED vars
  <2> USE <1>10 DEF vars, Inv
  <2>1. Processed' = Processed
    BY DEF Processed
  <2>2. Solved'
    BY <2>1, SolvedKept
  <2>3. Typed'
    BY DEF Typed
  <2>4. \A v : TypesNamed(v)' = TypesNamed(v)
    BY DEF TypesNamed, Bounds
  <2>5. Tight'
    BY <2>4 DEF Tight, Bound
  <2> QED
    BY <2>2, <2>3, <2>5
<1> QED
  BY <1>1, <1>2, <1>3, <1>4, <1>5, <1>6, <1>7, <1>8, <1>9, <1>10 DEF Next

(* In every state of the solver some assignment of names to classes        *)
(* explains the elements and the pairs, and each name has a tightest bound.*)
THEOREM Invariance == Spec => []Inv
<1>1. Init => Inv
  BY InitInv
<1>2. Inv /\ [Next]_vars => Inv'
  BY NextInv
<1> QED
  BY <1>1, <1>2, PTL DEF Spec

(* The variables of the elements are registered ones, but for the left     *)
(* hand of a bound; bounds and pairs belong to variables.                  *)
THEOREM SolverTypeCorrect == Spec => []SolverTypeOK
<1>1. Inv => SolverTypeOK
  <2> SUFFICES ASSUME Typed PROVE SolverTypeOK
    BY DEF Inv
  <2>1. \A k \in DOMAIN elements :
            elements[k].left \in Vars /\ elements[k].var \in RegisteredVars \cup {NULL}
    <3> SUFFICES ASSUME NEW k \in DOMAIN elements
                 PROVE  elements[k].left \in Vars /\ elements[k].var \in RegisteredVars \cup {NULL}
      OBVIOUS
    <3>1. elements[k] \in WorkElements
      BY DEF Typed
    <3> QED
      BY <3>1 DEF WorkElements
  <2> QED
    BY <2>1 DEF Typed, SolverTypeOK
<1> QED
  BY <1>1, Invariance, PTL

(* The names of two given left hands are the same exactly in one class.    *)
LEMMA NameFacts ==
    ASSUME Inv
    PROVE  \E rep : /\ Names(rep, Processed) /\ InMemory(rep, Processed) /\ Paired(rep, Processed)
                    /\ DOMAIN elements = 1 .. Len(given) /\ DOMAIN given = 1 .. Len(given)
                    /\ \A k \in 1 .. Len(given) :
                        given[k].left \in Vars /\ elements[k].left = rep[given[k].left]
<1>1. PICK rep : /\ Names(rep, Processed) /\ InMemory(rep, Processed)
                 /\ Written(rep, Processed) /\ Paired(rep, Processed)
  BY DEF Inv, Solved
<1>2. DOMAIN elements = 1 .. Len(given) /\ DOMAIN given = 1 .. Len(given)
  BY DEF Inv, Typed
<1>3. ASSUME NEW k \in 1 .. Len(given)
      PROVE  given[k].left \in Vars /\ elements[k].left = rep[given[k].left]
  <2>1. given[k] \in GivenElements
    BY DEF Inv, Typed
  <2> QED
    BY <1>1, <2>1, GivenFacts DEF Written
<1> QED
  BY <1>1, <1>2, <1>3

LEMMA InvOneName == Inv => OneNamePerClass
<1> SUFFICES ASSUME Inv PROVE OneNamePerClass
  OBVIOUS
<1>1. PICK rep : /\ Names(rep, Processed)
                 /\ DOMAIN elements = 1 .. Len(given) /\ DOMAIN given = 1 .. Len(given)
                 /\ \A k \in 1 .. Len(given) :
                        given[k].left \in Vars /\ elements[k].left = rep[given[k].left]
  BY NameFacts
<1>2. \A u, v : u \in EqualTo(v, Processed) <=> u \in Vars /\ Same(u, v, Processed)
  BY ClassIsSame
<1> SUFFICES ASSUME NEW k \in 1 .. Len(given)
             PROVE  /\ elements[k].left \in EqualTo(given[k].left, Processed)
                    /\ \A l \in 1 .. Len(given) :
                        given[l].left \in EqualTo(given[k].left, Processed) =>
                            elements[l].left = elements[k].left
  BY <1>1 DEF OneNamePerClass
<1>3. elements[k].left \in EqualTo(given[k].left, Processed)
  BY <1>1, <1>2 DEF Names
<1>4. \A l \in 1 .. Len(given) :
        given[l].left \in EqualTo(given[k].left, Processed) => elements[l].left = elements[k].left
  BY <1>1, <1>2 DEF Names
<1> QED
  BY <1>3, <1>4

(* For every list of constraints and after every element of it, left hands *)
(* have the same name exactly if the elements so far make them equal.      *)
THEOREM OneName == Spec => []OneNamePerClass
  BY InvOneName, Invariance, PTL

(* For every list of constraints, a class of equal variables is named by a *)
(* variable in memory if there is one in it.                               *)
THEOREM MemoryNamed == Spec => []NamedByMemory
<1>1. Inv => NamedByMemory
  <2> SUFFICES ASSUME Inv PROVE NamedByMemory
    OBVIOUS
  <2>1. PICK rep : /\ InMemory(rep, Processed) /\ DOMAIN elements = 1 .. Len(given)
                   /\ \A k \in 1 .. Len(given) :
                        given[k].left \in Vars /\ elements[k].left = rep[given[k].left]
    BY NameFacts
  <2>2. \A u, v : u \in EqualTo(v, Processed) => Same(u, v, Processed)
    BY ClassIsSame
  <2> QED
    BY <2>1, <2>2 DEF NamedByMemory, InMemory
<1> QED
  BY <1>1, Invariance, PTL

(* For every list of constraints, the pairs lead from each memory variable *)
(* to the one that carries its bound, and end there.                       *)
THEOREM PairsLead == Spec => []PairsLeadToName
<1>1. Inv => PairsLeadToName
  <2> SUFFICES ASSUME Inv PROVE PairsLeadToName
    OBVIOUS
  <2>1. PICK rep : /\ Paired(rep, Processed) /\ DOMAIN elements = 1 .. Len(given)
                   /\ \A k \in 1 .. Len(given) :
                        given[k].left \in Vars /\ elements[k].left = rep[given[k].left]
    BY NameFacts
  <2> QED
    BY <2>1 DEF PairsLeadToName, Paired
<1> QED
  BY <1>1, Invariance, PTL

(* For every list of constraints, the bound of a class is one of those     *)
(* given to its variables, and a tightest where they have one size.        *)
THEOREM Tightest == Spec => []BoundIsTightest
<1>1. Inv => BoundIsTightest
  <2> SUFFICES ASSUME Inv PROVE BoundIsTightest
    OBVIOUS
  <2>1. PICK rep : /\ Names(rep, Processed)
                   /\ DOMAIN elements = 1 .. Len(given) /\ DOMAIN given = 1 .. Len(given)
                   /\ \A k \in 1 .. Len(given) :
                        given[k].left \in Vars /\ elements[k].left = rep[given[k].left]
    BY NameFacts
  <2>2. \A u, v : u \in EqualTo(v, Processed) <=> u \in Vars /\ Same(u, v, Processed)
    BY ClassIsSame
  <2>3. ASSUME NEW k \in 1 .. Len(given)
        PROVE  BoundsOf(given[k].left) = TypesNamed(elements[k].left)
    <3>1. CASE phase = "equal"
      BY <3>1 DEF BoundsOf, TypesNamed
    <3>2. CASE phase # "equal"
      <4>1. Processed = Len(given)
        BY <3>2 DEF Processed
      <4>2. ASSUME NEW m \in 1 .. Len(given)
            PROVE  given[m].left \in EqualTo(given[k].left, Processed)
                   <=> elements[m].left = elements[k].left
        <5>1. given[m].left \in Vars /\ given[k].left \in Vars
              /\ elements[m].left = rep[given[m].left] /\ elements[k].left = rep[given[k].left]
          BY <2>1
        <5>2. Same(rep[given[m].left], given[m].left, Processed)
              /\ Same(rep[given[k].left], given[k].left, Processed)
          BY <2>1, <5>1 DEF Names
        <5>3. Same(given[m].left, given[k].left, Processed)
              => rep[given[m].left] = rep[given[k].left]
          BY <2>1, <5>1 DEF Names
        <5>4. rep[given[m].left] = rep[given[k].left]
              => Same(given[m].left, given[k].left, Processed)
          BY <5>2 DEF Same
        <5> QED
          BY <2>2, <5>1, <5>3, <5>4
      <4> QED
        BY <2>1, <4>1, <4>2 DEF BoundsOf, TypesNamed
    <3> QED
      BY <3>1, <3>2
  <2>4. ASSUME NEW k \in 1 .. Len(given) PROVE elements[k].left \in Vars
    BY <2>1 DEF Names
  <2> QED
    BY <2>1, <2>3, <2>4 DEF BoundIsTightest, Inv, Tight
<1> QED
  BY <1>1, Invariance, PTL

=============================================================================
