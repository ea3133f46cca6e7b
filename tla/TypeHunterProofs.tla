--------------------------- MODULE TypeHunterProofs ---------------------------
(***************************************************************************)
(* The registers and the flags a block is analysed with, for functions of  *)
(* any length and any set of variables that were found: whatever merges of *)
(* merges they came through, they are those of the paths to the block.     *)
(***************************************************************************)
EXTENDS TypeHunter, FunctionAnalysisProofs

(* What the paths give a block of v, what they give its fathers.           *)
Combined(b, v) ==
    LET ends == {Through(f, v[f]) : f \in Order!Merged(b)}
    IN  IF ends = {} THEN Nothing(b)
        ELSE [values |-> [s \in Slots |-> UNION {e.values[s] : e \in ends}],
              flags |-> UNION {e.flags : e \in ends}]

(* The tables of the references: how the paths to all blocks grow, how     *)
(* they go on through a block, and how what a variable stands for grows.   *)
Advance(what, k, v) ==
    IF what[1] = "paths" THEN [b \in 0 .. (blockNum - 1) |-> Combined(b, v)]
    ELSE IF what[1] = "block" THEN After(k - 1, v)
    ELSE v \cup {p[2] : p \in {p \in standsFor : p[1] \in v}}

(* g tabulates, from v on, what comes at lo, ..., hi.                      *)
Table(g, what, lo, hi, v) ==
    g = [k \in lo .. hi |-> IF k = lo THEN v ELSE Advance(what, k, g[k - 1])]

LEMMA TableFrom ==
    ASSUME NEW what, NEW v, NEW lo \in Int, NEW n \in Nat
    PROVE  \E g : Table(g, what, lo, lo + n, v)
<1> DEFINE Bad == {t \in Nat : ~ \E g : Table(g, what, lo, lo + t, v)}
<1> SUFFICES ASSUME Bad # {} PROVE FALSE
  OBVIOUS
<1>1. PICK t \in Bad : \A y \in Bad : t <= y
  <2>1. Bad \subseteq Nat
    OBVIOUS
  <2> HIDE DEF Bad
  <2> QED
    BY <2>1, LeastNumber
<1>2. CASE t = 0
  <2>1. Table([k \in lo .. lo |-> v], what, lo, lo, v)
    BY DEF Table
  <2>2. lo + t = lo
    BY <1>2
  <2> QED
    BY <2>1, <2>2
<1>3. CASE t # 0
  <2>1. t \in Nat /\ t - 1 \in Nat /\ ~ (t <= t - 1) /\ lo + (t - 1) = (lo + t) - 1
    BY <1>3
  <2>2. PICK g : Table(g, what, lo, (lo + t) - 1, v)
    BY <1>1, <2>1
  <2> DEFINE hi == lo + t
             h == [k \in lo .. hi |-> IF k = hi THEN Advance(what, hi, g[hi - 1]) ELSE g[k]]
  <2>3. \A k \in lo .. hi - 1 : g[k] = IF k = lo THEN v ELSE Advance(what, k, g[k - 1])
    BY <2>1, <2>2 DEF Table
  <2>4. ASSUME NEW k \in lo .. hi
        PROVE  h[k] = IF k = lo THEN v ELSE Advance(what, k, h[k - 1])
    <3>1. CASE k = hi
      <4>1. h[k] = Advance(what, k, g[k - 1]) /\ h[k - 1] = g[k - 1] /\ k # lo
        BY <2>1, <3>1
      <4> QED
        BY <4>1
    <3>2. CASE k # hi /\ k = lo
      BY <2>1, <2>3, <3>2
    <3>3. CASE k # hi /\ k # lo
      <4>1. k \in lo .. hi - 1 /\ k - 1 \in lo .. hi /\ k - 1 # hi
        BY <2>1, <3>3
      <4>2. h[k] = g[k] /\ h[k - 1] = g[k - 1]
        BY <3>3, <4>1
      <4>3. g[k] = Advance(what, k, g[k - 1])
        BY <2>3, <3>3, <4>1
      <4> QED
        BY <3>3, <4>2, <4>3
    <3> QED
      BY <3>1, <3>2, <3>3
  <2> HIDE DEF Bad
  <2>5. Table(h, what, lo, hi, v)
    BY <2>4 DEF Table
  <2> QED
    BY <2>5 DEF Bad
<1> QED
  BY <1>2, <1>3

----------------------------------------------------------------------------
(* What comes through the fathers alone counts.                            *)
LEMMA CombinedSame ==
    ASSUME NEW b, NEW v, NEW u, \A f \in Order!Merged(b) : v[f] = u[f]
    PROVE  Combined(b, v) = Combined(b, u)
<1>1. {Through(f, v[f]) : f \in Order!Merged(b)} = {Through(f, u[f]) : f \in Order!Merged(b)}
  OBVIOUS
<1> QED
  BY <1>1 DEF Combined

(* Fathers have fewer blocks that are nearer to the entry.                 *)
Nearer(b) == {c \in Index : depth[c] < depth[b]}

LEMMA FathersNearer ==
    ASSUME blockNum \in Nat, depth \in [Index -> Int], NEW b \in Index
    PROVE  /\ Cardinality(Nearer(b)) \in 0 .. (blockNum - 1)
           /\ \A f \in Order!Merged(b) :
                f \in Index /\ Cardinality(Nearer(f)) < Cardinality(Nearer(b))
<1>1. IsFiniteSet(Index) /\ Cardinality(Index) = blockNum
  BY IntervalSize DEF Index
<1>2. \A c \in Index : IsFiniteSet(Nearer(c)) /\ Cardinality(Nearer(c)) \in Nat
  <2>1. \A c : Nearer(c) \subseteq Index
    BY DEF Nearer
  <2> QED
    BY <1>1, <2>1, FS_Subset, FS_CardinalityType
<1>3. ASSUME NEW T, NEW x \in Index, IsFiniteSet(T), x \in T, NEW S, S \subseteq T, x \notin S
      PROVE  Cardinality(S) < Cardinality(T)
  <2>1. S \in SUBSET T /\ S # T
    BY <1>3
  <2>2. Cardinality(S) \in Nat /\ Cardinality(T) \in Nat
        /\ Cardinality(S) <= Cardinality(T) /\ (Cardinality(S) = Cardinality(T) => S = T)
    BY <1>3, <2>1, FS_Subset, FS_CardinalityType
  <2> QED
    BY <2>1, <2>2
<1>4. Cardinality(Nearer(b)) < Cardinality(Index)
  <2>1. Nearer(b) \subseteq Index /\ b \notin Nearer(b)
    BY DEF Nearer
  <2> QED
    BY <1>1, <1>3, <2>1
<1>5. ASSUME NEW f \in Order!Merged(b)
      PROVE  f \in Index /\ Cardinality(Nearer(f)) < Cardinality(Nearer(b))
  <2>1. f \in Index /\ depth[f] < depth[b]
    BY DEF Order!Merged, Order!Fathers, Order!Blocks, Index
  <2>2. Nearer(f) \subseteq Nearer(b) /\ f \in Nearer(b) /\ f \notin Nearer(f)
    BY <2>1 DEF Nearer
  <2> QED
    BY <1>2, <1>3, <2>1, <2>2
<1> QED
  BY <1>1, <1>2, <1>4, <1>5

(* After as many rounds as there are blocks the paths bring nothing new:   *)
(* what comes to a block is what comes through its fathers.                *)
LEMMA PathsSettle ==
    ASSUME blockNum \in Nat, depth \in [Index -> Int], NEW b \in Index
    PROVE  OnPaths[b] = Combined(b, OnPaths)
<1> DEFINE start == [c \in 0 .. (blockNum - 1) |-> Nothing(c)]
           g == CHOOSE h : Table(h, <<"paths">>, 0, blockNum, start)
<1>1. Table(g, <<"paths">>, 0, blockNum, start)
  <2>1. \E h : Table(h, <<"paths">>, 0, 0 + blockNum, start)
    <3>1. 0 \in Int
      OBVIOUS
    <3> HIDE DEF start
    <3> QED
      BY <3>1, TableFrom
  <2>2. 0 + blockNum = blockNum
    OBVIOUS
  <2> HIDE DEF start
  <2> QED
    BY <2>1, <2>2
<1>2. OnPaths = g[blockNum]
  BY DEF OnPaths, Table, Advance, Combined
<1> HIDE DEF g
<1>3. /\ g[0] = [c \in Index |-> Nothing(c)]
      /\ \A n \in 1 .. blockNum : g[n] = [c \in Index |-> Combined(c, g[n - 1])]
  <2>1. \A n \in 0 .. blockNum : g[n] = IF n = 0 THEN start
                                        ELSE [c \in 0 .. (blockNum - 1) |-> Combined(c, g[n - 1])]
    BY <1>1 DEF Table, Advance
  <2>2. 0 \in 0 .. blockNum /\ \A n \in 1 .. blockNum : n \in 0 .. blockNum /\ n # 0
    OBVIOUS
  <2> QED
    BY <2>1, <2>2 DEF Index
<1> HIDE DEF start
<1> DEFINE rank(c) == Cardinality(Nearer(c))
           Bad == {r \in Nat : \E c \in Index : rank(c) = r /\
                                    \E n \in r .. blockNum : g[n][c] # g[r][c]}
<1>4. \A c \in Index : rank(c) \in 0 .. (blockNum - 1)
                       /\ \A f \in Order!Merged(c) : f \in Index /\ rank(f) < rank(c)
  BY FathersNearer
<1> HIDE DEF rank
<1>5. ASSUME Bad # {} PROVE FALSE
  <2>1. PICK r \in Bad : \A y \in Bad : r <= y
    <3>1. Bad \subseteq Nat
      OBVIOUS
    <3> HIDE DEF Bad
    <3> QED
      BY <1>5, <3>1, LeastNumber
  <2>2. PICK c \in Index : rank(c) = r /\ \E n \in r .. blockNum : g[n][c] # g[r][c]
    BY <2>1
  <2>3. PICK n \in r .. blockNum : g[n][c] # g[r][c]
    BY <2>2
  <2>4. r \in Nat /\ n \in Nat /\ n > r /\ n \in 1 .. blockNum
    BY <2>1, <2>3
  <2>0. ASSUME NEW m \in 1 .. blockNum PROVE g[m][c] = Combined(c, g[m - 1])
    <3>1. g[m] = [x \in Index |-> Combined(x, g[m - 1])]
      BY <1>3
    <3> QED
      BY <3>1
  <2>5. g[n][c] = Combined(c, g[n - 1])
    BY <2>0, <2>4
  <2>6. CASE r = 0
    <3>1. Order!Merged(c) = {}
      BY <1>4, <2>2, <2>6
    <3>2. g[n][c] = Nothing(c)
      BY <2>5, <3>1 DEF Combined
    <3> QED
      BY <1>3, <2>3, <2>6, <3>2
  <2>7. CASE r # 0
    <3>1. r \in 1 .. blockNum /\ g[r][c] = Combined(c, g[r - 1])
      <4>1. rank(c) \in 0 .. (blockNum - 1)
        BY <1>4, <2>2
      <4>2. r \in 1 .. blockNum
        BY <2>2, <2>4, <2>7, <4>1
      <4> QED
        BY <2>0, <4>2
    <3>2. ASSUME NEW f \in Order!Merged(c) PROVE g[n - 1][f] = g[r - 1][f]
      <4>1. f \in Index /\ rank(f) < r /\ rank(f) \in Nat
        BY <1>4, <2>2
      <4>2. rank(f) \notin Bad
        BY <2>1, <2>4, <4>1
      <4>3. n - 1 \in rank(f) .. blockNum /\ r - 1 \in rank(f) .. blockNum
        BY <2>4, <3>1, <4>1
      <4> QED
        BY <4>1, <4>2, <4>3
    <3>3. Combined(c, g[n - 1]) = Combined(c, g[r - 1])
      BY <3>2, CombinedSame
    <3> QED
      BY <2>3, <2>5, <3>1, <3>3
  <2> QED
    BY <2>6, <2>7
<1>6. ASSUME NEW f \in Order!Merged(b) PROVE g[blockNum - 1][f] = g[blockNum][f]
  <2>1. f \in Index /\ rank(f) \in Nat /\ rank(f) <= blockNum - 1
    BY <1>4
  <2>2. blockNum - 1 \in rank(f) .. blockNum /\ blockNum \in rank(f) .. blockNum
    BY <2>1
  <2> QED
    BY <1>5, <2>1, <2>2
<1>7. blockNum \in 1 .. blockNum
  BY DEF Index
<1>8. g[blockNum][b] = Combined(b, g[blockNum - 1])
  BY <1>3, <1>7
<1>9. Combined(b, g[blockNum - 1]) = Combined(b, g[blockNum])
  BY <1>6, CombinedSame
<1> QED
  BY <1>2, <1>8, <1>9

----------------------------------------------------------------------------
(* The variables that were made by a merge, and what they stand for.       *)
Stood == {p[1] : p \in standsFor}

PairsOrdered ==
    /\ IsFiniteSet(standsFor)
    /\ \A p \in standsFor : p[1] \in Int /\ p[2] \in Int /\ p[2] < p[1]

Closed(S) == \A p \in standsFor : p[1] \in S => p[2] \in S

(* As many rounds as there are pairs reach everything: along the pairs     *)
(* variables only get older, so no pair is passed twice.                   *)
LEMMA Reaching ==
    ASSUME PairsOrdered, NEW v
    PROVE  \E R : /\ Originals(v) = R \ Stood
                  /\ {v} \ {NULL} \subseteq R /\ Closed(R)
                  /\ \A S : {v} \ {NULL} \subseteq S /\ Closed(S) => R \subseteq S
<1> DEFINE n == Cardinality(standsFor)
           start == {v} \ {NULL}
           g == CHOOSE h : Table(h, <<"stands">>, 0, n, start)
<1>1. n \in Nat
  BY FS_CardinalityType DEF PairsOrdered
<1>2. Table(g, <<"stands">>, 0, n, start)
  <2>1. \E h : Table(h, <<"stands">>, 0, 0 + n, start)
    <3>1. 0 \in Int
      OBVIOUS
    <3> HIDE DEF start, n
    <3> QED
      BY <1>1, <3>1, TableFrom
  <2>2. 0 + n = n
    BY <1>1
  <2> HIDE DEF start, n
  <2> QED
    BY <2>1, <2>2
<1>3. Originals(v) = g[n] \ Stood
  BY DEF Originals, Table, Advance, Stood
<1> HIDE DEF g, n
<1>4. /\ g[0] = start
      /\ \A k \in 1 .. n :
            g[k] = g[k - 1] \cup {p[2] : p \in {p \in standsFor : p[1] \in g[k - 1]}}
  <2>1. \A k \in 0 .. n : g[k] = IF k = 0 THEN start ELSE
            g[k - 1] \cup {p[2] : p \in {p \in standsFor : p[1] \in g[k - 1]}}
    BY <1>2 DEF Table, Advance
  <2>2. 0 \in 0 .. n /\ \A k \in 1 .. n : k \in 0 .. n /\ k # 0
    BY <1>1
  <2> QED
    BY <2>1, <2>2
<1>5. ASSUME NEW S, start \subseteq S, Closed(S) PROVE \A k \in 0 .. n : g[k] \subseteq S
  <2> DEFINE Bad == {k \in Nat : k <= n /\ ~ (g[k] \subseteq S)}
  <2>1. ASSUME Bad # {} PROVE FALSE
    <3>1. PICK k \in Bad : \A y \in Bad : k <= y
      <4>1. Bad \subseteq Nat
        OBVIOUS
      <4> HIDE DEF Bad
      <4> QED
        BY <2>1, <4>1, LeastNumber
    <3>2. k # 0
      BY <1>4, <1>5, <3>1
    <3>3. k \in 1 .. n /\ k - 1 \in Nat /\ k - 1 <= n /\ ~ (k <= k - 1)
      BY <1>1, <3>1, <3>2
    <3>4. g[k - 1] \subseteq S
      BY <3>1, <3>3
    <3>5. g[k] \subseteq S
      BY <1>4, <1>5, <3>3, <3>4 DEF Closed
    <3> QED
      BY <3>1, <3>5
  <2> QED
    BY <2>1, <1>1
<1>6. \A k \in 0 .. n : g[k] \subseteq g[n]
  <2> SUFFICES ASSUME NEW k \in 0 .. n PROVE g[k] \subseteq g[n]
    OBVIOUS
  <2> DEFINE Bad == {m \in Nat : k + m <= n /\ ~ (g[k] \subseteq g[k + m])}
  <2>1. ASSUME Bad # {} PROVE FALSE
    <3>1. PICK m \in Bad : \A y \in Bad : m <= y
      <4>1. Bad \subseteq Nat
        OBVIOUS
      <4> HIDE DEF Bad
      <4> QED
        BY <2>1, <4>1, LeastNumber
    <3>2. m \in Nat /\ k + m <= n /\ k \in Nat /\ m # 0
      BY <1>1, <3>1
    <3>3. k + m \in 1 .. n /\ m - 1 \in Nat /\ k + (m - 1) <= n /\ ~ (m <= m - 1)
          /\ (k + m) - 1 = k + (m - 1)
      BY <1>1, <3>2
    <3>4. g[k] \subseteq g[k + (m - 1)]
      BY <3>1, <3>3
    <3>5. g[k + (m - 1)] \subseteq g[k + m]
      BY <1>4, <3>3
    <3> QED
      BY <3>1, <3>4, <3>5
  <2>2. n - k \in Nat /\ k + (n - k) = n /\ n <= n
    BY <1>1
  <2>3. n - k \notin Bad
    BY <2>1
  <2> QED
    BY <2>2, <2>3
<1> DEFINE Below(u) == {p \in standsFor : p[1] <= u}
           rank(u) == Cardinality(Below(u))
           G == {u \in g[n] : \E k \in 0 .. n : u \in g[k] /\ k + rank(u) <= n}
<1>7. \A u : IsFiniteSet(Below(u)) /\ rank(u) \in Nat /\ rank(u) <= n
  <2>1. \A u : Below(u) \in SUBSET standsFor
    OBVIOUS
  <2> HIDE DEF Below
  <2> QED
    BY <2>1, FS_Subset, FS_CardinalityType DEF PairsOrdered, n
<1>8. ASSUME NEW p \in standsFor PROVE rank(p[2]) + 1 <= rank(p[1])
  <2>1. Below(p[2]) \in SUBSET Below(p[1]) /\ p \in Below(p[1]) /\ p \notin Below(p[2])
    BY DEF PairsOrdered
  <2>2. rank(p[2]) <= rank(p[1]) /\ rank(p[2]) # rank(p[1])
    <3> HIDE DEF Below
    <3> QED
      BY <1>7, <2>1, FS_Subset
  <2>3. rank(p[1]) \in Nat /\ rank(p[2]) \in Nat
    BY <1>7
  <2> HIDE DEF rank
  <2> QED
    BY <2>2, <2>3
<1> HIDE DEF rank
<1>9. start \subseteq G
  <2>1. 0 \in 0 .. n
    BY <1>1
  <2>2. ASSUME NEW u PROVE 0 + rank(u) <= n
    <3>1. rank(u) \in Nat /\ rank(u) <= n
      BY <1>7
    <3> QED
      BY <3>1
  <2> QED
    BY <1>4, <1>6, <2>1, <2>2
<1>10. Closed(G)
  <2> SUFFICES ASSUME NEW p \in standsFor, p[1] \in G PROVE p[2] \in G
    BY DEF Closed
  <2>1. PICK k \in 0 .. n : p[1] \in g[k] /\ k + rank(p[1]) <= n
    OBVIOUS
  <2>2. rank(p[2]) + 1 <= rank(p[1]) /\ rank(p[1]) \in Nat /\ rank(p[2]) \in Nat
    BY <1>7, <1>8
  <2>3. k + 1 \in 1 .. n /\ (k + 1) - 1 = k /\ (k + 1) + rank(p[2]) <= n /\ k + 1 \in 0 .. n
    BY <1>1, <2>1, <2>2
  <2>4. p[2] \in g[k + 1]
    BY <1>4, <2>1, <2>3
  <2> QED
    BY <1>6, <2>3, <2>4
<1>11. n \in 0 .. n
  BY <1>1
<1>12. g[n] = G
  BY <1>5, <1>9, <1>10, <1>11
<1> QED
  BY <1>3, <1>5, <1>9, <1>10, <1>11, <1>12

(* What a variable stands for is what the ones stand for that were merged  *)
(* into it; one that no merge made stands for itself.                      *)
LEMMA OriginalsUnfold ==
    ASSUME PairsOrdered, NEW v
    PROVE  /\ v = NULL => Originals(v) = {}
           /\ v \in Int => Originals(v) =
                IF v \in Stood THEN UNION {Originals(p[2]) : p \in {p \in standsFor : p[1] = v}}
                ELSE {v}
<1>1. PICK R : /\ Originals(v) = R \ Stood
               /\ {v} \ {NULL} \subseteq R /\ Closed(R)
               /\ \A S : {v} \ {NULL} \subseteq S /\ Closed(S) => R \subseteq S
  BY Reaching
<1>2. ASSUME v = NULL PROVE Originals(v) = {}
  <2>1. Closed({}) /\ {v} \ {NULL} = {}
    BY <1>2 DEF Closed
  <2> QED
    BY <1>1, <2>1
<1>3. ASSUME v \in Int, v \notin Stood PROVE Originals(v) = {v}
  <2>1. v # NULL /\ Closed({v})
    BY <1>3, NullAssumption DEF Closed, Stood
  <2> QED
    BY <1>1, <1>3, <2>1
<1>4. ASSUME v \in Int, v \in Stood
      PROVE  Originals(v) = UNION {Originals(p[2]) : p \in {p \in standsFor : p[1] = v}}
  <2>1. v # NULL /\ v \in R
    BY <1>1, <1>4, NullAssumption
  <2>2. ASSUME NEW p \in standsFor, p[1] = v PROVE Originals(p[2]) \subseteq Originals(v)
    <3>1. PICK Q : /\ Originals(p[2]) = Q \ Stood
                   /\ {p[2]} \ {NULL} \subseteq Q /\ Closed(Q)
                   /\ \A S : {p[2]} \ {NULL} \subseteq S /\ Closed(S) => Q \subseteq S
      BY Reaching
    <3>2. {p[2]} \ {NULL} \subseteq R
      BY <1>1, <2>1, <2>2 DEF Closed
    <3> QED
      BY <1>1, <3>1, <3>2
  <2>3. ASSUME NEW x \in Originals(v)
        PROVE  \E p \in standsFor : p[1] = v /\ x \in Originals(p[2])
    <3> DEFINE S == {u \in R : u = v \/ \E p \in standsFor : p[1] = v /\
                        \A Q : p[2] \in Q /\ Closed(Q) => u \in Q}
    <3>1. Closed(S)
      <4> SUFFICES ASSUME NEW q \in standsFor, q[1] \in S PROVE q[2] \in S
        BY DEF Closed
      <4>1. q[2] \in R
        BY <1>1 DEF Closed
      <4>2. CASE q[1] = v
        BY <4>1, <4>2
      <4>3. CASE q[1] # v
        <5>1. PICK p \in standsFor : p[1] = v /\ \A Q : p[2] \in Q /\ Closed(Q) => q[1] \in Q
          BY <4>3
        <5>2. \A Q : p[2] \in Q /\ Closed(Q) => q[2] \in Q
          BY <5>1 DEF Closed
        <5> QED
          BY <4>1, <5>1, <5>2
      <4> QED
        BY <4>2, <4>3
    <3>2. {v} \ {NULL} \subseteq S
      BY <2>1
    <3>3. x \in S /\ x \notin Stood
      <4> HIDE DEF S
      <4> QED
        BY <1>1, <3>1, <3>2
    <3>4. PICK p \in standsFor : p[1] = v /\ \A Q : p[2] \in Q /\ Closed(Q) => x \in Q
      BY <1>4, <3>3
    <3>5. PICK Q : /\ Originals(p[2]) = Q \ Stood
                   /\ {p[2]} \ {NULL} \subseteq Q /\ Closed(Q)
      BY Reaching
    <3>6. p[2] # NULL
      BY NullAssumption DEF PairsOrdered
    <3> QED
      BY <3>3, <3>4, <3>5, <3>6
  <2> QED
    BY <2>2, <2>3
<1> QED
  BY <1>2, <1>3, <1>4

----------------------------------------------------------------------------
(* The hunter takes the steps of the analysis of a function, and what it   *)
(* knows when: which blocks have their registers at the end, where         *)
(* inferType() is, what the instructions are.                              *)
Inside == complete /\ nodes \subseteq 0 .. Length

Placed ==
    /\ step \in {"find", "merge", "infer"}
    /\ phase \in {"cfg", "calc"} => analysed = {}
    /\ step # "find" => phase = "analyse" /\ block \in analysed
    /\ analysed \subseteq Index
    /\ DOMAIN regPtr = IF step = "find" THEN analysed ELSE analysed \ {block}
    /\ step = "merge" => address = StartAddr(block)
    /\ step = "infer" /\ Inside => address \in StartAddr(block) .. EndAddr(block)

Ready ==
    \A b \in analysed : Order!Merged(b) \subseteq DOMAIN regPtr /\ (Order!Merged(b) = {} <=> b = 0)

Decoding ==
    /\ DOMAIN body = DOMAIN code /\ \A a \in DOMAIN code : body[a] \in Bodies \cup {Jump}
    /\ DOMAIN loaded = DOMAIN code /\ DOMAIN flagged = DOMAIN code

BaseInv == FunctionInv /\ Placed /\ Ready /\ Decoding

LEMMA HunterStep == [HunterNext]_hunterVars => [Next]_allVars
<1> SUFFICES ASSUME [HunterNext]_hunterVars PROVE [Next]_allVars
  OBVIOUS
<1>1. CASE UNCHANGED hunterVars
  BY <1>1 DEF hunterVars, orderOnly, allVars
<1>2. CASE Prepare
  BY <1>2 DEF Prepare, Next, OrderBlocks, Order!Next
<1>3. CASE FindBlock
  <2>1. PICK b \in 0 .. (blockNum - 1) : Order!Analyse(b)
    BY <1>3 DEF FindBlock
  <2>2. Order!Next /\ UNCHANGED cfgVars
    BY <1>3, <2>1 DEF FindBlock, Order!Next, Order!Blocks
  <2> QED
    BY <2>2 DEF Next, OrderBlocks
<1>4. ASSUME UNCHANGED orderOnly PROVE UNCHANGED allVars
  BY <1>4 DEF orderOnly, allVars
<1>5. CASE MergeRegister
  BY <1>4, <1>5 DEF MergeRegister
<1>6. CASE StateMerge
  BY <1>4, <1>6 DEF StateMerge
<1>7. CASE EnterBlock
  BY <1>4, <1>7 DEF EnterBlock
<1>8. CASE InferInstruction
  BY <1>4, <1>8 DEF InferInstruction
<1>9. CASE LeaveBlock
  BY <1>4, <1>9 DEF LeaveBlock
<1> QED
  BY <1>1, <1>2, <1>3, <1>5, <1>6, <1>7, <1>8, <1>9 DEF HunterNext

(* What the graph and the depths alone decide.                             *)
LEMMA GraphKept ==
    ASSUME UNCHANGED cfgVars
    PROVE  /\ Index' = Index /\ Length' = Length /\ blockNum' = blockNum
           /\ (Inside' <=> Inside) /\ code' = code
           /\ \A b : StartAddr(b)' = StartAddr(b) /\ EndAddr(b)' = EndAddr(b)
           /\ depth' = depth => \A b : Order!Merged(b)' = Order!Merged(b)
<1> USE DEF cfgVars
<1>1. Index' = Index /\ Length' = Length /\ blockNum' = blockNum
  BY DEF Index, Length, blockNum
<1>2. Inside' <=> Inside
  BY <1>1 DEF Inside
<1>3. \A b : StartAddr(b)' = StartAddr(b) /\ EndAddr(b)' = EndAddr(b)
  BY DEF StartAddr, EndAddr, BlockAt, blockNum, Length
<1>4. depth' = depth => \A b : Order!Merged(b)' = Order!Merged(b)
  BY DEF Order!Merged, Order!Fathers, Order!Blocks, blockNum
<1> QED
  BY <1>1, <1>2, <1>3, <1>4

(* A block of code that decodes and has no jumps to the outside.           *)
LEMMA InsideSpan ==
    ASSUME FunctionInv, Inside, NEW b \in Index
    PROVE  /\ StartAddr(b) \in Nat /\ EndAddr(b) \in Nat
           /\ StartAddr(b) <= EndAddr(b) /\ EndAddr(b) <= Length
           /\ DOMAIN code = 0 .. (Length - 1) /\ Length \in Nat
  BY BlockSpan DEF FunctionInv, Inside, CfgInv, Types

(* inferType() goes on by one instruction, or the process ends.            *)
LEMMA Stepping ==
    ASSUME NEW i, Gen!Step(i)
    PROVE  \/ address' = address + 1 /\ ended' = "no"
           \/ UNCHANGED <<address, reg, flag, varIndex>> /\ ended' # "no"
BY DEF Gen!Step, Gen!Ignore, Gen!MoveToRegister, Gen!ClearRegister, Gen!MoveToMemory,
       Gen!Extend, Gen!AddSub, Gen!Compare, Gen!IncDec, Gen!Shift, Gen!SetOnCondition,
       Gen!LoadAddress, Gen!Divide, Gen!Call, Gen!Abort, Gen!Handle

LEMMA BaseInit == HunterInit => BaseInv
<1> SUFFICES ASSUME HunterInit PROVE BaseInv
  OBVIOUS
<1>1. FunctionInv
  BY FunctionInit DEF HunterInit
<1>2. phase = "cfg" /\ analysed = {} /\ step = "find" /\ DOMAIN regPtr = {}
  BY DEF HunterInit, Init
<1>3. Decoding
  BY DEF HunterInit, Decoding, Plain
<1> QED
  BY <1>1, <1>2, <1>3 DEF BaseInv, Placed, Ready

(* Once blocks are analysed, the graph and the depths are settled.         *)
LEMMA PreparesNothing ==
    ASSUME BaseInv, Prepare, analysed # {}
    PROVE  UNCHANGED <<cfgVars, depth>> /\ phase' \in {"analyse", "done"}
<1>1. phase \in {"analyse", "done"} /\ stage = "built"
  BY DEF BaseInv, Placed, FunctionInv, Searching
<1>2. Order!Deepen \/ Order!Finish
  BY <1>1 DEF Prepare, BuildGraph, CfgNext, ScanPlain, ScanJump, ScanBranch, ScanBad, ScanEnd,
         Join, JoinSkip, JoinEntry, JoinEnd, BuildMatrix, StartOrder, Order!Pop, Order!Reach,
         Order!Skip, Order!CalcDone
<1> QED
  BY <1>1, <1>2 DEF Prepare, Order!Deepen, Order!Finish, BuildGraph, CfgNext, ScanPlain,
         ScanJump, ScanBranch, ScanBad, ScanEnd, Join, JoinSkip, JoinEntry, JoinEnd,
         BuildMatrix, StartOrder

LEMMA PrepareBase == ASSUME BaseInv, Prepare PROVE Placed' /\ Ready' /\ Decoding'
<1> USE DEF BaseInv
<1>1. /\ step = "find" /\ UNCHANGED <<body, step, block, regPtr, history>>
      /\ analysed' = analysed /\ code' = code
  BY DEF Prepare, BuildGraph, CfgNext, ScanPlain, ScanJump, ScanBranch, ScanBad, ScanEnd, Join,
         JoinSkip, JoinEntry, JoinEnd, BuildMatrix, StartOrder, orderVars, cfgVars, Order!Pop,
         Order!Reach, Order!Skip, Order!CalcDone, Order!Deepen, Order!Finish
<1>2. Decoding'
  BY <1>1 DEF Decoding, history
<1>3. CASE analysed = {}
  BY <1>1, <1>2, <1>3 DEF Placed, Ready
<1>4. CASE analysed # {}
  <2>3. UNCHANGED <<cfgVars, depth>> /\ phase' \in {"analyse", "done"}
    BY <1>4, PreparesNothing
  <2>4. Index' = Index /\ \A b : Order!Merged(b)' = Order!Merged(b)
    BY <2>3, GraphKept
  <2>5. Placed'
    BY <1>1, <2>3, <2>4 DEF Placed
  <2>6. Ready'
    BY <1>1, <2>4 DEF Ready
  <2> QED
    BY <1>2, <2>5, <2>6
<1> QED
  BY <1>3, <1>4

(* What FindBlock does when no ASSERT ends the process.                    *)
LEMMA Finding ==
    ASSUME BaseInv, FindBlock
    PROVE  /\ step = "find" /\ phase = "analyse" /\ phase' = phase
           /\ UNCHANGED <<cfgVars, depth, body, varIndex, regPtr, history>>
           /\ \/ UNCHANGED <<step, block, reg, flag, address, mergeOnly, analysed>>
              \/ /\ block' \in Index \ analysed /\ analysed' = analysed \cup {block'}
                 /\ Order!MergeVerdict(block') = "none"
                 /\ step' = "merge" /\ address' = StartAddr(block')
                 /\ LET fathers == InOrder(Order!Merged(block'))
                        first == FirstFather(fathers)
                    IN  /\ reg' = first.reg /\ flag' = first.flag
                        /\ father' = [k \in DOMAIN fathers |-> regPtr[fathers[k]].reg]
                 /\ merge' = {} /\ branch' = 2 /\ register' = 1
<1>1. PICK b \in 0 .. (blockNum - 1) :
        /\ Order!Analyse(b)
        /\ LET fathers == InOrder(Order!Merged(b))
               first == FirstFather(fathers)
           IN  IF halt' # "none"
               THEN UNCHANGED <<step, block, reg, esp, flag, address, mergeOnly>>
               ELSE /\ block' = b
                    /\ reg' = first.reg /\ esp' = first.esp /\ flag' = first.flag
                    /\ father' = [k \in DOMAIN fathers |-> regPtr[fathers[k]].reg]
                    /\ merge' = {} /\ branch' = 2 /\ register' = 1 /\ stated' = {}
                    /\ address' = StartAddr(b)
                    /\ step' = "merge"
                    /\ UNCHANGED single
  BY DEF FindBlock
<1>2. /\ phase = "analyse" /\ UNCHANGED <<depth, phase>>
      /\ halt' = Order!MergeVerdict(b) /\ b \notin analysed
      /\ analysed' = IF halt' = "none" THEN analysed \cup {b} ELSE analysed
  BY <1>1 DEF Order!Analyse, Order!Found, Order!Pending
<1>3. step = "find" /\ UNCHANGED <<cfgVars, body, varIndex, regPtr, history>>
  BY DEF FindBlock
<1>4. b \in Index
  BY DEF Index
<1>5. CASE halt' # "none"
  BY <1>1, <1>2, <1>3, <1>5
<1>6. CASE halt' = "none"
  <2>1. block' = b
    BY <1>1, <1>6
  <2>2. block' \in Index \ analysed /\ analysed' = analysed \cup {block'}
        /\ Order!MergeVerdict(block') = "none"
    BY <1>2, <1>4, <1>6, <2>1
  <2> QED
    BY <1>1, <1>2, <1>3, <1>6, <2>1, <2>2
<1> QED
  BY <1>5, <1>6

LEMMA FindBase == ASSUME BaseInv, FindBlock PROVE Placed' /\ Ready' /\ Decoding'
<1> USE DEF BaseInv
<1>1. /\ step = "find" /\ phase = "analyse" /\ phase' = phase
      /\ UNCHANGED <<cfgVars, depth, body, regPtr, history>>
  BY Finding
<1>2. /\ Index' = Index /\ code' = code /\ \A b : Order!Merged(b)' = Order!Merged(b)
      /\ \A b : StartAddr(b)' = StartAddr(b)
  BY <1>1, GraphKept
<1>3. Decoding'
  BY <1>1, <1>2 DEF Decoding, history
<1>4. CASE UNCHANGED <<step, block, address, analysed>>
  <2>1. Placed'
    BY <1>1, <1>2, <1>4 DEF Placed
  <2>2. Ready'
    BY <1>1, <1>2, <1>4 DEF Ready
  <2> QED
    BY <1>3, <2>1, <2>2
<1>5. ASSUME NEW b \in Index \ analysed, b = block', analysed' = analysed \cup {b},
             Order!MergeVerdict(b) = "none", step' = "merge", address' = StartAddr(b)
      PROVE  Placed' /\ Ready'
  <2>1. Order!Merged(b) \subseteq analysed /\ (Order!Merged(b) = {} <=> b = 0)
    BY <1>1, <1>5, MergeUsable
  <2>2. StartAddr(block)' = StartAddr(b)
    BY <1>2, <1>5
  <2>3. Placed'
    BY <1>1, <1>2, <1>5, <2>2 DEF Placed
  <2>4. Ready'
    BY <1>1, <1>2, <1>5, <2>1 DEF Ready, Placed
  <2> QED
    BY <2>3, <2>4
<1> QED
  BY <1>3, <1>4, <1>5, Finding

(* Within a block.                                                         *)
LEMMA BlockBase ==
    ASSUME BaseInv, MergeRegister \/ StateMerge \/ EnterBlock \/ InferInstruction \/ LeaveBlock
    PROVE  Placed' /\ Ready' /\ Decoding'
<1> USE DEF BaseInv
<1>1. UNCHANGED <<cfgVars, depth, phase, analysed, body, block>> /\ step # "find"
  BY DEF MergeRegister, StateMerge, EnterBlock, InferInstruction, LeaveBlock, orderOnly, orderVars
<1>2. /\ Index' = Index /\ code' = code /\ (Inside' <=> Inside)
      /\ \A b : Order!Merged(b)' = Order!Merged(b)
      /\ \A b : StartAddr(b)' = StartAddr(b) /\ EndAddr(b)' = EndAddr(b)
  BY <1>1, GraphKept
<1>3. StartAddr(block)' = StartAddr(block) /\ EndAddr(block)' = EndAddr(block)
  BY <1>1, <1>2
<1>4. DOMAIN loaded' = DOMAIN loaded /\ DOMAIN flagged' = DOMAIN flagged
  BY DEF MergeRegister, StateMerge, EnterBlock, InferInstruction, LeaveBlock, history
<1>5. Decoding'
  BY <1>1, <1>2, <1>4 DEF Decoding
<1>6. block \in Index /\ block \in analysed
  BY <1>1 DEF Placed
<1>7. CASE MergeRegister \/ StateMerge
  <2>1. UNCHANGED <<step, address, regPtr>> /\ step = "merge"
    BY <1>7 DEF MergeRegister, StateMerge
  <2> QED
    BY <1>1, <1>2, <1>3, <1>5, <2>1 DEF Placed, Ready
<1>8. CASE EnterBlock
  <2>1. UNCHANGED <<address, regPtr>> /\ step = "merge" /\ step' = "infer"
    BY <1>8 DEF EnterBlock
  <2>2. Inside => StartAddr(block) \in StartAddr(block) .. EndAddr(block)
    BY <1>6, InsideSpan
  <2> QED
    BY <1>1, <1>2, <1>3, <1>5, <2>1, <2>2 DEF Placed, Ready
<1>9. CASE InferInstruction
  <2>1. UNCHANGED <<step, regPtr>> /\ step = "infer" /\ address < EndAddr(block)
    BY <1>9 DEF InferInstruction, More
  <2>2. address' = address + 1 \/ address' = address
    BY <1>9, Stepping DEF InferInstruction
  <2>3. Inside => address' \in StartAddr(block) .. EndAddr(block)
    <3> SUFFICES ASSUME Inside PROVE address' \in StartAddr(block) .. EndAddr(block)
      OBVIOUS
    <3>1. StartAddr(block) \in Nat /\ EndAddr(block) \in Nat
      BY <1>6, InsideSpan
    <3>2. address \in StartAddr(block) .. EndAddr(block)
      BY <2>1 DEF Placed
    <3> QED
      BY <2>1, <2>2, <3>1, <3>2
  <2> QED
    BY <1>1, <1>2, <1>3, <1>5, <2>1, <2>3 DEF Placed, Ready
<1>10. CASE LeaveBlock
  <2>1. /\ DOMAIN regPtr' = DOMAIN regPtr \cup {block} /\ step' = "find"
    BY <1>10 DEF LeaveBlock
  <2>2. DOMAIN regPtr' = analysed
    BY <1>1, <1>6, <2>1 DEF Placed
  <2>3. Placed'
    BY <1>1, <1>2, <2>1, <2>2 DEF Placed
  <2>4. Ready'
    BY <1>1, <1>2, <2>1 DEF Ready
  <2> QED
    BY <1>5, <2>3, <2>4
<1> QED
  BY <1>7, <1>8, <1>9, <1>10

LEMMA BaseStep == BaseInv /\ [HunterNext]_hunterVars => BaseInv'
<1> SUFFICES ASSUME BaseInv, [HunterNext]_hunterVars PROVE Placed' /\ Ready' /\ Decoding'
  BY HunterStep, FunctionStep DEF BaseInv
<1>1. CASE UNCHANGED hunterVars
  <2>1. UNCHANGED <<cfgVars, depth, phase, analysed, body, block, step, regPtr, address, history>>
    BY <1>1 DEF hunterVars, orderOnly, orderVars
  <2>2. /\ Index' = Index /\ code' = code /\ (Inside' <=> Inside)
        /\ \A b : Order!Merged(b)' = Order!Merged(b)
        /\ \A b : StartAddr(b)' = StartAddr(b) /\ EndAddr(b)' = EndAddr(b)
    BY <2>1, GraphKept
  <2>3. StartAddr(block)' = StartAddr(block) /\ EndAddr(block)' = EndAddr(block)
    BY <2>1, <2>2
  <2>4. Placed'
    BY <2>1, <2>2, <2>3 DEF BaseInv, Placed
  <2>5. Ready' /\ Decoding'
    BY <2>1, <2>2 DEF BaseInv, Ready, Decoding, history
  <2> QED
    BY <2>4, <2>5
<1> QED
  BY <1>1, PrepareBase, FindBase, BlockBase DEF HunterNext

LEMMA BaseInvariance == HunterSpec => []BaseInv
BY BaseInit, BaseStep, PTL DEF HunterSpec

----------------------------------------------------------------------------
(* t follows what a block does from x on, up to the address hi.            *)
Runs(t, b, hi, x) ==
    \A a \in StartAddr(b) .. hi : t[a] = IF a = StartAddr(b) THEN x ELSE After(a - 1, t[a - 1])

(* w is what comes to the blocks, T what it becomes in those that have     *)
(* been left, as far as the analysis has got; flags may be more.           *)
Solution(w, T) ==
    /\ \A b \in analysed :
        /\ Order!Merged(b) = {} => Gen!NoFlag \in w[b].flags
        /\ \A f \in Order!Merged(b) : T[f][EndAddr(f)].flags \subseteq w[b].flags
        /\ \A s \in Slots :
            w[b].values[s] = UNION {T[f][EndAddr(f)].values[s] : f \in Order!Merged(b)}
    /\ \A f \in DOMAIN regPtr : Runs(T[f], f, EndAddr(f), w[f])

LEMMA ThroughRuns ==
    ASSUME NEW b, StartAddr(b) \in Int, EndAddr(b) \in Int, StartAddr(b) <= EndAddr(b), NEW x
    PROVE  \E t : Runs(t, b, EndAddr(b), x) /\ Through(b, x) = t[EndAddr(b)]
<1> DEFINE lo == StartAddr(b)
           hi == EndAddr(b)
           t == CHOOSE g : Table(g, <<"block">>, lo, hi, x)
<1>1. Table(t, <<"block">>, lo, hi, x)
  <2>1. lo \in Int /\ hi - lo \in Nat /\ lo + (hi - lo) = hi
    OBVIOUS
  <2> HIDE DEF lo, hi
  <2>2. \E g : Table(g, <<"block">>, lo, lo + (hi - lo), x)
    BY <2>1, TableFrom
  <2> QED
    BY <2>1, <2>2
<1>2. Through(b, x) = t[hi]
  BY DEF Through, Table, Advance
<1> HIDE DEF t
<1>3. Runs(t, b, hi, x)
  BY <1>1 DEF Runs, Table, Advance
<1> QED
  BY <1>2, <1>3

(* The paths themselves are a solution.                                    *)
LEMMA PathsSolve ==
    ASSUME BaseInv, Inside
    PROVE  \E T : Solution(OnPaths, T)
<1> DEFINE Fits(t, f) == Runs(t, f, EndAddr(f), OnPaths[f]) /\ Through(f, OnPaths[f]) = t[EndAddr(f)]
           T == [f \in Index |-> CHOOSE t : Fits(t, f)]
<1>1. ASSUME NEW f \in Index PROVE Fits(T[f], f)
  <2>1. \E t : Fits(t, f)
    <3>1. StartAddr(f) \in Int /\ EndAddr(f) \in Int /\ StartAddr(f) <= EndAddr(f)
      BY InsideSpan DEF BaseInv
    <3> QED
      BY <3>1, ThroughRuns
  <2>2. T[f] = CHOOSE t : Fits(t, f)
    OBVIOUS
  <2> HIDE DEF Fits, T
  <2> QED
    BY <2>1, <2>2
<1> HIDE DEF T
<1>2. analysed \subseteq Index /\ DOMAIN regPtr \subseteq analysed
  BY DEF BaseInv, Placed
<1>3. ASSUME NEW b \in analysed
      PROVE  /\ Order!Merged(b) = {} => Gen!NoFlag \in OnPaths[b].flags
             /\ \A f \in Order!Merged(b) : T[f][EndAddr(f)].flags \subseteq OnPaths[b].flags
             /\ \A s \in Slots :
                  OnPaths[b].values[s] = UNION {T[f][EndAddr(f)].values[s] : f \in Order!Merged(b)}
  <2>1. OnPaths[b] = Combined(b, OnPaths)
    <3>1. b \in Index /\ phase # "cfg"
      BY <1>2 DEF BaseInv, Placed
    <3>2. blockNum \in Nat /\ depth \in [Index -> Int]
      BY <3>1 DEF BaseInv, FunctionInv, Searching, Marked
    <3> QED
      BY <3>1, <3>2, PathsSettle
  <2>2. \A f \in Order!Merged(b) : Through(f, OnPaths[f]) = T[f][EndAddr(f)]
    BY <1>1, <1>2 DEF BaseInv, Ready
  <2> DEFINE ends == {Through(f, OnPaths[f]) : f \in Order!Merged(b)}
  <2>3. CASE Order!Merged(b) = {}
    <3>1. OnPaths[b] = Nothing(b) /\ b = 0
      BY <1>3, <2>1, <2>3 DEF Combined, BaseInv, Ready
    <3> QED
      BY <2>3, <3>1 DEF Nothing
  <2>4. CASE Order!Merged(b) # {}
    <3>1. OnPaths[b] = [values |-> [s \in Slots |-> UNION {e.values[s] : e \in ends}],
                        flags |-> UNION {e.flags : e \in ends}]
      BY <2>1, <2>4 DEF Combined
    <3>2. \A s \in Slots : {e.values[s] : e \in ends}
                            = {T[f][EndAddr(f)].values[s] : f \in Order!Merged(b)}
      BY <2>2
    <3> QED
      BY <2>2, <2>4, <3>1, <3>2
  <2> QED
    BY <2>3, <2>4
<1> QED
  BY <1>1, <1>2, <1>3 DEF Solution

----------------------------------------------------------------------------
(* What was noted of an instruction stays what it is.                      *)
LEMMA RunsKept ==
    ASSUME UNCHANGED <<cfgVars, body>>, NEW b, NEW lo \in Int, lo = StartAddr(b),
           NEW hi \in Int, NEW h \in Int, h <= hi, NEW t, NEW x,
           \A a \in lo .. (h - 1) : loaded'[a] = loaded[a] /\ flagged'[a] = flagged[a],
           Runs(t, b, hi, x)'
    PROVE  Runs(t, b, h, x)
<1>1. StartAddr(b)' = lo
  BY GraphKept
<1>2. \A a \in lo .. hi : t[a] = IF a = lo THEN x ELSE After(a - 1, t[a - 1])'
  BY <1>1 DEF Runs
<1>3. ASSUME NEW a \in lo .. h PROVE t[a] = IF a = lo THEN x ELSE After(a - 1, t[a - 1])
  <2>1. CASE a = lo
    BY <1>2, <2>1
  <2>2. CASE a # lo
    <3>1. a \in lo .. hi /\ a - 1 \in lo .. (h - 1)
      BY <2>2
    <3>2. t[a] = After(a - 1, t[a - 1])'
      BY <1>2, <2>2, <3>1
    <3>3. loaded'[a - 1] = loaded[a - 1] /\ flagged'[a - 1] = flagged[a - 1]
      BY <3>1
    <3>4. After(a - 1, t[a - 1])' = After(a - 1, t[a - 1])
      BY <3>3 DEF After
    <3> QED
      BY <2>2, <3>2, <3>4
  <2> QED
    BY <2>1, <2>2
<1> QED
  BY <1>3 DEF Runs

LEMMA SolutionKept ==
    ASSUME BaseInv, Inside, UNCHANGED <<cfgVars, depth, body>>,
           analysed \subseteq analysed', DOMAIN regPtr \subseteq DOMAIN regPtr',
           \A f \in DOMAIN regPtr : \A a \in StartAddr(f) .. (EndAddr(f) - 1) :
                loaded'[a] = loaded[a] /\ flagged'[a] = flagged[a],
           NEW w, NEW T, Solution(w, T)'
    PROVE  Solution(w, T)
<1>1. /\ \A b : Order!Merged(b)' = Order!Merged(b)
      /\ \A b : StartAddr(b)' = StartAddr(b) /\ EndAddr(b)' = EndAddr(b)
  BY GraphKept
<1>2. ASSUME NEW f \in DOMAIN regPtr PROVE Runs(T[f], f, EndAddr(f), w[f])
  <2>1. StartAddr(f) \in Int /\ EndAddr(f) \in Int
    BY InsideSpan DEF BaseInv, Placed
  <2>2. Runs(T[f], f, EndAddr(f), w[f])'
    BY DEF Solution
  <2>3. PICK hi : hi = EndAddr(f)
    OBVIOUS
  <2>4. Runs(T[f], f, hi, w[f])'
    BY <1>1, <2>2, <2>3
  <2> QED
    BY <2>1, <2>3, <2>4, RunsKept
<1> QED
  BY <1>1, <1>2 DEF Solution

LEMMA SolutionsRemain ==
    ASSUME BaseInv, Inside, NEW w, NEW T, Solution(w, T)',
           \/ FindBlock \/ MergeRegister \/ StateMerge \/ EnterBlock
           \/ InferInstruction \/ LeaveBlock
    PROVE  Solution(w, T)
<1>1. /\ UNCHANGED <<cfgVars, depth, body>> /\ analysed \subseteq analysed'
      /\ DOMAIN regPtr \subseteq DOMAIN regPtr'
  <2>1. CASE FindBlock
    BY <2>1, Finding
  <2>2. CASE MergeRegister \/ StateMerge \/ EnterBlock \/ InferInstruction \/ LeaveBlock
    BY <2>2 DEF MergeRegister, StateMerge, EnterBlock, InferInstruction, LeaveBlock, orderOnly,
                orderVars
  <2> QED
    BY <2>1, <2>2
<1>2. CASE ~InferInstruction
  <2>1. UNCHANGED <<loaded, flagged>>
    <3>1. CASE FindBlock
      BY <3>1, Finding DEF history
    <3>2. CASE MergeRegister \/ StateMerge \/ EnterBlock \/ LeaveBlock
      BY <3>2 DEF MergeRegister, StateMerge, EnterBlock, LeaveBlock, history
    <3> QED
      BY <1>2, <3>1, <3>2
  <2> QED
    BY <1>1, <2>1, SolutionKept
<1>3. CASE InferInstruction
  <2>1. /\ step = "infer" /\ address < EndAddr(block)
        /\ \A a \in DOMAIN loaded \ {address} : loaded'[a] = loaded[a]
        /\ \A a \in DOMAIN flagged \ {address} : flagged'[a] = flagged[a]
    BY <1>3 DEF InferInstruction, More
  <2>2. block \in Index /\ address \in StartAddr(block) .. EndAddr(block)
    BY <2>1 DEF BaseInv, Placed
  <2>3. ASSUME NEW f \in DOMAIN regPtr, NEW a \in StartAddr(f) .. (EndAddr(f) - 1)
        PROVE  loaded'[a] = loaded[a] /\ flagged'[a] = flagged[a]
    <3>1. f \in Index /\ f # block
      BY <2>1 DEF BaseInv, Placed
    <3>2. /\ StartAddr(f) \in Nat /\ EndAddr(f) \in Nat /\ EndAddr(f) <= Length
          /\ DOMAIN code = 0 .. (Length - 1) /\ Length \in Nat
      BY <3>1, InsideSpan DEF BaseInv
    <3>3. StartAddr(block) \in Nat /\ EndAddr(block) \in Nat /\ EndAddr(block) <= Length
      BY <2>2, InsideSpan DEF BaseInv
    <3>4. a \in 0 .. (Length - 1) /\ address \in 0 .. (Length - 1)
          /\ StartAddr(f) <= a /\ a < EndAddr(f)
      BY <2>1, <2>2, <3>2, <3>3
    <3>5. BlockOf(a) = f
      BY <3>1, <3>4, BlockSpan DEF BaseInv, FunctionInv, Inside
    <3>6. BlockOf(address) = block
      BY <2>1, <2>2, <3>3, <3>4, BlockSpan DEF BaseInv, FunctionInv, Inside
    <3>7. a # address
      BY <3>1, <3>5, <3>6
    <3> QED
      BY <2>1, <3>2, <3>4, <3>7 DEF BaseInv, Decoding
  <2> QED
    BY <1>1, <2>3, SolutionKept
<1> QED
  BY <1>2, <1>3

----------------------------------------------------------------------------
(* InOrder() lists every father.                                           *)
LEMMA InOrderLists ==
    ASSUME NEW S, IsFiniteSet(S), S \subseteq Int
    PROVE  /\ Cardinality(S) \in Nat /\ (Cardinality(S) = 0 <=> S = {})
           /\ InOrder(S) \in [1 .. Cardinality(S) -> S]
           /\ \A f \in S : \E k \in 1 .. Cardinality(S) : InOrder(S)[k] = f
<1> DEFINE before(f) == {i \in S : i < f}
           rank(f) == Cardinality(before(f))
           n == Cardinality(S)
           number == [f \in S |-> rank(f)]
<1>1. n \in Nat /\ (n = 0 <=> S = {}) /\ \A f \in S : f \in Int
  BY FS_CardinalityType, FS_EmptySet
<1>2. ASSUME NEW f \in S PROVE rank(f) \in 0 .. (n - 1)
  <2>1. before(f) \in SUBSET S /\ before(f) # S
    BY <1>1
  <2> HIDE DEF before
  <2> QED
    BY <1>1, <2>1, FS_Subset, FS_CardinalityType
<1>3. ASSUME NEW f \in S, NEW g \in S, f < g PROVE rank(f) # rank(g)
  <2>1. before(f) \in SUBSET before(g) /\ before(f) # before(g) /\ before(g) \in SUBSET S
    <3>1. \A i \in S : i < f => i < g
      BY <1>1, <1>3
    <3>2. f \in before(g) /\ f \notin before(f)
      BY <1>1, <1>3
    <3> QED
      BY <3>1, <3>2
  <2> HIDE DEF before
  <2>2. IsFiniteSet(before(g))
    BY <2>1, FS_Subset
  <2> QED
    BY <2>1, <2>2, FS_Subset
<1>4. \A f, g \in S : rank(f) = rank(g) => f = g
  <2> SUFFICES ASSUME NEW f \in S, NEW g \in S, f # g PROVE rank(f) # rank(g)
    OBVIOUS
  <2>1. f < g \/ g < f
    BY <1>1
  <2> HIDE DEF rank
  <2> QED
    BY <1>3, <2>1
<1>5. IsFiniteSet(0 .. (n - 1)) /\ Cardinality(0 .. (n - 1)) = n
  <2> HIDE DEF n
  <2> QED
    BY <1>1, IntervalSize
<1>6. number \in Surjection(S, 0 .. (n - 1))
  <2>1. number \in Injection(S, 0 .. (n - 1))
    <3> HIDE DEF rank, n
    <3> QED
      BY <1>2, <1>4 DEF Injection, IsInjective
  <2> HIDE DEF number, n
  <2> QED
    BY <1>5, <2>1, FS_Injection DEF n
<1>7. \A k \in 1 .. n : \E f \in S : rank(f) = k - 1
  <2>1. \A k \in 1 .. n : k - 1 \in 0 .. (n - 1)
    BY <1>1
  <2> HIDE DEF rank, n
  <2> QED
    BY <1>6, <2>1 DEF Surjection
<1>8. InOrder(S) = [k \in 1 .. n |-> CHOOSE f \in S : rank(f) = k - 1]
  BY DEF InOrder
<1> HIDE DEF rank, n
<1>9. \A k \in 1 .. n : InOrder(S)[k] \in S /\ rank(InOrder(S)[k]) = k - 1
  BY <1>7, <1>8
<1>10. ASSUME NEW f \in S PROVE \E k \in 1 .. n : InOrder(S)[k] = f
  <2>1. rank(f) + 1 \in 1 .. n /\ (rank(f) + 1) - 1 = rank(f)
    BY <1>1, <1>2
  <2>2. InOrder(S)[rank(f) + 1] \in S /\ rank(InOrder(S)[rank(f) + 1]) = rank(f)
    BY <1>9, <2>1
  <2> QED
    BY <1>4, <2>1, <2>2
<1> QED
  BY <1>1, <1>8, <1>9, <1>10 DEF n

(* The registers a block begins with are those of a father, if it has one. *)
LEMMA MergedFinite ==
    ASSUME blockNum \in Nat, NEW b
    PROVE  IsFiniteSet(Order!Merged(b)) /\ Order!Merged(b) \subseteq Int
<1>1. Order!Merged(b) \subseteq 0 .. (blockNum - 1)
  BY DEF Order!Merged, Order!Fathers, Order!Blocks
<1>2. IsFiniteSet(0 .. (blockNum - 1))
  BY IntervalSize
<1> QED
  BY <1>1, <1>2, FS_Subset

LEMMA FirstOfFathers ==
    ASSUME blockNum \in Nat, NEW b
    PROVE  LET first == FirstFather(InOrder(Order!Merged(b)))
           IN  \/ Order!Merged(b) = {}
                  /\ first = [reg |-> NoVariables, esp |-> UNKNOWN, flag |-> Gen!NoFlag]
               \/ 1 \in 1 .. Cardinality(Order!Merged(b))
                  /\ InOrder(Order!Merged(b))[1] \in Order!Merged(b)
                  /\ first = regPtr[InOrder(Order!Merged(b))[1]]
<1> DEFINE S == Order!Merged(b)
<1>1. /\ Cardinality(S) \in Nat /\ (Cardinality(S) = 0 <=> S = {})
      /\ InOrder(S) \in [1 .. Cardinality(S) -> S]
  BY MergedFinite, InOrderLists
<1> HIDE DEF S
<1>2. CASE S = {}
  <2>1. InOrder(S) \in [1 .. 0 -> S]
    BY <1>1, <1>2
  <2>2. InOrder(S) = <<>>
    BY <2>1
  <2> QED
    BY <1>2, <2>2 DEF FirstFather, S
<1>3. CASE S # {}
  <2>1. 1 \in 1 .. Cardinality(S)
    BY <1>1, <1>3
  <2>2. InOrder(S) # <<>>
    BY <1>1, <2>1
  <2> QED
    BY <1>1, <2>1, <2>2 DEF FirstFather, S
<1> QED
  BY <1>2, <1>3

----------------------------------------------------------------------------
(* The flags, whatever of them the paths bring.                            *)
FlagsFollow ==
    Inside => \A w, T : Solution(w, T) =>
        /\ \A f \in DOMAIN regPtr : regPtr[f].flag \in T[f][EndAddr(f)].flags
        /\ step = "merge" => flag \in w[block].flags
        /\ step = "infer" => \A t : Runs(t, block, address, w[block]) => flag \in t[address].flags

(* Every instruction decodes when buildCFG() has come to its end.          *)
LEMMA AllDecodes ==
    ASSUME FunctionInv, Inside, phase # "cfg", NEW a \in DOMAIN code
    PROVE  code[a].op # "bad"
BY DEF FunctionInv, Inside, Searching, CfgInv, Collected, Scanned

(* An instruction sets the flags, or leaves them.                          *)
LEMMA FlagSet ==
    ASSUME NEW i, Gen!Step(i)
    PROVE  SetsFlags(i) \/ flag' = flag
<1>1. CASE Gen!AddSub(i) \/ Gen!Compare(i) \/ Gen!IncDec(i) \/ Gen!Shift(i)
  BY <1>1 DEF Gen!AddSub, Gen!Compare, Gen!IncDec, Gen!Shift, SetsFlags, Gen!TwoOperand,
              Gen!OneOperand, Gen!UsesFrame, UsesFrame, Gen!IsReg, IsReg
<1>2. CASE \/ Gen!Ignore(i) \/ Gen!MoveToRegister(i) \/ Gen!ClearRegister(i)
           \/ Gen!MoveToMemory(i) \/ Gen!Extend(i) \/ Gen!SetOnCondition(i)
           \/ Gen!LoadAddress(i) \/ Gen!Divide(i) \/ Gen!Call(i) \/ Gen!Abort(i)
  BY <1>2 DEF Gen!Ignore, Gen!MoveToRegister, Gen!ClearRegister, Gen!MoveToMemory, Gen!Extend,
              Gen!SetOnCondition, Gen!LoadAddress, Gen!Divide, Gen!Call, Gen!Abort
<1> QED
  BY <1>1, <1>2 DEF Gen!Step

LEMMA PrepareFlags == ASSUME BaseInv, FlagsFollow, Prepare PROVE FlagsFollow'
<1>1. /\ step = "find" /\ UNCHANGED <<body, step, block, regPtr, history>>
      /\ analysed' = analysed /\ code' = code
  BY DEF Prepare, BuildGraph, CfgNext, ScanPlain, ScanJump, ScanBranch, ScanBad, ScanEnd, Join,
         JoinSkip, JoinEntry, JoinEnd, BuildMatrix, StartOrder, orderVars, cfgVars, Order!Pop,
         Order!Reach, Order!Skip, Order!CalcDone, Order!Deepen, Order!Finish
<1>2. DOMAIN regPtr = analysed
  BY <1>1 DEF BaseInv, Placed
<1>3. CASE analysed = {}
  BY <1>1, <1>2, <1>3 DEF FlagsFollow
<1>4. CASE analysed # {}
  <2>1. UNCHANGED <<cfgVars, depth>>
    BY <1>4, PreparesNothing
  <2>2. SUFFICES ASSUME Inside', NEW w, NEW T, Solution(w, T)', NEW f \in DOMAIN regPtr'
                 PROVE  (regPtr[f].flag \in T[f][EndAddr(f)].flags)'
    BY <1>1 DEF FlagsFollow
  <2>3. Inside /\ EndAddr(f)' = EndAddr(f) /\ f \in DOMAIN regPtr
    BY <1>1, <2>1, <2>2, GraphKept
  <2>4. Solution(w, T)
    BY <1>1, <2>1, <2>2, <2>3, SolutionKept DEF history
  <2> QED
    BY <1>1, <2>3, <2>4 DEF FlagsFollow
<1> QED
  BY <1>3, <1>4

LEMMA FindFlags == ASSUME BaseInv, FlagsFollow, FindBlock PROVE FlagsFollow'
<1>1. /\ step = "find" /\ UNCHANGED <<cfgVars, depth, body, regPtr, history>>
  BY Finding
<1>2. SUFFICES ASSUME Inside', NEW w, NEW T, Solution(w, T)'
               PROVE  /\ \A f \in DOMAIN regPtr' : (regPtr[f].flag \in T[f][EndAddr(f)].flags)'
                      /\ step' = "merge" => flag' \in w[block'].flags
                      /\ step' # "infer"
  BY DEF FlagsFollow
<1>3. Inside /\ Solution(w, T)
  BY <1>1, <1>2, GraphKept, SolutionsRemain
<1>4. \A f \in DOMAIN regPtr : regPtr[f].flag \in T[f][EndAddr(f)].flags
  BY <1>3 DEF FlagsFollow
<1>5. \A b : EndAddr(b)' = EndAddr(b) /\ Order!Merged(b)' = Order!Merged(b)
  BY <1>1, GraphKept
<1>6. CASE UNCHANGED <<step, block, reg, flag, address, mergeOnly, analysed>>
  BY <1>1, <1>4, <1>5, <1>6
<1>7. ASSUME NEW b \in Index \ analysed, b = block', analysed' = analysed \cup {b},
             Order!MergeVerdict(b) = "none", step' = "merge",
             flag' = FirstFather(InOrder(Order!Merged(b))).flag
      PROVE  flag' \in w[b].flags
  <2>1. /\ Order!Merged(b) = {} => Gen!NoFlag \in w[b].flags
        /\ \A f \in Order!Merged(b) : T[f][EndAddr(f)].flags \subseteq w[b].flags
    <3>1. b \in analysed'
      BY <1>7
    <3>2. /\ (Order!Merged(b))' = {} => Gen!NoFlag \in w[b].flags
          /\ \A f \in (Order!Merged(b))' : (T[f][EndAddr(f)].flags \subseteq w[b].flags)'
      <4>1. \A c \in analysed' : /\ (Order!Merged(c))' = {} => Gen!NoFlag \in w[c].flags
                                 /\ \A f \in (Order!Merged(c))' :
                                        (T[f][EndAddr(f)].flags \subseteq w[c].flags)'
        BY <1>2 DEF Solution, Gen!NoFlag
      <4> QED
        BY <3>1, <4>1
    <3> QED
      BY <1>5, <3>2
  <2>2. Order!Merged(b) \subseteq DOMAIN regPtr
    <3>1. FunctionInv /\ phase = "analyse"
      BY Finding DEF BaseInv
    <3>2. Order!Merged(b) \subseteq analysed
      BY <1>7, <3>1, MergeUsable
    <3> QED
      BY <1>1, <3>2 DEF BaseInv, Placed
  <2>3. blockNum \in Nat
    BY BlocksExist DEF BaseInv, FunctionInv
  <2>4. \/ Order!Merged(b) = {} /\ flag' = Gen!NoFlag
        \/ \E f \in Order!Merged(b) : flag' = regPtr[f].flag
    BY <1>7, <2>3, FirstOfFathers
  <2> QED
    BY <1>4, <2>1, <2>2, <2>4
<1>8. \A f \in DOMAIN regPtr' : (regPtr[f].flag \in T[f][EndAddr(f)].flags)'
  BY <1>1, <1>4, <1>5
<1> QED
  BY <1>1, <1>6, <1>7, <1>8, Finding

(* Where a block is left, a solution runs through it.                      *)
LEMMA LeftRuns ==
    ASSUME BaseInv, Inside, LeaveBlock, NEW w, NEW T, Solution(w, T)'
    PROVE  Runs(T[block], block, EndAddr(block), w[block])
<1>1. UNCHANGED <<cfgVars, body, block, loaded, flagged>> /\ block \in Index
      /\ block \in DOMAIN regPtr'
  BY DEF LeaveBlock, orderOnly, history, BaseInv, Placed
<1>2. /\ StartAddr(block) \in Int /\ EndAddr(block) \in Int
      /\ \A b : EndAddr(b)' = EndAddr(b)
  BY <1>1, GraphKept, InsideSpan DEF BaseInv
<1>3. PICK lo \in Int, hi \in Int : lo = StartAddr(block) /\ hi = EndAddr(block)
  BY <1>2
<1>4. PICK b : b = block
  OBVIOUS
<1>5. Runs(T[b], b, hi, w[b])'
  <2>1. \A f \in DOMAIN regPtr' : Runs(T[f], f, EndAddr(f), w[f])'
    BY DEF Solution
  <2>2. b \in DOMAIN regPtr' /\ EndAddr(b)' = hi
    BY <1>1, <1>2, <1>3, <1>4
  <2> QED
    BY <2>1, <2>2
<1>6. Runs(T[b], b, hi, w[b])
  BY <1>1, <1>3, <1>4, <1>5, RunsKept
<1> QED
  BY <1>3, <1>4, <1>6

LEMMA BlockFlags ==
    ASSUME BaseInv, BaseInv', FlagsFollow,
           MergeRegister \/ StateMerge \/ EnterBlock \/ InferInstruction \/ LeaveBlock
    PROVE  FlagsFollow'
<1>1. UNCHANGED <<cfgVars, depth, body, block>> /\ step # "find" /\ block \in analysed
  BY DEF MergeRegister, StateMerge, EnterBlock, InferInstruction, LeaveBlock, orderOnly, orderVars,
         BaseInv, Placed
<1>2. SUFFICES ASSUME Inside', NEW w, NEW T, Solution(w, T)'
               PROVE  /\ \A f \in DOMAIN regPtr' : (regPtr[f].flag \in T[f][EndAddr(f)].flags)'
                      /\ step' = "merge" => flag' \in w[block].flags
                      /\ step' = "infer" => \A t : Runs(t, block, address, w[block])'
                                                        => flag' \in t[address'].flags
  BY <1>1 DEF FlagsFollow
<1>3. Inside /\ Solution(w, T)
  BY <1>1, <1>2, GraphKept, SolutionsRemain
<1>4. /\ \A f \in DOMAIN regPtr : regPtr[f].flag \in T[f][EndAddr(f)].flags
      /\ step = "merge" => flag \in w[block].flags
      /\ step = "infer" => \A t : Runs(t, block, address, w[block]) => flag \in t[address].flags
  BY <1>3 DEF FlagsFollow
<1>5. \A b : EndAddr(b)' = EndAddr(b) /\ StartAddr(b)' = StartAddr(b)
  BY <1>1, GraphKept
<1>6. \A f \in DOMAIN regPtr : (T[f][EndAddr(f)].flags)' = T[f][EndAddr(f)].flags
  BY <1>5
<1>7. /\ block \in Index /\ StartAddr(block) \in Nat /\ EndAddr(block) \in Nat
      /\ StartAddr(block) <= EndAddr(block) /\ EndAddr(block) <= Length
      /\ DOMAIN code = 0 .. (Length - 1) /\ Length \in Nat
      /\ step = "infer" => address \in StartAddr(block) .. EndAddr(block)
  <2>1. block \in Index
    BY <1>1 DEF BaseInv, Placed
  <2> QED
    BY <1>3, <2>1, InsideSpan DEF BaseInv, Placed
<1>8. CASE MergeRegister \/ StateMerge
  <2>1. UNCHANGED <<step, flag, regPtr>> /\ step = "merge"
    BY <1>8 DEF MergeRegister, StateMerge
  <2> QED
    BY <1>4, <1>6, <2>1
<1>9. CASE EnterBlock
  <2>1. UNCHANGED <<flag, address, regPtr>> /\ step = "merge" /\ step' = "infer"
    BY <1>9 DEF EnterBlock
  <2>2. address' = StartAddr(block)
    BY <2>1 DEF BaseInv, Placed
  <2>3. ASSUME NEW t, Runs(t, block, address, w[block])' PROVE t[address'] = w[block]
    <3>1. \A a \in StartAddr(block) .. StartAddr(block) : a = StartAddr(block) => t[a] = w[block]
      BY <1>1, <1>5, <2>2, <2>3 DEF Runs
    <3> QED
      BY <1>7, <2>2, <3>1
  <2> QED
    BY <1>4, <1>6, <2>1, <2>3
<1>10. CASE InferInstruction
  <2>1. /\ step = "infer" /\ UNCHANGED <<step, regPtr>> /\ address < EndAddr(block)
        /\ Gen!Step(body[address])
    BY <1>10 DEF InferInstruction, More
  <2>2. ASSUME NEW t, Runs(t, block, address, w[block])' PROVE flag' \in t[address'].flags
    <3>1. PICK lo \in Int : lo = StartAddr(block)
      BY <1>7
    <3>2. PICK hi \in Int : hi = address' /\ (hi = address + 1 \/ hi = address)
      BY <1>7, <2>1, Stepping
    <3>3. /\ \A a \in DOMAIN loaded \ {address} : loaded'[a] = loaded[a]
          /\ \A a \in DOMAIN flagged \ {address} : flagged'[a] = flagged[a]
      BY <1>10 DEF InferInstruction
    <3>4. \A a \in lo .. (address - 1) : loaded'[a] = loaded[a] /\ flagged'[a] = flagged[a]
      <4>1. \A a \in lo .. (address - 1) : a \in DOMAIN code \ {address}
        BY <1>7, <2>1, <3>1
      <4> QED
        BY <3>3, <4>1 DEF BaseInv, Decoding
    <3>5. Runs(t, block, hi, w[block])'
      BY <2>2, <3>2
    <3>6. Runs(t, block, address, w[block])
      <4>1. address \in Int /\ address <= hi
        BY <1>7, <2>1, <3>2
      <4> QED
        BY <1>1, <3>1, <3>4, <3>5, <4>1, RunsKept
    <3>7. flag \in t[address].flags
      BY <1>4, <2>1, <3>6
    <3>8. CASE address' = address + 1
      <4>1. \A a \in lo .. hi : t[a] = IF a = lo THEN w[block] ELSE After(a - 1, t[a - 1])'
        BY <1>1, <1>5, <3>1, <3>5 DEF Runs
      <4>2. PICK at \in Int : at = address
        BY <1>7, <2>1
      <4>3. hi \in lo .. hi /\ hi # lo /\ hi - 1 = at
        BY <1>7, <2>1, <3>1, <3>2, <3>8, <4>2
      <4>4. t[hi] = After(at, t[at])'
        BY <4>1, <4>3
      <4>5. t[hi].flags = IF SetsFlags(body[at]) THEN {flagged'[at]} ELSE t[at].flags
        BY <1>1, <4>4 DEF After
      <4>6. SetsFlags(body[at]) => flagged'[at] = flag'
        <5>1. at \in DOMAIN flagged
          BY <1>7, <2>1, <4>2 DEF BaseInv, Decoding
        <5> QED
          BY <1>10, <4>2, <5>1 DEF InferInstruction
      <4>7. SetsFlags(body[at]) \/ flag' = flag
        BY <2>1, <4>2, FlagSet
      <4> QED
        BY <3>2, <3>7, <4>2, <4>5, <4>6, <4>7
    <3>9. CASE address' = address
      <4>1. flag' = flag
        BY <1>7, <2>1, <3>9, Stepping
      <4> QED
        BY <3>7, <3>9, <4>1
    <3> QED
      BY <3>2, <3>8, <3>9
  <2> QED
    BY <1>4, <1>6, <2>1, <2>2
<1>11. CASE LeaveBlock
  <2>1. /\ step = "infer" /\ step' = "find" /\ ~More
        /\ DOMAIN regPtr' = DOMAIN regPtr \cup {block} /\ regPtr'[block].flag = flag
        /\ \A f \in DOMAIN regPtr : f # block => regPtr'[f] = regPtr[f]
    BY <1>11 DEF LeaveBlock
  <2>2. address = EndAddr(block)
    <3>1. phase # "cfg"
      BY <1>1 DEF BaseInv, Placed
    <3>2. address < EndAddr(block) => address \in DOMAIN code
      BY <1>7, <2>1
    <3>3. address < EndAddr(block) => code[address].op # "bad"
      BY <1>3, <3>1, <3>2, AllDecodes DEF BaseInv
    <3> QED
      BY <1>7, <2>1, <3>3 DEF More
  <2>3. Runs(T[block], block, EndAddr(block), w[block])
    BY <1>2, <1>3, <1>11, LeftRuns
  <2>4. flag \in T[block][EndAddr(block)].flags
    BY <1>4, <2>1, <2>2, <2>3
  <2>5. \A f \in DOMAIN regPtr' : regPtr'[f].flag \in T[f][EndAddr(f)].flags
    BY <1>4, <2>1, <2>4
  <2> QED
    BY <1>5, <2>1, <2>5
<1> QED
  BY <1>8, <1>9, <1>10, <1>11

LEMMA FlagsStep == BaseInv /\ BaseInv' /\ FlagsFollow /\ [HunterNext]_hunterVars => FlagsFollow'
<1> SUFFICES ASSUME BaseInv, BaseInv', FlagsFollow, [HunterNext]_hunterVars PROVE FlagsFollow'
  OBVIOUS
<1>1. CASE UNCHANGED hunterVars
  <2>1. UNCHANGED <<cfgVars, depth, matrix, body, analysed, step, block, regPtr, flag, address, loaded, flagged>>
    BY <1>1 DEF hunterVars, orderOnly, orderVars, history, cfgVars
  <2>2. /\ (Inside' <=> Inside) /\ \A b : Order!Merged(b)' = Order!Merged(b)
        /\ \A b : StartAddr(b)' = StartAddr(b) /\ EndAddr(b)' = EndAddr(b)
    BY <2>1, GraphKept
  <2>3. \A t, b, hi, x : Runs(t, b, hi, x)' <=> Runs(t, b, hi, x)
    <3>1. \A a, at : After(a, at)' = After(a, at)
      BY <2>1 DEF After
    <3> QED
      BY <2>2, <3>1 DEF Runs
  <2>4. \A w, T : Solution(w, T)' <=> Solution(w, T)
    BY <2>1, <2>2, <2>3 DEF Solution, Gen!NoFlag
  <2> QED
    BY <2>1, <2>2, <2>3, <2>4 DEF FlagsFollow
<1> QED
  BY <1>1, PrepareFlags, FindFlags, BlockFlags DEF HunterNext

(* At the start of a block the paths to it are what counts.                *)
LEMMA RunStarts ==
    ASSUME Entering, BaseInv, NEW x
    PROVE  Inside /\ \E t : Runs(t, block, address, x) /\ t[address] = x
<1>1. Inside /\ address = StartAddr(block) /\ block \in Index
  BY DEF Entering, Readable, Inside, BaseInv, Placed
<1>2. StartAddr(block) \in Int
  BY <1>1, InsideSpan DEF BaseInv
<1>3. \A a \in StartAddr(block) .. StartAddr(block) : a = StartAddr(block)
  BY <1>2
<1> DEFINE t == [a \in {address} |-> x]
<1>4. Runs(t, block, address, x) /\ t[address] = x
  BY <1>1, <1>3 DEF Runs
<1> QED
  BY <1>1, <1>4

(* The flags a SETcc would look at are those of the first father, down to  *)
(* the instruction that set them: some path leads there with them.  This   *)
(* is for functions of understood code, none of it dead, in which every    *)
(* register is written as a whole.                                         *)
THEOREM FlagsCome == HunterSpec => []FlagsOfSomePath
<1>1. HunterInit => FlagsFollow
  <2> SUFFICES ASSUME HunterInit PROVE DOMAIN regPtr = {} /\ step = "find"
    BY DEF FlagsFollow
  <2> QED
    BY DEF HunterInit
<1>2. BaseInv /\ FlagsFollow => FlagsOfSomePath
  <2> SUFFICES ASSUME BaseInv, FlagsFollow, Entering PROVE flag \in OnPaths[block].flags
    BY DEF FlagsOfSomePath
  <2>1. PICK t : Runs(t, block, address, OnPaths[block]) /\ t[address] = OnPaths[block]
    BY RunStarts
  <2>2. Inside /\ step = "infer"
    BY RunStarts DEF Entering
  <2>3. PICK T : Solution(OnPaths, T)
    BY <2>2, PathsSolve
  <2> QED
    BY <2>1, <2>2, <2>3 DEF FlagsFollow
<1> QED
  BY <1>1, <1>2, FlagsStep, BaseInvariance, PTL DEF HunterSpec

----------------------------------------------------------------------------
(* The variables that are in use, the ones a merge is making aside, which  *)
(* stand for others only when it is over.                                  *)
Unfinished == IF step = "merge" /\ register # 0 THEN Merge!Made ELSE {}
Usable == {v \in Int : v < varIndex} \ Unfinished

(* Bytes hold what the whole register holds.                               *)
Whole(R) == \A s \in Slots : R[s] = R[<<s[1], "E">>]
Fine(R) == Whole(R) /\ \A s \in Slots : R[s] \in Usable \cup {NULL}

IdsKnown ==
    /\ varIndex \in Int /\ varIndex >= Gen!FirstTemporary
    /\ PairsOrdered
    /\ \A p \in standsFor : p[1] \in Usable /\ p[1] >= Gen!FirstTemporary
    /\ \A f \in DOMAIN regPtr : Fine(regPtr[f].reg)
    /\ step = "merge" /\ (register = 0 \/ Len(father) < 2) => Fine(reg)
    /\ step = "infer" => Fine(reg)

FathersListed ==
    step = "merge" =>
        /\ Len(father) \in Nat
        /\ \A k \in 1 .. Len(father) : \E f \in Order!Merged(block) : father[k] = regPtr[f].reg
        /\ \A f \in Order!Merged(block) : \E k \in 1 .. Len(father) : father[k] = regPtr[f].reg

(* What stands in a register for those of the fathers merged so far: a     *)
(* register of which mergeEnvironment() has come to the whole one.         *)
Held(s) ==
    IF reg[s] \in Merge!Made THEN {p[2] : p \in {p \in merge : p[1] = reg[s]}}
    ELSE {reg[s]} \ {NULL}

Pos(q) ==
    CASE q = "EAX" -> 1 [] q = "EBX" -> 2 [] q = "ECX" -> 3 [] q = "EDX" -> 4
      [] q = "ESI" -> 5 [] q = "EDI" -> 6
Done(s) == IF Pos(s[1]) < register THEN branch ELSE branch - 1

AllHeld == \A s \in Slots : Held(s) = {father[k][s] : k \in 1 .. Done(s)} \ {NULL}

(* A merge makes a variable for one register alone, newer than what it     *)
(* stands for and than everything that is still to come.                   *)
PairsNewer ==
    /\ merge \subseteq Int \X Int /\ IsFiniteSet(merge)
    /\ \A p \in merge :
        /\ p[1] >= Gen!FirstTemporary /\ p[1] < varIndex /\ p[2] \in Usable /\ p[2] < p[1]
        /\ \A k \in 1 .. Len(father), s \in Slots : father[k][s] # NULL => father[k][s] < p[1]

MergeSound ==
    step = "merge" /\ register # 0 /\ Len(father) > 1 =>
        /\ register \in 1 .. 14 /\ branch \in 2 .. Len(father) + 1
        /\ branch > Len(father) => register = 1
        /\ Whole(reg) /\ \A s \in Slots : reg[s] \in Usable \cup Merge!Made \cup {NULL}
        /\ PairsNewer
        /\ \A s, r \in Slots : reg[s] \in Merge!Made /\ reg[s] = reg[r] => s[1] = r[1]
        /\ AllHeld

IdsInv == IdsKnown /\ FathersListed /\ MergeSound

----------------------------------------------------------------------------
LEMMA SlotNames ==
    ASSUME NEW s \in Slots
    PROVE  /\ s[1] \in {"EAX", "EBX", "ECX", "EDX", "ESI", "EDI"}
           /\ <<s[1], "E">> \in Slots /\ s = <<s[1], s[2]>>
           /\ \A q : <<q, "E">>[1] = q
<1>1. PICK q \in Quads \cup Singles, x \in {"E", "H", "L"} : s = <<q, x>>
  BY DEF Slots
<1>2. <<q, "E">> \in Slots
  BY DEF Slots
<1>3. q \in {"EAX", "EBX", "ECX", "EDX", "ESI", "EDI"}
  BY HunterAssumption
<1> QED
  BY <1>1, <1>2, <1>3

(* mergeEnvironment(): a whole register comes before its bytes.            *)
LEMMA WholesFirst ==
    /\ Len(Merge!MergeOrder) = 14
    /\ \A s \in Slots : Pos(s[1]) \in 1 .. 6 /\ Merge!MergeOrder[Pos(s[1])] = <<s[1], "E">>
    /\ \A p \in 1 .. 14 : Merge!MergeOrder[p] \in Slots =>
        LET s == Merge!MergeOrder[p]
        IN  IF p <= 6 THEN s = <<s[1], "E">> /\ Pos(s[1]) = p ELSE Pos(s[1]) < p
<1> DEFINE O == Merge!MergeOrder
<1>1. /\ Len(O) = 14
      /\ O[1] = <<"EAX", "E">> /\ O[2] = <<"EBX", "E">> /\ O[3] = <<"ECX", "E">>
      /\ O[4] = <<"EDX", "E">> /\ O[5] = <<"ESI", "E">> /\ O[6] = <<"EDI", "E">>
      /\ O[7] = <<"EAX", "H">> /\ O[8] = <<"EAX", "L">> /\ O[9] = <<"EBX", "H">>
      /\ O[10] = <<"EBX", "L">> /\ O[11] = <<"ECX", "H">> /\ O[12] = <<"ECX", "L">>
      /\ O[13] = <<"EDX", "H">> /\ O[14] = <<"EDX", "L">>
  BY DEF Merge!MergeOrder, Merge!WholeSlots, Merge!ByteSlots
<1> HIDE DEF O
<1>2. /\ Pos("EAX") = 1 /\ Pos("EBX") = 2 /\ Pos("ECX") = 3 /\ Pos("EDX") = 4
      /\ Pos("ESI") = 5 /\ Pos("EDI") = 6
  BY DEF Pos
<1>3. ASSUME NEW s \in Slots PROVE Pos(s[1]) \in 1 .. 6 /\ O[Pos(s[1])] = <<s[1], "E">>
  <2>1. s[1] \in {"EAX", "EBX", "ECX", "EDX", "ESI", "EDI"}
    BY SlotNames
  <2> QED
    BY <1>1, <1>2, <2>1
<1>4. ASSUME NEW p \in 1 .. 14
      PROVE  IF p <= 6 THEN O[p] = <<O[p][1], "E">> /\ Pos(O[p][1]) = p ELSE Pos(O[p][1]) < p
  <2>1. p \in {1, 2, 3, 4, 5, 6, 7, 8, 9, 10, 11, 12, 13, 14}
    OBVIOUS
  <2>2. CASE p \in {1, 2, 3, 4, 5, 6}
    BY <1>1, <1>2, <2>2
  <2>3. CASE p \in {7, 8, 9, 10, 11, 12, 13, 14}
    BY <1>1, <1>2, <2>3
  <2> QED
    BY <2>1, <2>2, <2>3
<1> QED
  BY <1>1, <1>3, <1>4 DEF O

(* A whole register is set together with its bytes.                        *)
LEMMA SetWhole ==
    ASSUME NEW R, NEW q, NEW v
    PROVE  /\ \A s \in Slots : SetRegister(R, <<q, "E">>, v)[s] = IF s[1] = q THEN v ELSE R[s]
           /\ Whole(R) => Whole(SetRegister(R, <<q, "E">>, v))
<1>1. \A s \in Slots : SetRegister(R, <<q, "E">>, v)[s] = IF s[1] = q THEN v ELSE R[s]
  BY DEF SetRegister
<1> QED
  BY <1>1, SlotNames DEF Whole

----------------------------------------------------------------------------
(* One register of one father.                                             *)
Advances ==
    /\ step = "merge" /\ Len(father) > 1
    /\ branch \in 2 .. Len(father) /\ register \in 1 .. 14
    /\ IF register < 14 THEN register' = register + 1 /\ branch' = branch
       ELSE register' = 1 /\ branch' = branch + 1
    /\ UNCHANGED <<cfgVars, depth, analysed, step, block, father, regPtr, standsFor>>

LEMMA MergeAdvances == MergeRegister => Advances
<1> SUFFICES ASSUME MergeRegister PROVE Advances
  OBVIOUS
<1>1. Merge!Merging /\ Merge!Advance
  BY DEF MergeRegister, Merge!Keep, Merge!Take, Merge!Again, Merge!Make
<1>2. Len(Merge!MergeOrder) = 14
  BY WholesFirst
<1>3. branch \in 2 .. Len(father) /\ register \in 1 .. 14
  BY <1>1, <1>2 DEF Merge!Merging
<1>4. IF register < 14 THEN register' = register + 1 /\ branch' = branch
      ELSE register' = 1 /\ branch' = branch + 1
  BY <1>1, <1>2 DEF Merge!Advance
<1>5. UNCHANGED father
  BY <1>1 DEF Merge!Advance
<1>6. /\ step = "merge" /\ Len(father) > 1
      /\ UNCHANGED <<cfgVars, depth, analysed, step, block, regPtr, standsFor>>
  BY DEF MergeRegister, orderOnly, orderVars, history
<1> QED
  BY <1>3, <1>4, <1>5, <1>6 DEF Advances

LEMMA DoneMoves ==
    ASSUME Advances, FathersListed, NEW s \in Slots
    PROVE  /\ Done(s)' = IF Pos(s[1]) = register THEN Done(s) + 1 ELSE Done(s)
           /\ Done(s) \in Nat /\ (Pos(s[1]) = register => Done(s) = branch - 1)
<1>1. Pos(s[1]) \in 1 .. 6
  BY WholesFirst
<1>2. Len(father) \in Nat
  BY DEF FathersListed, Advances
<1> HIDE DEF Pos
<1> QED
  BY <1>1, <1>2 DEF Advances, Done

LEMMA FathersFine ==
    ASSUME BaseInv, IdsInv, step = "merge", NEW k \in 1 .. Len(father)
    PROVE  Fine(father[k])
<1>1. PICK f \in Order!Merged(block) : father[k] = regPtr[f].reg
  BY DEF IdsInv, FathersListed
<1>2. f \in DOMAIN regPtr
  BY <1>1 DEF BaseInv, Placed, Ready
<1> QED
  BY <1>1, <1>2 DEF IdsInv, IdsKnown

LEMMA UsableIds ==
    ASSUME varIndex \in Int
    PROVE  /\ NULL \notin Usable /\ Usable \subseteq Int
           /\ \A v \in Usable : v \in Int /\ v < varIndex /\ v \notin Unfinished
           /\ step = "merge" /\ register # 0 => Unfinished = Merge!Made
BY NullAssumption DEF Usable, Unfinished

LEMMA MadeIds ==
    ASSUME PairsNewer, varIndex \in Int
    PROVE  /\ NULL \notin Merge!Made /\ varIndex \notin Merge!Made
           /\ \A m \in Merge!Made : m \in Int /\ m < varIndex /\ m >= Gen!FirstTemporary
<1>1. \A p \in merge : p[1] \in Int /\ p[1] < varIndex /\ p[1] >= Gen!FirstTemporary
  BY DEF PairsNewer
<1> QED
  BY <1>1, NullAssumption DEF Merge!Made

(* The whole register q takes what the father at hand has in it.           *)
Changes(q) ==
    LET e == <<q, "E">>
        c == father[branch][e]
    IN  /\ Pos(q) = register /\ e \in Slots /\ c # NULL
        /\ \/ /\ reg[e] = NULL
              /\ reg' = SetRegister(reg, e, c) /\ UNCHANGED <<merge, varIndex>>
           \/ /\ reg[e] \in Merge!Made
              /\ merge' = merge \cup {<<reg[e], c>>} /\ UNCHANGED <<reg, varIndex>>
           \/ /\ reg[e] # NULL /\ reg[e] \notin Merge!Made
              /\ reg' = SetRegister(reg, e, varIndex)
              /\ merge' = merge \cup {<<varIndex, reg[e]>>, <<varIndex, c>>}
              /\ varIndex' = varIndex + 1

Keeps ==
    /\ UNCHANGED <<reg, merge, varIndex>>
    /\ \A s \in Slots : Pos(s[1]) = register => {father[branch][s]} \ {NULL} \subseteq Held(s)

(* A byte brings nothing that its whole register has not brought.          *)
LEMMA MergeCases ==
    ASSUME BaseInv, IdsInv, MergeRegister
    PROVE  Keeps \/ \E q : Changes(q)
<1> DEFINE h == Merge!MergeOrder[register]
           q == h[1]
           e == <<q, "E">>
           c == father[branch][h]
<1>1. /\ Advances /\ varIndex \in Int
      /\ Whole(reg) /\ PairsNewer /\ AllHeld
  BY MergeAdvances DEF IdsInv, IdsKnown, MergeSound, Advances
<1>2. Merge!Here = h /\ Merge!Coming = IF h \in Slots THEN c ELSE NULL
  <2>1. Merge!Slots = Slots
    BY DEF Merge!Slots, Slots
  <2> QED
    BY <2>1 DEF Merge!Here, Merge!Coming
<1>3. Merge!Keep => UNCHANGED <<reg, merge, varIndex>> /\ (Merge!Coming # NULL => Merge!Same)
  BY DEF Merge!Keep
<1>4. NULL \notin Merge!Made
  BY <1>1, MadeIds
<1>5. register \in 1 .. 14
  BY <1>1 DEF Advances
<1> HIDE DEF h
<1>6. ASSUME h \notin Slots PROVE \A s \in Slots : Pos(s[1]) # register
  <2>1. \A s \in Slots : Pos(s[1]) = register => h = <<s[1], "E">>
    BY WholesFirst DEF h
  <2> QED
    BY <1>6, <2>1, SlotNames
<1>7. CASE h \notin Slots
  <2>1. Merge!Keep
    BY <1>2, <1>7 DEF MergeRegister, Merge!Take, Merge!Again, Merge!Make
  <2> QED
    BY <1>3, <1>6, <1>7, <2>1 DEF Keeps
<1>8. CASE h \in Slots /\ register <= 6
  <2>1. h = e /\ Pos(q) = register
    BY <1>5, <1>8, WholesFirst DEF h
  <2>2. CASE Merge!Keep
    <3>1. ASSUME NEW s \in Slots, Pos(s[1]) = register
          PROVE  {father[branch][s]} \ {NULL} \subseteq Held(s)
      <4>1. e = <<s[1], "E">>
        BY <2>1, <3>1, WholesFirst DEF h
      <4>2. father[branch][s] = father[branch][e] /\ reg[s] = reg[e]
        <5>1. branch \in 1 .. Len(father)
          BY <1>1 DEF Advances, IdsInv, FathersListed
        <5>2. Whole(father[branch])
          BY <1>1, <5>1, FathersFine DEF Fine, Advances
        <5> QED
          BY <1>1, <4>1, <5>2 DEF Whole
      <4>3. c # NULL => reg[e] = c /\ reg[e] \notin Merge!Made
        BY <1>2, <1>3, <1>8, <2>1, <2>2 DEF Merge!Same, Merge!NewlyMade
      <4> QED
        BY <2>1, <4>2, <4>3 DEF Held
    <3> QED
      BY <1>3, <2>2, <3>1 DEF Keeps
  <2>3. CASE ~Merge!Keep
    <3>1. c # NULL /\ e \in Slots
      BY <1>2, <1>8, <2>1, <2>3 DEF MergeRegister, Merge!Take, Merge!Again, Merge!Make
    <3>2. \/ /\ reg[e] = NULL
             /\ reg' = SetRegister(reg, e, c) /\ UNCHANGED <<merge, varIndex>>
          \/ /\ reg[e] \in Merge!Made
             /\ merge' = merge \cup {<<reg[e], c>>} /\ UNCHANGED <<reg, varIndex>>
          \/ /\ reg[e] # NULL /\ reg[e] \notin Merge!Made
             /\ reg' = SetRegister(reg, e, varIndex)
             /\ merge' = merge \cup {<<varIndex, reg[e]>>, <<varIndex, c>>}
             /\ varIndex' = varIndex + 1
      BY <1>2, <1>8, <2>1, <2>3 DEF MergeRegister, Merge!Take, Merge!Again, Merge!Make,
            Merge!NewlyMade, Merge!Relate, Merge!SetRegister, SetRegister, Merge!Slots, Slots
    <3>3. c = father[branch][e]
      BY <2>1
    <3>4. Changes(q)
      BY <2>1, <3>1, <3>2, <3>3 DEF Changes
    <3> HIDE DEF q
    <3> QED
      BY <3>4
  <2> QED
    BY <2>2, <2>3
<1>9. CASE h \in Slots /\ register > 6
  <2>1. Pos(q) < register /\ e \in Slots /\ e[1] = q
    BY <1>5, <1>9, WholesFirst, SlotNames DEF h
  <2>2. \A s \in Slots : Pos(s[1]) # register
    BY <1>5, <1>9, WholesFirst
  <2>3. /\ c = father[branch][e] /\ reg[h] = reg[e] /\ branch \in 1 .. Len(father)
    <3>1. branch \in 1 .. Len(father)
      BY <1>1 DEF Advances, IdsInv, FathersListed
    <3>2. Whole(father[branch])
      BY <1>1, <3>1, FathersFine DEF Fine, Advances
    <3> QED
      BY <1>1, <1>9, <3>1, <3>2 DEF Whole
  <2>4. c # NULL => c \in Held(e)
    <3>1. Done(e) = branch /\ branch \in 1 .. branch
      BY <1>1, <2>1, <2>3 DEF Done, Advances, IdsInv, FathersListed
    <3>2. Held(e) = {father[k][e] : k \in 1 .. branch} \ {NULL}
      BY <1>1, <2>1, <3>1 DEF AllHeld
    <3> QED
      BY <2>3, <3>1, <3>2
  <2>5. UNCHANGED <<reg, merge, varIndex>>
    <3>1. CASE Merge!Keep
      BY <1>3, <3>1
    <3>2. CASE Merge!Take
      <4>1. c # NULL /\ reg[e] = NULL
        BY <1>2, <1>9, <2>3, <3>2 DEF Merge!Take
      <4> QED
        BY <1>4, <2>4, <4>1 DEF Held
    <3>3. CASE Merge!Again
      <4>1. /\ c # NULL /\ reg[e] \in Merge!Made
            /\ merge' = merge \cup {<<reg[e], c>>} /\ UNCHANGED <<reg, varIndex>>
        BY <1>2, <1>9, <2>3, <3>3 DEF Merge!Again, Merge!NewlyMade
      <4>2. PICK p \in merge : p[1] = reg[e] /\ p[2] = c
        BY <2>4, <4>1 DEF Held
      <4>3. p = <<reg[e], c>>
        BY <1>1, <4>2 DEF PairsNewer
      <4> QED
        BY <4>1, <4>2, <4>3
    <3>4. CASE Merge!Make
      <4>1. c # NULL /\ reg[e] \notin Merge!Made /\ c # reg[e]
        BY <1>2, <1>9, <2>3, <3>4 DEF Merge!Make, Merge!NewlyMade, Merge!Same
      <4> QED
        BY <2>4, <4>1 DEF Held
    <3> QED
      BY <3>1, <3>2, <3>3, <3>4 DEF MergeRegister
  <2> QED
    BY <2>2, <2>5 DEF Keeps
<1> QED
  BY <1>5, <1>7, <1>8, <1>9

(* Tracker::Tracker(): the variables in memory come first, then a gap.     *)
LEMMA TemporaryNumber ==
    /\ Gen!FirstTemporary \in Int
    /\ \A d \in StackOffsets : Gen!StackId(d) \in Int /\ Gen!StackId(d) < Gen!FirstTemporary
    /\ \A d \in AbsoluteOffsets :
        Gen!AbsoluteId(d) \in Int /\ Gen!AbsoluteId(d) < Gen!FirstTemporary
<1>1. ASSUME NEW S, IsFiniteSet(S), S \subseteq Int, NEW d \in S
      PROVE  /\ Cardinality({o \in S : o < d}) \in Nat
             /\ Cardinality({o \in S : o < d}) <= Cardinality(S)
             /\ Cardinality(S) \in Nat
  <2>1. {o \in S : o < d} \in SUBSET S
    BY <1>1
  <2> QED
    BY <1>1, <2>1, FS_Subset, FS_CardinalityType
<1>2. Cardinality(StackOffsets) \in Nat /\ Cardinality(AbsoluteOffsets) \in Nat
  BY HunterAssumption, FS_CardinalityType
<1>3. Gen!FirstTemporary = 27 + Cardinality(StackOffsets) + Cardinality(AbsoluteOffsets)
  BY DEF Gen!FirstTemporary, Gen!Cardinality, Cardinality
<1>4. ASSUME NEW d \in StackOffsets
      PROVE  Gen!StackId(d) \in Int /\ Gen!StackId(d) < Gen!FirstTemporary
  <2> DEFINE n == Cardinality({o \in StackOffsets : o < d})
  <2>1. n \in Nat /\ n <= Cardinality(StackOffsets)
    BY <1>1, HunterAssumption
  <2>2. Gen!StackId(d) = 7 + n
    BY DEF Gen!StackId, Gen!Cardinality, Cardinality
  <2> HIDE DEF n
  <2> QED
    BY <1>2, <1>3, <2>1, <2>2
<1>5. ASSUME NEW d \in AbsoluteOffsets
      PROVE  Gen!AbsoluteId(d) \in Int /\ Gen!AbsoluteId(d) < Gen!FirstTemporary
  <2> DEFINE n == Cardinality({o \in AbsoluteOffsets : o < d})
  <2>1. n \in Nat /\ n <= Cardinality(AbsoluteOffsets)
    BY <1>1, HunterAssumption
  <2>2. Gen!AbsoluteId(d) = 7 + Cardinality(StackOffsets) + n
    BY DEF Gen!AbsoluteId, Gen!Cardinality, Cardinality
  <2> HIDE DEF n
  <2> QED
    BY <1>2, <1>3, <2>1, <2>2
<1> QED
  BY <1>2, <1>3, <1>4, <1>5

LEMMA OnePlace ==
    ASSUME NEW s \in Slots, NEW r \in Slots, Pos(s[1]) = Pos(r[1])
    PROVE  s[1] = r[1]
<1>1. <<s[1], "E">> = <<r[1], "E">>
  BY WholesFirst
<1> QED
  BY <1>1, SlotNames

(* What one step of a merge does to the variables and to what they stand   *)
(* for.                                                                    *)
Brings ==
    /\ Usable' = Usable /\ varIndex' \in Int /\ varIndex' >= varIndex
    /\ Whole(reg)' /\ \A s \in Slots : reg'[s] \in Usable \cup Merge!Made' \cup {NULL}
    /\ PairsNewer'
    /\ \A s, r \in Slots : reg'[s] \in Merge!Made' /\ reg'[s] = reg'[r] => s[1] = r[1]
    /\ \A s \in Slots :
        Held(s)' = IF Pos(s[1]) = register THEN Held(s) \cup ({father[branch][s]} \ {NULL})
                   ELSE Held(s)

LEMMA KeepBrings ==
    ASSUME BaseInv, IdsInv, MergeRegister, Keeps
    PROVE  Brings
<1>1. Advances /\ MergeSound /\ varIndex \in Int
  BY MergeAdvances DEF IdsInv, IdsKnown
<1>2. UNCHANGED <<step, reg, merge, varIndex, father>> /\ register' # 0 /\ step = "merge"
      /\ register # 0 /\ Len(father) > 1
  BY <1>1 DEF Keeps, Advances
<1>3. UNCHANGED Merge!Made
  BY <1>2 DEF Merge!Made
<1>4. UNCHANGED Usable
  BY <1>2, <1>3 DEF Usable, Unfinished
<1>5. \A s \in Slots : UNCHANGED Held(s)
  BY <1>2, <1>3 DEF Held
<1>6. UNCHANGED <<Whole(reg), PairsNewer>>
  BY <1>2, <1>4 DEF Whole, PairsNewer
<1>7. \A s \in Slots : Held(s)' = IF Pos(s[1]) = register
                                  THEN Held(s) \cup ({father[branch][s]} \ {NULL}) ELSE Held(s)
  BY <1>5 DEF Keeps
<1> QED
  BY <1>1, <1>2, <1>3, <1>4, <1>6, <1>7 DEF Brings, MergeSound

(* What v stands for in the pairs M.                                       *)
Behind(v, M) == {p[2] : p \in {p \in M : p[1] = v}}

(* N is M with one pair more, which leads from u to w.                     *)
OneMore(M, N, u, w) ==
    /\ {p[1] : p \in N} = {p[1] : p \in M} \cup {u}
    /\ \A v : Behind(v, N) = IF v = u THEN Behind(v, M) \cup {w} ELSE Behind(v, M)

LEMMA OneMorePair ==
    ASSUME NEW M, NEW u, NEW w, NEW d, d = <<u, w>>
    PROVE  OneMore(M, M \cup {d}, u, w)
<1>0. d[1] = u /\ d[2] = w
  OBVIOUS
<1>1. {p[1] : p \in M \cup {d}} = {p[1] : p \in M} \cup {u}
  BY <1>0
<1>2. ASSUME NEW v
      PROVE  Behind(v, M \cup {d}) = IF v = u THEN Behind(v, M) \cup {w} ELSE Behind(v, M)
  <2>1. {p \in M \cup {d} : p[1] = v} = {p \in M : p[1] = v} \cup (IF v = u THEN {d} ELSE {})
    BY <1>0
  <2>2. CASE v = u
    BY <1>0, <2>1, <2>2 DEF Behind
  <2>3. CASE v # u
    BY <2>1, <2>3 DEF Behind
  <2> QED
    BY <2>2, <2>3
<1> QED
  BY <1>1, <1>2 DEF OneMore

LEMMA ChangeBrings ==
    ASSUME BaseInv, IdsInv, MergeRegister, NEW q, Changes(q)
    PROVE  Brings
<1> DEFINE e == <<q, "E">>
           c == father[branch][e]
           Made == Merge!Made
<1>1. /\ Advances /\ MergeSound
      /\ varIndex \in Int /\ varIndex >= Gen!FirstTemporary /\ Gen!FirstTemporary \in Int
  BY MergeAdvances, TemporaryNumber DEF IdsInv, IdsKnown
<1>2. /\ UNCHANGED <<step, father>> /\ step = "merge" /\ register # 0 /\ register' # 0
      /\ Len(father) > 1 /\ branch \in 1 .. Len(father) /\ Len(father) \in Nat
  <2>1. UNCHANGED <<step, father>> /\ step = "merge" /\ Len(father) > 1 /\ branch \in 2 .. Len(father)
    BY <1>1 DEF Advances
  <2>2. Len(father) \in Nat
    BY <2>1 DEF IdsInv, FathersListed
  <2>3. register # 0 /\ register' # 0
    BY <1>1 DEF Advances
  <2> QED
    BY <2>1, <2>2, <2>3
<1>3. /\ Whole(reg) /\ \A s \in Slots : reg[s] \in Usable \cup Made \cup {NULL}
      /\ PairsNewer
      /\ \A s, r \in Slots : reg[s] \in Made /\ reg[s] = reg[r] => s[1] = r[1]
  BY <1>1, <1>2 DEF MergeSound
<1>4. /\ NULL \notin Made /\ varIndex \notin Made
      /\ \A m \in Made : m \in Int /\ m < varIndex /\ m >= Gen!FirstTemporary
  BY <1>1, <1>3, MadeIds
<1>5. Usable = {v \in Int : v < varIndex} \ Made /\ NULL \notin Usable
  BY <1>2, NullAssumption DEF Usable, Unfinished
<1>6. Fine(father[branch])
  BY <1>2, FathersFine
<1>7. e \in Slots /\ e[1] = q /\ Pos(q) = register /\ c # NULL /\ c \in Usable
  BY <1>6 DEF Changes, Fine
<1>8. \A s \in Slots : /\ Pos(s[1]) = register <=> s[1] = q
                       /\ s[1] = q => reg[s] = reg[e] /\ father[branch][s] = c
  BY <1>3, <1>6, <1>7, OnePlace DEF Whole, Fine
<1>9. \A s \in Slots : Held(s) = IF reg[s] \in Made THEN Behind(reg[s], merge) ELSE {reg[s]} \ {NULL}
  BY DEF Held, Behind
<1>10. \A s \in Slots : Held(s)' = IF reg'[s] \in Made' THEN Behind(reg'[s], merge') ELSE {reg'[s]} \ {NULL}
  BY DEF Held, Behind
<1>11. Made = {p[1] : p \in merge} /\ Made' = {p[1] : p \in merge'}
  BY DEF Merge!Made
<1>12. Usable' = {v \in Int : v < varIndex'} \ Made'
  BY <1>2 DEF Usable, Unfinished
<1>13. ASSUME NEW D, merge' = merge \cup D, UNCHANGED Usable, varIndex' \in Int, varIndex' >= varIndex,
              D \subseteq Int \X Int, IsFiniteSet(D),
              \A p \in D : /\ p[1] >= Gen!FirstTemporary /\ p[1] < varIndex'
                           /\ p[2] \in Usable /\ p[2] < p[1]
                           /\ \A k \in 1 .. Len(father), s \in Slots :
                                father[k][s] # NULL => father[k][s] < p[1]
       PROVE  PairsNewer'
  <2>1. IsFiniteSet(merge')
    BY <1>3, <1>13, FS_Union DEF PairsNewer
  <2>2. ASSUME NEW p \in merge
        PROVE  /\ p[1] >= Gen!FirstTemporary /\ p[1] < varIndex' /\ p[2] \in Usable' /\ p[2] < p[1]
               /\ \A k \in 1 .. Len(father), s \in Slots : father[k][s] # NULL => father[k][s] < p[1]
    BY <1>1, <1>3, <1>13, <2>2 DEF PairsNewer
  <2> QED
    BY <1>2, <1>3, <1>13, <2>1, <2>2 DEF PairsNewer
<1> HIDE DEF e, c, Made
<1>14. CASE reg[e] = NULL /\ reg' = SetRegister(reg, e, c) /\ UNCHANGED <<merge, varIndex>>
  <2>1. /\ \A s \in Slots : reg'[s] = IF s[1] = q THEN c ELSE reg[s]
        /\ Whole(reg')
    BY <1>3, <1>14, SetWhole DEF e
  <2>2. Made' = Made /\ Usable' = Usable
    BY <1>5, <1>11, <1>12, <1>14
  <2>3. c \notin Made
    BY <1>5, <1>7
  <2>4. ASSUME NEW s \in Slots
        PROVE  Held(s)' = IF Pos(s[1]) = register THEN Held(s) \cup ({father[branch][s]} \ {NULL})
                          ELSE Held(s)
    <3>1. CASE s[1] = q
      <4>1. Held(s) = {reg[e]} \ {NULL} /\ Held(s)' = {c} \ {NULL}
        BY <1>4, <1>8, <1>9, <1>10, <1>14, <2>1, <2>2, <2>3, <3>1
      <4> QED
        BY <1>8, <1>14, <3>1, <4>1
    <3>2. CASE s[1] # q
      <4>1. reg'[s] = reg[s]
        BY <2>1, <3>2
      <4> QED
        BY <1>8, <1>9, <1>10, <1>14, <2>2, <3>2, <4>1
    <3> QED
      BY <3>1, <3>2
  <2>5. PairsNewer'
    BY <1>2, <1>3, <1>14, <2>2 DEF PairsNewer
  <2>6. \A s, r \in Slots : reg'[s] \in Made' /\ reg'[s] = reg'[r] => s[1] = r[1]
    BY <1>3, <2>1, <2>2, <2>3
  <2>7. \A s \in Slots : reg'[s] \in Usable \cup Made' \cup {NULL}
    BY <1>3, <1>7, <2>1, <2>2
  <2> QED
    BY <1>1, <1>14, <2>1, <2>2, <2>4, <2>5, <2>6, <2>7 DEF Brings, Made, Whole
<1>15. CASE reg[e] \in Made /\ merge' = merge \cup {<<reg[e], c>>} /\ UNCHANGED <<reg, varIndex>>
  <2> PICK d : d = <<reg[e], c>>
    OBVIOUS
  <2>0. /\ d[1] = reg[e] /\ d[2] = c
        /\ \A v : Behind(v, merge') = IF v = reg[e] THEN Behind(v, merge) \cup {c} ELSE Behind(v, merge)
    <3>1. d[1] = reg[e] /\ d[2] = c /\ merge' = merge \cup {d}
      BY <1>15
    <3>2. OneMore(merge, merge \cup {d}, reg[e], c)
      BY OneMorePair
    <3> QED
      BY <3>1, <3>2 DEF OneMore
  <2>1. Made' = Made
    BY <1>11, <1>15
  <2>2. Usable' = Usable
    BY <1>5, <1>12, <1>15, <2>1
  <2>3. ASSUME NEW s \in Slots
        PROVE  Held(s)' = IF Pos(s[1]) = register THEN Held(s) \cup ({father[branch][s]} \ {NULL})
                          ELSE Held(s)
    <3>1. CASE s[1] = q
      <4>1. Held(s) = Behind(reg[e], merge) /\ Held(s)' = Behind(reg[e], merge')
        BY <1>8, <1>9, <1>10, <1>15, <2>1, <3>1
      <4>2. Behind(reg[e], merge') = Behind(reg[e], merge) \cup {c}
        BY <2>0
      <4> QED
        BY <1>7, <1>8, <3>1, <4>1, <4>2
    <3>2. CASE s[1] # q
      <4>1. reg[s] \in Made => reg[s] # reg[e]
        BY <1>3, <1>7, <3>2 DEF Made
      <4>2. reg[s] # reg[e] => Behind(reg[s], merge') = Behind(reg[s], merge)
        BY <2>0
      <4> QED
        BY <1>8, <1>9, <1>10, <1>15, <2>1, <3>2, <4>1, <4>2
    <3> QED
      BY <3>1, <3>2
  <2>4. PairsNewer'
    <3>1. PICK p \in merge : p[1] = reg[e]
      BY <1>11, <1>15
    <3>2. c < reg[e]
      BY <1>2, <1>3, <1>7, <3>1 DEF PairsNewer, c
    <3>3. /\ {d} \subseteq Int \X Int /\ IsFiniteSet({d}) /\ merge' = merge \cup {d}
          /\ c \in Usable /\ reg[e] >= Gen!FirstTemporary /\ reg[e] < varIndex'
          /\ \A k \in 1 .. Len(father), s \in Slots : father[k][s] # NULL => father[k][s] < reg[e]
      <4>1. reg[e] \in Int /\ reg[e] < varIndex' /\ reg[e] >= Gen!FirstTemporary /\ c \in Int
        BY <1>4, <1>5, <1>7, <1>15
      <4>2. {d} \subseteq Int \X Int /\ merge' = merge \cup {d}
        BY <1>15, <4>1
      <4>3. \A k \in 1 .. Len(father), s \in Slots : father[k][s] # NULL => father[k][s] < reg[e]
        BY <1>3, <3>1 DEF PairsNewer
      <4> QED
        BY <1>7, <4>1, <4>2, <4>3, FS_Singleton
    <3>4. \A x \in {d} : x[1] = reg[e] /\ x[2] = c
      BY <2>0
    <3>5. varIndex' \in Int /\ varIndex' >= varIndex
      BY <1>1, <1>15
    <3>6. \A x \in {d} :
            /\ x[1] >= Gen!FirstTemporary /\ x[1] < varIndex'
            /\ x[2] \in Usable /\ x[2] < x[1]
            /\ \A k \in 1 .. Len(father), s \in Slots : father[k][s] # NULL => father[k][s] < x[1]
      BY <3>2, <3>3, <3>4
    <3> QED
      BY <1>13, <2>2, <3>3, <3>5, <3>6
  <2> QED
    BY <1>1, <1>3, <1>15, <2>1, <2>2, <2>3, <2>4 DEF Brings, Made, Whole
<1>16. CASE /\ reg[e] # NULL /\ reg[e] \notin Made
            /\ reg' = SetRegister(reg, e, varIndex)
            /\ merge' = merge \cup {<<varIndex, reg[e]>>, <<varIndex, c>>}
            /\ varIndex' = varIndex + 1
  <2>1. /\ \A s \in Slots : reg'[s] = IF s[1] = q THEN varIndex ELSE reg[s]
        /\ Whole(reg')
    BY <1>3, <1>16, SetWhole DEF e
  <2>2. /\ Made' = Made \cup {varIndex}
        /\ \A v : Behind(v, merge') = IF v = varIndex THEN Behind(v, merge) \cup {reg[e], c}
                                      ELSE Behind(v, merge)
    <3> PICK d1 : d1 = <<varIndex, reg[e]>>
      OBVIOUS
    <3> PICK d2 : d2 = <<varIndex, c>>
      OBVIOUS
    <3> DEFINE M == merge \cup {d1}
    <3>1. merge' = M \cup {d2} /\ d1[1] = varIndex /\ d1[2] = reg[e] /\ d2[1] = varIndex /\ d2[2] = c
      BY <1>16
    <3>2. /\ {p[1] : p \in M} = Made \cup {varIndex}
          /\ \A v : Behind(v, M) = IF v = varIndex THEN Behind(v, merge) \cup {reg[e]}
                                   ELSE Behind(v, merge)
      <4>1. OneMore(merge, M, varIndex, reg[e])
        BY OneMorePair
      <4> HIDE DEF M
      <4> QED
        BY <1>11, <4>1 DEF OneMore
    <3> HIDE DEF M
    <3>4. /\ {p[1] : p \in M \cup {d2}} = {p[1] : p \in M} \cup {varIndex}
          /\ \A v : Behind(v, M \cup {d2}) = IF v = varIndex THEN Behind(v, M) \cup {c} ELSE Behind(v, M)
      <4>1. OneMore(M, M \cup {d2}, varIndex, c)
        BY OneMorePair
      <4> QED
        BY <4>1 DEF OneMore
    <3>5. Made' = Made \cup {varIndex}
      BY <1>11, <3>1, <3>2, <3>4
    <3>6. ASSUME NEW v
          PROVE  Behind(v, merge') = IF v = varIndex THEN Behind(v, merge) \cup {reg[e], c}
                                     ELSE Behind(v, merge)
      <4>1. /\ v = varIndex => Behind(v, M) = Behind(v, merge) \cup {reg[e]}
            /\ v # varIndex => Behind(v, M) = Behind(v, merge)
        BY <3>2
      <4>2. /\ v = varIndex => Behind(v, merge') = Behind(v, M) \cup {c}
            /\ v # varIndex => Behind(v, merge') = Behind(v, M)
        BY <3>1, <3>4
      <4> QED
        BY <4>1, <4>2
    <3> QED
      BY <3>5, <3>6
  <2>3. Usable' = Usable
    BY <1>1, <1>5, <1>12, <1>16, <2>2
  <2>4. reg[e] \in Usable
    BY <1>3, <1>7, <1>16
  <2>5. \A s \in Slots : reg[s] # varIndex
    BY <1>1, <1>3, <1>4, <1>5, NullAssumption
  <2>6. \A p \in merge : p[1] # varIndex
    BY <1>4, <1>11
  <2>7. ASSUME NEW s \in Slots
        PROVE  Held(s)' = IF Pos(s[1]) = register THEN Held(s) \cup ({father[branch][s]} \ {NULL})
                          ELSE Held(s)
    <3>1. CASE s[1] = q
      <4>1. Held(s) = {reg[e]} /\ Held(s)' = Behind(varIndex, merge')
        <5>1. reg[s] = reg[e] /\ reg'[s] = varIndex /\ varIndex \in Made'
          BY <1>8, <2>1, <2>2, <3>1
        <5>2. Held(s) = {reg[e]}
          BY <1>9, <1>16, <5>1
        <5> QED
          BY <1>10, <5>1, <5>2
      <4>2. Behind(varIndex, merge') = {reg[e], c}
        <5>1. Behind(varIndex, merge) = {}
          BY <2>6 DEF Behind
        <5> QED
          BY <2>2, <5>1
      <4> QED
        BY <1>7, <1>8, <3>1, <4>1, <4>2
    <3>2. CASE s[1] # q
      <4>1. reg'[s] = reg[s] /\ Behind(reg[s], merge') = Behind(reg[s], merge)
        BY <2>1, <2>2, <2>5, <3>2
      <4> QED
        BY <1>8, <1>9, <1>10, <2>2, <2>5, <3>2, <4>1
    <3> QED
      BY <3>1, <3>2
  <2>8. PairsNewer'
    <3> DEFINE D == {<<varIndex, reg[e]>>, <<varIndex, c>>}
    <3>1. IsFiniteSet(D)
      <4>1. IsFiniteSet({<<varIndex, reg[e]>>})
        BY FS_Singleton
      <4>2. IsFiniteSet({<<varIndex, reg[e]>>} \cup {<<varIndex, c>>})
        BY <4>1, FS_AddElement
      <4>3. D = {<<varIndex, reg[e]>>} \cup {<<varIndex, c>>}
        OBVIOUS
      <4> QED
        BY <4>2, <4>3
    <3>2. \A k \in 1 .. Len(father), s \in Slots : father[k][s] # NULL => father[k][s] < varIndex
      BY <1>2, <1>5, FathersFine DEF Fine
    <3>3. /\ D \subseteq Int \X Int
          /\ \A p \in D : /\ p[1] >= Gen!FirstTemporary /\ p[1] < varIndex'
                          /\ p[2] \in Usable /\ p[2] < p[1]
                          /\ \A k \in 1 .. Len(father), s \in Slots :
                                father[k][s] # NULL => father[k][s] < p[1]
      BY <1>1, <1>5, <1>7, <1>16, <2>4, <3>2
    <3>4. merge' = merge \cup D /\ varIndex' \in Int /\ varIndex' >= varIndex
      BY <1>1, <1>16
    <3> HIDE DEF D
    <3> QED
      BY <1>13, <2>3, <3>1, <3>3, <3>4
  <2>9. \A s, r \in Slots : reg'[s] \in Made' /\ reg'[s] = reg'[r] => s[1] = r[1]
    BY <1>3, <2>1, <2>2, <2>5
  <2>10. \A s \in Slots : reg'[s] \in Usable \cup Made' \cup {NULL}
    BY <1>3, <2>1, <2>2
  <2> QED
    BY <1>1, <1>16, <2>1, <2>2, <2>3, <2>7, <2>8, <2>9, <2>10 DEF Brings, Made, Whole
<1> QED
  BY <1>14, <1>15, <1>16 DEF Changes, e, c, Made

(* More variables only add to what is in use.                              *)
LEMMA KnownGrow ==
    ASSUME IdsKnown, varIndex' \in Int, varIndex' >= varIndex, Usable \subseteq Usable',
           UNCHANGED <<standsFor, regPtr>>
    PROVE  /\ varIndex' \in Int /\ varIndex' >= Gen!FirstTemporary
           /\ PairsOrdered'
           /\ \A p \in standsFor' : p[1] \in Usable' /\ p[1] >= Gen!FirstTemporary
           /\ \A f \in DOMAIN regPtr' : Fine(regPtr[f].reg)'
<1>1. \A n \in Int : n >= varIndex => n >= Gen!FirstTemporary
  BY TemporaryNumber DEF IdsKnown
<1>2. PairsOrdered'
  BY DEF IdsKnown, PairsOrdered
<1>3. ASSUME NEW f \in DOMAIN regPtr' PROVE Fine(regPtr[f].reg)'
  BY DEF IdsKnown, Fine, Whole
<1> QED
  BY <1>1, <1>2, <1>3 DEF IdsKnown

LEMMA MergeIds ==
    ASSUME BaseInv, IdsInv, MergeRegister
    PROVE  IdsInv'
<1>1. Brings /\ Advances
  BY MergeCases, KeepBrings, ChangeBrings, MergeAdvances
<1>2. /\ UNCHANGED <<cfgVars, depth, step, block, father, regPtr, standsFor>> /\ step = "merge"
      /\ Len(father) > 1 /\ register' \in 1 .. 14 /\ register' # 0 /\ register # 0
      /\ register \in 1 .. 14 /\ branch \in 2 .. Len(father)
      /\ IF register < 14 THEN register' = register + 1 /\ branch' = branch
         ELSE register' = 1 /\ branch' = branch + 1
  BY <1>1 DEF Advances
<1>3. Len(father) \in Nat /\ FathersListed
  BY <1>2 DEF IdsInv, FathersListed
<1>4. IdsKnown'
  BY <1>1, <1>2, <1>3, KnownGrow DEF Brings, IdsInv, IdsKnown
<1>5. FathersListed'
  <2>1. \A b : Order!Merged(b)' = Order!Merged(b)
    BY <1>2, GraphKept
  <2>2. (Order!Merged(block))' = Order!Merged(block)
    BY <1>2, <2>1
  <2> QED
    BY <1>2, <1>3, <2>2 DEF FathersListed
<1>6. /\ branch' \in 2 .. Len(father) + 1 /\ (branch' > Len(father) => register' = 1)
  BY <1>2, <1>3
<1>7. ASSUME NEW s \in Slots
      PROVE  Held(s)' = {father'[k][s] : k \in 1 .. Done(s)'} \ {NULL}
  <2>1. /\ Done(s)' = IF Pos(s[1]) = register THEN Done(s) + 1 ELSE Done(s)
        /\ Done(s) \in Nat /\ (Pos(s[1]) = register => Done(s) = branch - 1)
    BY <1>1, <1>3, DoneMoves
  <2>2. Held(s) = {father[k][s] : k \in 1 .. Done(s)} \ {NULL}
    BY <1>2 DEF IdsInv, MergeSound, AllHeld
  <2>3. CASE Pos(s[1]) = register
    <3>1. Done(s)' = branch /\ Done(s) = branch - 1 /\ 1 .. branch = (1 .. branch - 1) \cup {branch}
      BY <1>2, <1>3, <2>1, <2>3
    <3>2. Held(s)' = Held(s) \cup ({father[branch][s]} \ {NULL})
      BY <1>1, <2>3 DEF Brings
    <3> QED
      BY <1>2, <2>2, <3>1, <3>2
  <2>4. CASE Pos(s[1]) # register
    BY <1>1, <1>2, <2>1, <2>2, <2>4 DEF Brings
  <2> QED
    BY <2>3, <2>4
<1>8. MergeSound'
  BY <1>1, <1>2, <1>6, <1>7 DEF Brings, MergeSound, AllHeld
<1> QED
  BY <1>4, <1>5, <1>8 DEF IdsInv

----------------------------------------------------------------------------
(* What an instruction may do to the registers.                            *)
LEMMA Operands ==
    ASSUME NEW i \in Bodies \cup {Jump}
    PROVE  /\ Slot(i.dst) = <<i.dst.reg, "E">> /\ Slot(i.src) = <<i.src.reg, "E">>
           /\ i.op \in {"DIV", "IDIV"} => i.src.size # 8
           /\ i.op \in {"LEA", "MOVZX", "MOVSX"} => IsRegister(i.dst)
           /\ i.op = "XOR" /\ i.dst = i.src => IsRegister(i.dst)
<1>1. CASE i = Jump
  BY <1>1 DEF Jump, Instr, NoOperand, Operand, Slot
<1>2. CASE i \in Bodies
  <2>1. i.dst.part = "E" /\ i.src.part = "E"
    BY <1>2, HunterAssumption
  <2> QED
    BY <1>2, <2>1, HunterAssumption DEF Slot
<1> QED
  BY <1>1, <1>2

LEMMA SameOperators ==
    /\ \A o : (Gen!IsRegister(o) <=> IsRegister(o)) /\ (Gen!IsMemory(o) <=> IsMemory(o))
    /\ \A o : (Gen!IsImmediate(o) <=> IsImmediate(o)) /\ Gen!Slot(o) = Slot(o)
    /\ \A i : Gen!UsesFrame(i) <=> UsesFrame(i)
    /\ \A R, s, v : Gen!SetRegister(R, s, v) = SetRegister(R, s, v)
<1>1. \A i : Gen!UsesFrame(i) <=> UsesFrame(i)
  BY DEF Gen!UsesFrame, UsesFrame, Gen!IsReg, IsReg
<1>2. \A R, s, v : Gen!SetRegister(R, s, v) = SetRegister(R, s, v)
  BY DEF Gen!SetRegister, SetRegister, Gen!Slots, Slots
<1>3. \A o : (Gen!IsRegister(o) <=> IsRegister(o)) /\ (Gen!IsMemory(o) <=> IsMemory(o))
  BY DEF Gen!IsRegister, IsRegister, Gen!IsMemory, IsMemory
<1>4. \A o : (Gen!IsImmediate(o) <=> IsImmediate(o)) /\ Gen!Slot(o) = Slot(o)
  BY DEF Gen!IsImmediate, IsImmediate, Gen!Slot, Slot
<1> QED
  BY <1>1, <1>2, <1>3, <1>4

(* A variable in memory has a number from before the function.             *)
InMemory(v) == v = NULL \/ (v \in Int /\ v < Gen!FirstTemporary)

LEMMA ValueCases ==
    ASSUME NEW o, varIndex \in Int
    PROVE  /\ Gen!Value(o).temps \in {0, 1}
           /\ Gen!Value(o).temps = 1 => Gen!Value(o).var = varIndex
           /\ IsRegister(o) => Gen!Value(o).temps = 0 /\ Gen!Value(o).var = reg[Slot(o)]
           /\ ~IsRegister(o) /\ Gen!Value(o).temps = 0 => InMemory(Gen!Value(o).var)
<1>1. \A v : Gen!Lookup(v).var = v /\ Gen!Lookup(v).temps = 0
  BY DEF Gen!Lookup
<1>2. CASE IsRegister(o)
  BY <1>1, <1>2, SameOperators DEF Gen!Value, IsRegister, Gen!Slot, Slot
<1>3. CASE IsMemory(o)
  <2>1. ASSUME NEW p PROVE \/ Gen!Pointee(p) = Gen!Lookup(NULL)
                           \/ Gen!Pointee(p).temps = 1 /\ Gen!Pointee(p).var = varIndex
    BY DEF Gen!Pointee, Gen!NewId
  <2>2. ASSUME NEW d
        PROVE  /\ InMemory(IF d \in StackOffsets THEN Gen!StackId(d) ELSE NULL)
               /\ InMemory(IF d \in AbsoluteOffsets THEN Gen!AbsoluteId(d) ELSE NULL)
    BY TemporaryNumber DEF InMemory
  <2>3. \/ \E v : InMemory(v) /\ Gen!MemoryVariable(o) = Gen!Lookup(v)
        \/ Gen!MemoryVariable(o).temps = 1 /\ Gen!MemoryVariable(o).var = varIndex
    <3>1. CASE o.reg \in {"ESP", "EBP"}
      <4> DEFINE d == IF o.reg = "ESP" THEN o.disp - esp ELSE o.disp
      <4>1. Gen!MemoryVariable(o) = Gen!Lookup(IF d \in StackOffsets THEN Gen!StackId(d) ELSE NULL)
        BY <3>1 DEF Gen!MemoryVariable
      <4> HIDE DEF d
      <4> QED
        BY <2>2, <4>1
    <3>2. CASE o.reg = "none" /\ o.index = "none"
      <4>1. Gen!MemoryVariable(o) =
              Gen!Lookup(IF o.disp \in AbsoluteOffsets THEN Gen!AbsoluteId(o.disp) ELSE NULL)
        BY <3>2 DEF Gen!MemoryVariable
      <4> QED
        BY <2>2, <4>1
    <3>3. CASE o.reg \notin {"ESP", "EBP"} /\ ~ (o.reg = "none" /\ o.index = "none")
      <4>1. Gen!MemoryVariable(o) = Gen!Pointee(reg[<<o.reg, "E">>])
        BY <3>3 DEF Gen!MemoryVariable
      <4> QED
        BY <2>1, <4>1 DEF InMemory
    <3> QED
      BY <3>1, <3>2, <3>3
  <2>4. Gen!Value(o) = Gen!MemoryVariable(o)
    BY <1>3 DEF Gen!Value, IsMemory
  <2>5. ~IsRegister(o)
    BY <1>3 DEF IsMemory, IsRegister
  <2> QED
    BY <1>1, <2>3, <2>4, <2>5
<1>4. CASE ~IsRegister(o) /\ ~IsMemory(o)
  <2>1. Gen!Value(o) = Gen!Lookup(NULL)
    BY <1>4 DEF Gen!Value, IsMemory, IsRegister
  <2> QED
    BY <1>1, <1>4, <2>1 DEF InMemory
<1> QED
  BY <1>2, <1>3, <1>4

Moves(i) == i.op = "MOV" /\ IsRegister(i.dst) /\ ~UsesFrame(i)
Clears(i) == i.op = "XOR" /\ i.dst = i.src /\ ~UsesFrame(i)
Sets(q, v) == reg' = SetRegister(reg, <<q, "E">>, v)
New(v) == v \in varIndex .. varIndex' - 1

MoveSets(i) ==
    \E v :
        /\ Sets(i.dst.reg, v)
        /\ \/ New(v)
           \/ ~IsRegister(i.src) /\ InMemory(v)
           \/ /\ IsRegister(i.src) /\ i.src.reg \in Quads \cup Singles
              /\ v = reg[<<i.src.reg, "E">>]

OthersSet ==
    \/ reg' = reg
    \/ \E q, v : New(v) /\ Sets(q, v)
    \/ \E q, v, r, u : /\ New(v) /\ New(u)
                       /\ reg' = SetRegister(SetRegister(reg, <<q, "E">>, v), <<r, "E">>, u)

LEMMA MoveOutcome ==
    ASSUME NEW i \in Bodies \cup {Jump}, Gen!MoveToRegister(i), varIndex \in Int
    PROVE  varIndex' \in Int /\ varIndex' >= varIndex /\ Moves(i) /\ MoveSets(i)
<1> DEFINE s == IF Gen!IsImmediate(i.src)
                THEN [var |-> Gen!NewId(1), temps |-> 1, out |-> <<>>] ELSE Gen!Value(i.src)
<1>1. reg' = Gen!SetRegister(reg, Gen!Slot(i.dst), s.var) /\ varIndex' = varIndex + s.temps
  BY DEF Gen!MoveToRegister
<1>2. Moves(i)
  BY SameOperators DEF Gen!MoveToRegister, Moves
<1>3. Sets(i.dst.reg, s.var)
  BY <1>1, SameOperators, Operands DEF Sets
<1>4. s.temps \in {0, 1} /\ (s.temps = 1 => s.var = varIndex)
      /\ (s.temps = 0 /\ ~IsRegister(i.src) => InMemory(s.var))
      /\ (s.temps = 0 /\ IsRegister(i.src) => s.var = reg[<<i.src.reg, "E">>])
  <2>1. CASE Gen!IsImmediate(i.src)
    <3>1. s = [var |-> Gen!NewId(1), temps |-> 1, out |-> <<>>]
      BY <2>1
    <3>2. Gen!NewId(1) = varIndex
      BY DEF Gen!NewId
    <3> HIDE DEF s
    <3> QED
      BY <3>1, <3>2
  <2>2. CASE ~Gen!IsImmediate(i.src)
    <3>1. s = Gen!Value(i.src)
      BY <2>2
    <3> HIDE DEF s
    <3> QED
      BY <3>1, ValueCases, Operands
  <2> QED
    BY <2>1, <2>2
<1>5. IsRegister(i.src) => i.src.reg \in Quads \cup Singles
  <2> SUFFICES ASSUME IsRegister(i.src) PROVE i.src.reg \in Quads \cup Singles
    OBVIOUS
  <2>1. ~Gen!AssertFails(i) /\ ~Gen!UsesFrame(i) /\ i.op = "MOV"
    BY DEF Gen!MoveToRegister, Gen!Handle
  <2>2. i.src \in Gen!Visited(i)
    <3>1. ~Gen!IsImmediate(i.src)
      BY DEF IsRegister, Gen!IsImmediate
    <3> QED
      BY <2>1, <3>1 DEF Gen!Visited
  <2>3. ~Gen!Unsupported(i.src)
    BY <2>1, <2>2 DEF Gen!AssertFails
  <2> QED
    BY <2>3 DEF Gen!Unsupported, Gen!Supported, Gen!IsRegister, IsRegister
<1> HIDE DEF s
<1>6. varIndex' \in Int /\ varIndex' >= varIndex /\ (s.temps = 1 => New(s.var))
  BY <1>1, <1>4 DEF New
<1>7. \/ New(s.var)
      \/ ~IsRegister(i.src) /\ InMemory(s.var)
      \/ IsRegister(i.src) /\ i.src.reg \in Quads \cup Singles /\ s.var = reg[<<i.src.reg, "E">>]
  BY <1>4, <1>5, <1>6
<1> QED
  BY <1>2, <1>3, <1>6, <1>7 DEF MoveSets

LEMMA IgnoreOutcome ==
    ASSUME NEW i \in Bodies \cup {Jump}, Gen!Ignore(i)
    PROVE  ~Moves(i) /\ ~Clears(i) /\ UNCHANGED <<reg, varIndex>>
<1>1. UsesFrame(i) \/ ~Gen!HasCase(i)
  BY SameOperators DEF Gen!Ignore
<1>2. IsRegister(i.dst) => ~IsMemory(i.dst)
  BY DEF IsRegister, IsMemory
<1> QED
  BY <1>1, <1>2, SameOperators DEF Gen!Ignore, Gen!HasCase, Moves, Clears

(* The instructions that compute: a new variable, or no change.            *)
LEMMA ComputeOutcome ==
    ASSUME NEW i \in Bodies \cup {Jump}, varIndex \in Int,
           \/ Gen!MoveToMemory(i) \/ Gen!Extend(i) \/ Gen!AddSub(i) \/ Gen!Compare(i)
           \/ Gen!IncDec(i) \/ Gen!Shift(i) \/ Gen!SetOnCondition(i) \/ Gen!LoadAddress(i)
           \/ Gen!Divide(i) \/ Gen!Call(i)
    PROVE  /\ varIndex' \in Int /\ varIndex' >= varIndex /\ ~Moves(i) /\ ~Clears(i) /\ OthersSet
<1> DEFINE d == Gen!Value(i.dst)
           s == Gen!Value(i.src)
<1>1. d.temps \in {0, 1} /\ s.temps \in {0, 1}
  BY ValueCases
<1>2. /\ Gen!Slot(i.dst) = <<i.dst.reg, "E">>
      /\ \A v : Gen!SetRegister(reg, Gen!Slot(i.dst), v) = SetRegister(reg, <<i.dst.reg, "E">>, v)
  BY SameOperators, Operands
<1>3. \A n : Gen!NewId(n) = varIndex + n - 1
  BY DEF Gen!NewId
<1>4. ASSUME NEW v, New(v), reg' = Gen!SetRegister(reg, Gen!Slot(i.dst), v) PROVE OthersSet
  BY <1>2, <1>4 DEF OthersSet, Sets
<1>5. ASSUME i.op \notin {"MOV", "XOR"} PROVE ~Moves(i) /\ ~Clears(i)
  BY <1>5 DEF Moves, Clears
<1> HIDE DEF d, s
<1>6. CASE Gen!MoveToMemory(i)
  <2>1. varIndex' = varIndex + d.temps /\ reg' = reg /\ i.op = "MOV" /\ IsMemory(i.dst)
    BY <1>6, SameOperators DEF Gen!MoveToMemory, d
  <2> QED
    BY <1>1, <2>1 DEF OthersSet, Moves, Clears, IsMemory, IsRegister
<1>7. CASE Gen!Extend(i)
  <2>1. /\ i.op \in {"MOVZX", "MOVSX"}
        /\ IF s.var = NULL THEN UNCHANGED <<reg, varIndex>>
           ELSE /\ reg' = Gen!SetRegister(reg, Gen!Slot(i.dst), Gen!NewId(s.temps + 1))
                /\ varIndex' = varIndex + s.temps + 1
    BY <1>7 DEF Gen!Extend, s
  <2>2. CASE s.var = NULL
    BY <1>5, <2>1, <2>2 DEF OthersSet
  <2>3. CASE s.var # NULL
    <3>1. New(Gen!NewId(s.temps + 1)) /\ varIndex' \in Int /\ varIndex' >= varIndex
      BY <1>1, <1>3, <2>1, <2>3 DEF New
    <3> QED
      BY <1>4, <1>5, <2>1, <2>3, <3>1
  <2> QED
    BY <2>2, <2>3
<1>8. CASE Gen!AddSub(i)
  <2> DEFINE r == Gen!IsRegister(i.dst) /\ Gen!BothKnown(i)
             n == d.temps + s.temps
  <2>1. /\ i.op \in {"ADD", "SUB"}
        /\ reg' = IF r THEN Gen!SetRegister(reg, Gen!Slot(i.dst),
                              IF Gen!IsMemory(i.dst) THEN NULL ELSE Gen!NewId(n + 1)) ELSE reg
        /\ varIndex' = varIndex + n + (IF r THEN 1 ELSE 0)
    BY <1>8 DEF Gen!AddSub, d, s
  <2>2. r => ~Gen!IsMemory(i.dst)
    BY DEF Gen!IsRegister, Gen!IsMemory
  <2> HIDE DEF r
  <2>3. n \in 0 .. 2
    BY <1>1
  <2> HIDE DEF n
  <2>4. CASE r
    <3>1. New(Gen!NewId(n + 1)) /\ varIndex' \in Int /\ varIndex' >= varIndex
      BY <1>3, <2>1, <2>3, <2>4 DEF New
    <3> QED
      BY <1>4, <1>5, <2>1, <2>2, <2>4, <3>1
  <2>5. CASE ~r
    BY <1>5, <2>1, <2>3, <2>5 DEF OthersSet
  <2> QED
    BY <2>4, <2>5
<1>9. CASE Gen!Compare(i)
  <2>1. varIndex' = varIndex + d.temps + s.temps /\ reg' = reg /\ i.op = "CMP"
    BY <1>9 DEF Gen!Compare, d, s
  <2> QED
    BY <1>1, <1>5, <2>1 DEF OthersSet
<1>10. CASE Gen!IncDec(i)
  <2>1. varIndex' = varIndex + d.temps /\ reg' = reg /\ i.op \in {"INC", "DEC"}
    BY <1>10 DEF Gen!IncDec, d
  <2> QED
    BY <1>1, <1>5, <2>1 DEF OthersSet
<1>11. CASE Gen!Shift(i)
  <2> DEFINE r == Gen!IsRegister(i.dst) /\ d.var # NULL
  <2>1. /\ i.op \in {"NEG", "NOT", "SHL", "SAR", "SHR"}
        /\ reg' = IF r THEN Gen!SetRegister(reg, Gen!Slot(i.dst),
                              IF Gen!IsMemory(i.dst) THEN NULL ELSE Gen!NewId(1)) ELSE reg
        /\ varIndex' = varIndex + (IF r THEN 1 ELSE 0)
    BY <1>11 DEF Gen!Shift, Gen!Shifts, d
  <2>2. r => ~Gen!IsMemory(i.dst)
    BY DEF Gen!IsRegister, Gen!IsMemory
  <2> HIDE DEF r
  <2>3. CASE r
    <3>1. New(Gen!NewId(1)) /\ varIndex' \in Int /\ varIndex' >= varIndex
      BY <1>3, <2>1, <2>3 DEF New
    <3> QED
      BY <1>4, <1>5, <2>1, <2>2, <2>3, <3>1
  <2>4. CASE ~r
    BY <1>5, <2>1, <2>4 DEF OthersSet
  <2> QED
    BY <2>3, <2>4
<1>12. CASE Gen!SetOnCondition(i)
  <2>1. i.op = "SET"
    BY <1>12 DEF Gen!SetOnCondition
  <2>2. CASE Gen!IsRegister(i.dst)
    <3>1. reg' = Gen!SetRegister(reg, Gen!Slot(i.dst), Gen!NewId(1)) /\ varIndex' = varIndex + 1
      BY <1>12, <2>2 DEF Gen!SetOnCondition
    <3>2. New(Gen!NewId(1)) /\ varIndex' \in Int /\ varIndex' >= varIndex
      BY <1>3, <3>1 DEF New
    <3> QED
      BY <1>4, <1>5, <2>1, <3>1, <3>2
  <2>3. CASE ~Gen!IsRegister(i.dst)
    <3>1. reg' = reg /\ varIndex' = varIndex + d.temps
      BY <1>12, <2>3 DEF Gen!SetOnCondition, d
    <3> QED
      BY <1>1, <1>5, <2>1, <3>1 DEF OthersSet
  <2> QED
    BY <2>2, <2>3
<1>13. CASE Gen!LoadAddress(i)
  <2>1. /\ i.op = "LEA"
        /\ \/ UNCHANGED <<reg, varIndex>>
           \/ /\ reg' = Gen!SetRegister(reg, Gen!Slot(i.dst), Gen!NewId(1))
              /\ varIndex' = varIndex + 1
    BY <1>13 DEF Gen!LoadAddress
  <2>2. CASE UNCHANGED <<reg, varIndex>>
    BY <1>5, <2>1, <2>2 DEF OthersSet
  <2>3. CASE /\ reg' = Gen!SetRegister(reg, Gen!Slot(i.dst), Gen!NewId(1))
             /\ varIndex' = varIndex + 1
    <3>1. New(Gen!NewId(1)) /\ varIndex' \in Int /\ varIndex' >= varIndex
      BY <1>3, <2>3 DEF New
    <3> QED
      BY <1>4, <1>5, <2>1, <2>3, <3>1
  <2> QED
    BY <2>1, <2>2, <2>3
<1>14. CASE Gen!Divide(i)
  <2> DEFINE v == Gen!NewId(d.temps + 1)
             u == Gen!NewId(d.temps + 2)
  <2>1. /\ i.op \in {"DIV", "IDIV"}
        /\ \/ /\ reg' = Gen!SetRegister(Gen!SetRegister(reg, Gen!QuotientSlot(i.src.size), v),
                                        Gen!RemainderSlot(i.src.size), u)
              /\ varIndex' = varIndex + d.temps + 2
           \/ reg' = reg /\ varIndex' = varIndex + d.temps
    BY <1>14 DEF Gen!Divide, d
  <2>2. Gen!QuotientSlot(i.src.size) = <<"EAX", "E">> /\ Gen!RemainderSlot(i.src.size) = <<"EDX", "E">>
    BY <2>1, Operands DEF Gen!QuotientSlot, Gen!RemainderSlot
  <2>3. v = varIndex + d.temps /\ u = varIndex + d.temps + 1
    BY <1>1, <1>3
  <2> HIDE DEF v, u
  <2>4. CASE reg' = reg /\ varIndex' = varIndex + d.temps
    BY <1>1, <1>5, <2>1, <2>4 DEF OthersSet
  <2>5. CASE /\ reg' = Gen!SetRegister(Gen!SetRegister(reg, Gen!QuotientSlot(i.src.size), v),
                                      Gen!RemainderSlot(i.src.size), u)
             /\ varIndex' = varIndex + d.temps + 2
    <3>1. New(v) /\ New(u) /\ varIndex' \in Int /\ varIndex' >= varIndex
      BY <1>1, <2>3, <2>5 DEF New
    <3>2. reg' = SetRegister(SetRegister(reg, <<"EAX", "E">>, v), <<"EDX", "E">>, u)
      BY <2>2, <2>5, SameOperators
    <3> QED
      BY <1>5, <2>1, <3>1, <3>2 DEF OthersSet
  <2> QED
    BY <2>1, <2>4, <2>5
<1>15. CASE Gen!Call(i)
  <2>1. /\ i.op = "CALL" /\ reg' = Gen!SetRegister(reg, <<"EAX", "E">>, Gen!NewId(1))
        /\ varIndex' = varIndex + 1
    BY <1>15 DEF Gen!Call
  <2>2. New(Gen!NewId(1)) /\ varIndex' \in Int /\ varIndex' >= varIndex
    BY <1>3, <2>1 DEF New
  <2>3. Sets("EAX", Gen!NewId(1))
    BY <2>1, SameOperators DEF Sets
  <2> QED
    BY <1>5, <2>1, <2>2, <2>3 DEF OthersSet
<1> QED
  BY <1>6, <1>7, <1>8, <1>9, <1>10, <1>11, <1>12, <1>13, <1>14, <1>15

LEMMA Outcomes ==
    ASSUME NEW i \in Bodies \cup {Jump}, Gen!Step(i), varIndex \in Int
    PROVE  /\ varIndex' \in Int /\ varIndex' >= varIndex
           /\ \/ UNCHANGED <<reg, varIndex>> /\ ended' # "no"
              \/ Moves(i) /\ MoveSets(i)
              \/ Clears(i) /\ IsRegister(i.dst) /\ Sets(i.dst.reg, NULL)
              \/ ~Moves(i) /\ ~Clears(i) /\ OthersSet
<1>1. CASE Gen!Abort(i)
  BY <1>1 DEF Gen!Abort
<1>2. CASE Gen!Ignore(i)
  BY <1>2, IgnoreOutcome DEF OthersSet
<1>3. CASE Gen!MoveToRegister(i)
  BY <1>3, MoveOutcome
<1>4. CASE Gen!ClearRegister(i)
  <2>1. /\ i.op = "XOR" /\ i.dst = i.src /\ ~UsesFrame(i) /\ varIndex' = varIndex
        /\ reg' = SetRegister(reg, Slot(i.dst), NULL)
    BY <1>4, SameOperators DEF Gen!ClearRegister
  <2> QED
    BY <2>1, Operands DEF Clears, Sets
<1>5. CASE \/ Gen!MoveToMemory(i) \/ Gen!Extend(i) \/ Gen!AddSub(i) \/ Gen!Compare(i)
           \/ Gen!IncDec(i) \/ Gen!Shift(i) \/ Gen!SetOnCondition(i) \/ Gen!LoadAddress(i)
           \/ Gen!Divide(i) \/ Gen!Call(i)
  BY <1>5, ComputeOutcome
<1> QED
  BY <1>1, <1>2, <1>3, <1>4, <1>5 DEF Gen!Step

Written(i, s) == s[1] = i.dst.reg /\ IsRegister(i.dst) /\ ~UsesFrame(i)
Below(n) == {v \in Int : v < n} \cup {NULL}

(* What an instruction leaves in one slot of the registers.                *)
Leaves(i, s) ==
    \/ New(reg'[s])
    \/ Loads(i) /\ Written(i, s) /\ InMemory(reg'[s])
    \/ /\ i.op = "MOV" /\ ~Loads(i) /\ Written(i, s)
       /\ <<i.src.reg, "E">> \in Slots /\ reg'[s] = reg[<<i.src.reg, "E">>]
    \/ i.op = "XOR" /\ i.dst = i.src /\ Written(i, s) /\ reg'[s] = NULL
    \/ /\ ~ (i.op = "MOV" /\ Written(i, s)) /\ ~ (i.op = "XOR" /\ i.dst = i.src /\ Written(i, s))
       /\ reg'[s] = reg[s]

LEMMA LoadWrites ==
    ASSUME NEW i, Loads(i), NEW s \in Slots, s[1] = i.dst.reg
    PROVE  Written(i, s)
<1>1. i.dst.reg \notin {"ESP", "EBP"}
  BY SlotNames
<1> QED
  BY <1>1 DEF Loads, Written, UsesFrame, IsReg, IsRegister

LEMMA SlotOutcome ==
    ASSUME NEW i \in Bodies \cup {Jump}, varIndex \in Int,
           \/ Moves(i) /\ MoveSets(i)
           \/ Clears(i) /\ IsRegister(i.dst) /\ Sets(i.dst.reg, NULL)
           \/ ~Moves(i) /\ ~Clears(i) /\ OthersSet,
           NEW s \in Slots
    PROVE  Leaves(i, s)
<1>1. ASSUME NEW q, NEW v, Sets(q, v) PROVE reg'[s] = IF s[1] = q THEN v ELSE reg[s]
  <2>1. \A r \in Slots : SetRegister(reg, <<q, "E">>, v)[r] = IF r[1] = q THEN v ELSE reg[r]
    BY DEF SetRegister
  <2>2. reg' = SetRegister(reg, <<q, "E">>, v)
    BY <1>1 DEF Sets
  <2> QED
    BY <2>1, <2>2
<1>2. CASE Moves(i) /\ MoveSets(i)
  <2>1. i.op = "MOV" /\ IsRegister(i.dst) /\ ~UsesFrame(i)
    BY <1>2 DEF Moves
  <2>2. PICK v : /\ Sets(i.dst.reg, v)
                 /\ \/ New(v)
                    \/ ~IsRegister(i.src) /\ InMemory(v)
                    \/ /\ IsRegister(i.src) /\ i.src.reg \in Quads \cup Singles
                       /\ v = reg[<<i.src.reg, "E">>]
    BY <1>2 DEF MoveSets
  <2>3. i.src.reg \in Quads \cup Singles => <<i.src.reg, "E">> \in Slots
    BY DEF Slots
  <2>4. CASE s[1] = i.dst.reg
    <3>1. reg'[s] = v /\ Written(i, s) /\ (Loads(i) <=> ~IsRegister(i.src))
      BY <1>1, <2>1, <2>2, <2>4 DEF Written, Loads
    <3> QED
      BY <2>1, <2>2, <2>3, <3>1 DEF Leaves
  <2>5. CASE s[1] # i.dst.reg
    <3>1. reg'[s] = reg[s] /\ ~Written(i, s)
      BY <1>1, <2>2, <2>5 DEF Written
    <3> QED
      BY <3>1 DEF Leaves
  <2> QED
    BY <2>4, <2>5
<1>3. CASE Clears(i) /\ IsRegister(i.dst) /\ Sets(i.dst.reg, NULL)
  <2>1. i.op = "XOR" /\ i.dst = i.src /\ ~UsesFrame(i)
    BY <1>3 DEF Clears
  <2>2. CASE s[1] = i.dst.reg
    BY <1>1, <1>3, <2>1, <2>2 DEF Leaves, Written
  <2>3. CASE s[1] # i.dst.reg
    BY <1>1, <1>3, <2>1, <2>3 DEF Leaves, Written
  <2> QED
    BY <2>2, <2>3
<1>4. CASE ~Moves(i) /\ ~Clears(i) /\ OthersSet
  <2>1. New(reg'[s]) \/ reg'[s] = reg[s]
    <3>1. ASSUME NEW q, NEW v, NEW r, NEW u, New(v), New(u),
                 reg' = SetRegister(SetRegister(reg, <<q, "E">>, v), <<r, "E">>, u)
          PROVE  New(reg'[s]) \/ reg'[s] = reg[s]
      <4>1. reg'[s] = IF s[1] = r THEN u ELSE SetRegister(reg, <<q, "E">>, v)[s]
        BY <3>1 DEF SetRegister
      <4>2. SetRegister(reg, <<q, "E">>, v)[s] = IF s[1] = q THEN v ELSE reg[s]
        BY DEF SetRegister
      <4> QED
        BY <3>1, <4>1, <4>2
    <3> QED
      BY <1>1, <1>4, <3>1 DEF OthersSet
  <2>2. ~ (i.op = "MOV" /\ Written(i, s)) /\ ~ (i.op = "XOR" /\ i.dst = i.src /\ Written(i, s))
    BY <1>4 DEF Moves, Clears, Written
  <2> QED
    BY <2>1, <2>2 DEF Leaves
<1> QED
  BY <1>2, <1>3, <1>4

LEMMA OutcomeFine ==
    ASSUME NEW i \in Bodies \cup {Jump}, Gen!Step(i), varIndex \in Int,
           varIndex >= Gen!FirstTemporary,
           Whole(reg), \A s \in Slots : reg[s] \in Below(varIndex)
    PROVE  Whole(reg)' /\ \A s \in Slots : reg'[s] \in Below(varIndex')
<1>1. varIndex' \in Int /\ varIndex' >= varIndex
  BY Outcomes
<1>2. Below(varIndex) \subseteq Below(varIndex')
  BY <1>1 DEF Below
<1>3. CASE UNCHANGED <<reg, varIndex>>
  BY <1>2, <1>3 DEF Whole
<1>4. CASE \/ Moves(i) /\ MoveSets(i)
           \/ Clears(i) /\ IsRegister(i.dst) /\ Sets(i.dst.reg, NULL)
           \/ ~Moves(i) /\ ~Clears(i) /\ OthersSet
  <2>1. \/ reg' = reg \/ \E q, v : Sets(q, v)
        \/ \E q, v, r, u : reg' = SetRegister(SetRegister(reg, <<q, "E">>, v), <<r, "E">>, u)
    BY <1>4 DEF MoveSets, OthersSet
  <2>2. Whole(reg)'
    <3>1. ASSUME NEW q, NEW v, Sets(q, v) PROVE Whole(reg')
      BY <3>1, SetWhole DEF Sets
    <3>2. reg' = reg => Whole(reg')
      BY DEF Whole
    <3>3. ASSUME NEW q, NEW v, NEW r, NEW u,
                 reg' = SetRegister(SetRegister(reg, <<q, "E">>, v), <<r, "E">>, u)
          PROVE  Whole(reg')
      <4>1. Whole(SetRegister(reg, <<q, "E">>, v))
        BY SetWhole
      <4>2. PICK R : R = SetRegister(reg, <<q, "E">>, v)
        OBVIOUS
      <4> QED
        BY <3>3, <4>1, <4>2, SetWhole
    <3>4. Whole(reg')
      <4>1. CASE reg' = reg
        BY <4>1, <3>2
      <4>2. CASE \E q, v : Sets(q, v)
        BY <4>2, <3>1
      <4>3. CASE \E q, v, r, u : reg' = SetRegister(SetRegister(reg, <<q, "E">>, v), <<r, "E">>, u)
        <5>1. PICK q, v, r, u : reg' = SetRegister(SetRegister(reg, <<q, "E">>, v), <<r, "E">>, u)
          BY <4>3
        <5> QED
          BY <5>1, <3>3
      <4> QED
        BY <2>1, <4>1, <4>2, <4>3
    <3> QED
      BY <3>4 DEF Whole
  <2>3. ASSUME NEW s \in Slots PROVE reg'[s] \in Below(varIndex')
    <3>1. Leaves(i, s)
      BY <1>4, SlotOutcome
    <3>2. New(reg'[s]) => reg'[s] \in Below(varIndex')
      BY <1>1 DEF New, Below
    <3>3. InMemory(reg'[s]) => reg'[s] \in Below(varIndex)
      BY TemporaryNumber DEF InMemory, Below
    <3>4. NULL \in Below(varIndex)
      BY DEF Below
    <3> QED
      BY <1>2, <3>1, <3>2, <3>3, <3>4 DEF Leaves
  <2> QED
    BY <2>2, <2>3
<1> QED
  BY <1>3, <1>4, Outcomes

----------------------------------------------------------------------------
(* The ids through the other steps.                                        *)
LEMMA UsableFind ==
    ASSUME step \in {"find", "infer"} \/ register = 0
    PROVE  Usable = {v \in Int : v < varIndex}
BY DEF Usable, Unfinished

LEMMA FineGrows ==
    ASSUME NEW R, Fine(R), Usable \subseteq Usable'
    PROVE  Fine(R)'
BY DEF Fine, Whole

LEMMA FindIds == ASSUME BaseInv, IdsInv, FindBlock PROVE IdsInv'
<1>1. /\ step = "find" /\ UNCHANGED <<cfgVars, depth, varIndex, regPtr, standsFor>>
      /\ varIndex \in Int /\ IdsKnown
  BY Finding DEF history, IdsInv, IdsKnown
<1>2. CASE UNCHANGED <<step, block, reg, flag, address, mergeOnly, analysed>>
  <2>1. UNCHANGED Usable
    BY <1>1, <1>2 DEF Usable, Unfinished
  <2> QED
    BY <1>1, <1>2, <2>1, KnownGrow DEF IdsInv, IdsKnown, FathersListed, MergeSound
<1>3. ASSUME NEW b \in Index \ analysed, b = block', Order!MergeVerdict(b) = "none",
             step' = "merge",
             LET fathers == InOrder(Order!Merged(b))
             IN  /\ reg' = FirstFather(fathers).reg
                 /\ father' = [k \in DOMAIN fathers |-> regPtr[fathers[k]].reg],
             merge' = {}, branch' = 2, register' = 1
      PROVE  IdsInv'
  <2> DEFINE S == Order!Merged(b)
             n == Cardinality(S)
  <2>1. /\ n \in Nat /\ (n = 0 <=> S = {})
        /\ InOrder(S) \in [1 .. n -> S] /\ \A f \in S : \E k \in 1 .. n : InOrder(S)[k] = f
        /\ \/ FirstFather(InOrder(S)) = [reg |-> NoVariables, esp |-> UNKNOWN, flag |-> Gen!NoFlag]
           \/ /\ 1 \in 1 .. n /\ InOrder(S)[1] \in S
              /\ FirstFather(InOrder(S)) = regPtr[InOrder(S)[1]]
    <3>1. blockNum \in Nat
      BY BlocksExist DEF BaseInv, FunctionInv
    <3> QED
      BY <3>1, MergedFinite, InOrderLists, FirstOfFathers
  <2>2. S \subseteq DOMAIN regPtr
    <3>1. FunctionInv /\ phase = "analyse"
      BY Finding DEF BaseInv
    <3> QED
      BY <1>1, <1>3, <3>1, MergeUsable DEF BaseInv, Placed
  <2>3. (Order!Merged(block))' = S
    <3>1. \A c : Order!Merged(c)' = Order!Merged(c)
      BY <1>1, GraphKept
    <3> QED
      BY <1>3, <3>1
  <2>4. reg' = FirstFather(InOrder(S)).reg
        /\ father' = [k \in DOMAIN InOrder(S) |-> regPtr[InOrder(S)[k]].reg]
    BY <1>3
  <2> HIDE DEF S, n
  <2>5. father' = [k \in 1 .. n |-> regPtr[InOrder(S)[k]].reg] /\ Len(father') = n
    <3>1. father' = [k \in 1 .. n |-> regPtr[InOrder(S)[k]].reg]
      BY <2>1, <2>4
    <3> QED
      BY <2>1, <3>1
  <2>6. FathersListed'
    BY <1>1, <2>1, <2>3, <2>5 DEF FathersListed
  <2>7. Usable' = Usable
    BY <1>1, <1>3 DEF Usable, Unfinished, Merge!Made
  <2>8. Fine(reg')
    <3>1. \A s \in Slots : NoVariables[s] = NULL /\ <<s[1], "E">> \in Slots
      BY SlotNames DEF NoVariables
    <3>2. Fine(NoVariables)
      BY <3>1 DEF Fine, Whole
    <3>3. \A f \in S : Fine(regPtr[f].reg)
      BY <1>1, <2>2 DEF IdsKnown
    <3> QED
      BY <2>1, <2>4, <3>2, <3>3
  <2>9. Fine(reg)'
    BY <2>7, <2>8 DEF Fine, Whole
  <2>10. IdsKnown'
    BY <1>1, <2>7, <2>9, KnownGrow DEF IdsKnown
  <2>11. ASSUME Len(father') > 1 PROVE MergeSound'
    <3>1. Merge!Made' = {} /\ IsFiniteSet(merge')
      BY <1>3, FS_EmptySet DEF Merge!Made
    <3>2. PairsNewer'
      BY <1>3, <3>1 DEF PairsNewer
    <3>3. reg' = father'[1]
      <4>1. S # {}
        BY <2>1, <2>5, <2>11
      <4>2. 1 \in 1 .. n
        BY <2>1, <2>5, <2>11
      <4>3. father'[1] = regPtr[InOrder(S)[1]].reg
        BY <2>5, <4>2
      <4>4. FirstFather(InOrder(S)) = regPtr[InOrder(S)[1]]
        <5>1. InOrder(S) # <<>>
          BY <2>1, <4>2
        <5> QED
          BY <5>1 DEF FirstFather
      <4> QED
        BY <2>4, <4>3, <4>4
    <3>4. ASSUME NEW s \in Slots
          PROVE  Held(s)' = {father'[k][s] : k \in 1 .. Done(s)'} \ {NULL}
      <4>1. Pos(s[1]) \in 1 .. 6
        BY WholesFirst
      <4>2. Done(s)' = 1 /\ 1 .. 1 = {1}
        BY <1>3, <4>1 DEF Done
      <4>3. Held(s)' = {reg'[s]} \ {NULL}
        BY <3>1 DEF Held
      <4> QED
        BY <3>3, <4>2, <4>3
    <3>5. branch' \in 2 .. Len(father') + 1 /\ register' \in 1 .. 14
      BY <1>3, <2>1, <2>5, <2>11
    <3>6. /\ Whole(reg)' /\ \A s \in Slots : reg'[s] \in Usable' \cup {NULL}
      BY <2>9 DEF Fine
    <3>7. (branch' > Len(father')) => register' = 1
      BY <1>3
    <3> QED
      BY <3>1, <3>2, <3>4, <3>5, <3>6, <3>7 DEF MergeSound, AllHeld
  <2> QED
    BY <2>6, <2>10, <2>11 DEF IdsInv, MergeSound
<1> QED
  BY <1>2, <1>3, Finding

LEMMA StateIds == ASSUME BaseInv, IdsInv, StateMerge PROVE IdsInv'
<1>1. /\ step = "merge" /\ Len(father) > 1 /\ register = 1 /\ register' = 0
      /\ UNCHANGED <<cfgVars, depth, step, block, father, reg, merge, varIndex, regPtr>>
      /\ standsFor' = standsFor \cup merge
  BY DEF StateMerge, Merge!Emit, orderOnly, orderVars
<1>2. /\ PairsNewer /\ Whole(reg) /\ varIndex \in Int
      /\ \A s \in Slots : reg[s] \in Usable \cup Merge!Made \cup {NULL}
  BY <1>1 DEF IdsInv, IdsKnown, MergeSound
<1>3. /\ Usable' = {v \in Int : v < varIndex} /\ Usable \subseteq Usable'
      /\ Merge!Made \subseteq Usable'
  <2>1. Usable' = {v \in Int : v < varIndex}
    BY <1>1 DEF Usable, Unfinished
  <2>2. Usable \subseteq {v \in Int : v < varIndex}
    BY DEF Usable
  <2> QED
    BY <1>2, <2>1, <2>2, MadeIds
<1>4. Fine(reg)'
  BY <1>1, <1>2, <1>3 DEF Fine, Whole
<1>5. \A p \in merge : p[1] \in Usable' /\ p[1] >= Gen!FirstTemporary
                       /\ p[1] \in Int /\ p[2] \in Int /\ p[2] < p[1]
  BY <1>2, <1>3 DEF PairsNewer
<1>6. \A p \in standsFor : p[1] \in Usable' /\ p[1] >= Gen!FirstTemporary
                           /\ p[1] \in Int /\ p[2] \in Int /\ p[2] < p[1]
  BY <1>3 DEF IdsInv, IdsKnown, PairsOrdered
<1>7. PairsOrdered'
  <2>1. IsFiniteSet(standsFor) /\ IsFiniteSet(merge)
    BY <1>2 DEF PairsNewer, IdsInv, IdsKnown, PairsOrdered
  <2>2. IsFiniteSet(standsFor')
    BY <1>1, <2>1, FS_Union
  <2> QED
    BY <1>1, <1>5, <1>6, <2>2 DEF PairsOrdered
<1>8. \A f \in DOMAIN regPtr' : Fine(regPtr[f].reg)'
  <2>1. \A f \in DOMAIN regPtr : Fine(regPtr[f].reg)
    BY DEF IdsInv, IdsKnown
  <2> QED
    BY <1>1, <1>3, <2>1 DEF Fine, Whole
<1>9. IdsKnown'
  <2>1. varIndex' \in Int /\ varIndex' >= Gen!FirstTemporary
    BY <1>1 DEF IdsInv, IdsKnown
  <2>2. \A p \in standsFor' : p[1] \in Usable' /\ p[1] >= Gen!FirstTemporary
    BY <1>1, <1>5, <1>6
  <2> QED
    BY <1>1, <1>4, <1>7, <1>8, <2>1, <2>2 DEF IdsKnown
<1>10. FathersListed'
  <2>1. (Order!Merged(block))' = Order!Merged(block)
    BY <1>1, GraphKept
  <2> QED
    BY <1>1, <2>1 DEF IdsInv, FathersListed
<1> QED
  BY <1>1, <1>9, <1>10 DEF IdsInv, MergeSound

LEMMA EnterIds == ASSUME BaseInv, IdsInv, EnterBlock PROVE IdsInv'
<1>1. /\ step = "merge" /\ step' = "infer" /\ UNCHANGED <<reg, varIndex, regPtr, standsFor>>
      /\ Len(father) > 1 => register = 0
  BY DEF EnterBlock, history
<1>2. Fine(reg)
  <2>1. Len(father) \in Nat
    BY <1>1 DEF IdsInv, FathersListed
  <2>2. register = 0 \/ Len(father) < 2
    BY <1>1, <2>1
  <2> QED
    BY <1>1, <2>2 DEF IdsInv, IdsKnown
<1>3. varIndex \in Int /\ Usable \subseteq Usable'
  BY <1>1 DEF IdsInv, IdsKnown, Usable, Unfinished
<1>4. Fine(reg)'
  BY <1>1, <1>2, <1>3 DEF Fine, Whole
<1> QED
  BY <1>1, <1>3, <1>4, KnownGrow DEF IdsInv, IdsKnown, FathersListed, MergeSound

LEMMA InferIds == ASSUME BaseInv, Inside, IdsInv, InferInstruction PROVE IdsInv'
<1>1. /\ step = "infer" /\ UNCHANGED <<step, regPtr, standsFor>>
      /\ Gen!Step(body[address])
  BY DEF InferInstruction
<1>2. body[address] \in Bodies \cup {Jump}
  <2>1. block \in Index /\ address \in StartAddr(block) .. EndAddr(block)
        /\ address < EndAddr(block)
    BY <1>1 DEF BaseInv, Placed, InferInstruction, More
  <2>2. address \in DOMAIN code
    BY <2>1, InsideSpan DEF BaseInv
  <2> QED
    BY <2>2 DEF BaseInv, Decoding
<1>3. varIndex \in Int /\ varIndex >= Gen!FirstTemporary /\ Fine(reg)
  BY <1>1 DEF IdsInv, IdsKnown
<1>4. Usable = {v \in Int : v < varIndex} /\ Usable' = {v \in Int : v < varIndex'}
  BY <1>1 DEF Usable, Unfinished
<1>5. varIndex' \in Int /\ varIndex' >= varIndex
  BY <1>1, <1>2, <1>3, Outcomes
<1>6. Usable \subseteq Usable'
  BY <1>3, <1>4, <1>5
<1>7. Whole(reg)' /\ \A s \in Slots : reg'[s] \in Below(varIndex')
  <2>1. Whole(reg) /\ \A s \in Slots : reg[s] \in Below(varIndex)
    BY <1>3, <1>4 DEF Fine, Below
  <2> QED
    BY <1>1, <1>2, <1>3, <2>1, OutcomeFine
<1>8. Fine(reg)'
  BY <1>4, <1>7 DEF Fine, Below
<1> QED
  BY <1>1, <1>5, <1>6, <1>8, KnownGrow DEF IdsInv, IdsKnown, FathersListed, MergeSound

LEMMA LeaveIds == ASSUME BaseInv, IdsInv, LeaveBlock PROVE IdsInv'
<1>1. /\ step = "infer" /\ step' = "find" /\ UNCHANGED <<varIndex, standsFor>>
      /\ \A f \in DOMAIN regPtr' : \/ regPtr'[f].reg = reg
                                   \/ f \in DOMAIN regPtr /\ regPtr'[f] = regPtr[f]
  BY DEF LeaveBlock, history
<1>2. Usable' = Usable /\ Fine(reg)
  BY <1>1 DEF Usable, Unfinished, IdsInv, IdsKnown
<1>3. \A f \in DOMAIN regPtr' : Fine(regPtr'[f].reg)
  BY <1>1, <1>2 DEF IdsInv, IdsKnown
<1>4. \A f \in DOMAIN regPtr' : Fine(regPtr[f].reg)'
  BY <1>2, <1>3 DEF Fine, Whole
<1> QED
  BY <1>1, <1>2, <1>4 DEF IdsInv, IdsKnown, FathersListed, MergeSound, PairsOrdered

(* Before the first block there is no variable but those in memory.        *)
Ids ==
    /\ analysed = {} => standsFor = {} /\ varIndex = Gen!FirstTemporary
    /\ Inside => IdsInv

LEMMA NoneYet ==
    ASSUME step = "find", DOMAIN regPtr = {}, standsFor = {}, varIndex = Gen!FirstTemporary
    PROVE  IdsInv
<1>1. varIndex \in Int /\ varIndex >= Gen!FirstTemporary
  BY TemporaryNumber
<1> QED
  BY <1>1, FS_EmptySet DEF IdsInv, IdsKnown, FathersListed, MergeSound, PairsOrdered

LEMMA IdsInit == HunterInit => Ids
<1> SUFFICES ASSUME HunterInit PROVE Ids
  OBVIOUS
<1>1. step = "find" /\ DOMAIN regPtr = {} /\ standsFor = {} /\ varIndex = Gen!FirstTemporary
  BY DEF HunterInit, Gen!Init
<1> QED
  BY <1>1, NoneYet DEF Ids

(* Whatever leaves all of this as it is.                                   *)
LEMMA IdsSame ==
    ASSUME IdsInv, UNCHANGED <<cfgVars, depth, step, block, reg, varIndex, regPtr, mergeOnly, standsFor>>
    PROVE  IdsInv'
<1>1. UNCHANGED <<father, merge, branch, register>>
  BY DEF mergeOnly
<1>2. (Order!Merged(block))' = Order!Merged(block)
  BY GraphKept
<1>3. Merge!Made' = Merge!Made
  BY <1>1 DEF Merge!Made
<1>4. Usable' = Usable
  BY <1>1, <1>3 DEF Usable, Unfinished
<1>5. \A R : Fine(R)' <=> Fine(R)
  BY <1>4 DEF Fine, Whole
<1>6. IdsKnown'
  BY <1>1, <1>4, KnownGrow DEF IdsInv, IdsKnown, Fine, Whole
<1>7. FathersListed'
  BY <1>1, <1>2 DEF IdsInv, FathersListed
<1>8. \A s : Held(s)' = Held(s) /\ Done(s)' = Done(s)
  BY <1>1, <1>3 DEF Held, Done
<1>9. PairsNewer' <=> PairsNewer
  BY <1>1, <1>4 DEF PairsNewer
<1>10. AllHeld' <=> AllHeld
  BY <1>1, <1>8 DEF AllHeld
<1>11. Whole(reg)' <=> Whole(reg)
  BY DEF Whole
<1>12. MergeSound'
  BY <1>1, <1>3, <1>4, <1>9, <1>10, <1>11 DEF IdsInv, MergeSound
<1> QED
  BY <1>6, <1>7, <1>12 DEF IdsInv

LEMMA IdsStep == BaseInv /\ Ids /\ [HunterNext]_hunterVars => Ids'
<1> SUFFICES ASSUME BaseInv, Ids, [HunterNext]_hunterVars PROVE Ids'
  OBVIOUS
<1>1. CASE UNCHANGED hunterVars
  <2>1. /\ UNCHANGED <<cfgVars, depth, analysed>>
        /\ UNCHANGED <<step, block, reg, varIndex, regPtr, mergeOnly, standsFor>>
    BY <1>1 DEF hunterVars, orderOnly, orderVars, history
  <2>2. (Inside' <=> Inside) /\ (Inside => IdsInv')
    BY <2>1, GraphKept, IdsSame DEF Ids
  <2>3. Gen!FirstTemporary' = Gen!FirstTemporary
    BY DEF Gen!FirstTemporary
  <2> QED
    BY <2>1, <2>2, <2>3 DEF Ids
<1>2. CASE Prepare
  <2>1. /\ step = "find" /\ UNCHANGED <<step, block, reg, varIndex, regPtr, mergeOnly, standsFor>>
        /\ analysed' = analysed
    BY <1>2 DEF Prepare, BuildGraph, CfgNext, ScanPlain, ScanJump, ScanBranch, ScanBad, ScanEnd,
         Join, JoinSkip, JoinEntry, JoinEnd, BuildMatrix, StartOrder, orderVars, Order!Pop,
         Order!Reach, Order!Skip, Order!CalcDone, Order!Deepen, Order!Finish, history
  <2>2. Gen!FirstTemporary' = Gen!FirstTemporary
    BY DEF Gen!FirstTemporary
  <2>3. CASE analysed = {}
    <3>1. DOMAIN regPtr = {} /\ standsFor = {} /\ varIndex = Gen!FirstTemporary
      BY <2>1, <2>3 DEF BaseInv, Placed, Ids
    <3>2. IdsInv'
      <4>1. IdsInv
        BY <2>1, <3>1, NoneYet
      <4>2. step' = "find" /\ UNCHANGED <<varIndex, regPtr, standsFor>>
        BY <2>1
      <4>3. Usable' = Usable
        BY <2>1, <4>2 DEF Usable, Unfinished
      <4> QED
        BY <2>1, <4>1, <4>2, <4>3, KnownGrow DEF IdsInv, IdsKnown, FathersListed, MergeSound
    <3> QED
      BY <2>1, <2>2, <3>1, <3>2 DEF Ids
  <2>4. CASE analysed # {}
    <3>1. UNCHANGED <<cfgVars, depth>>
      BY <1>2, <2>4, PreparesNothing
    <3>2. (Inside' <=> Inside) /\ (Inside => IdsInv')
      BY <2>1, <3>1, GraphKept, IdsSame DEF Ids
    <3> QED
      BY <2>1, <2>4, <3>2 DEF Ids
  <2> QED
    BY <2>3, <2>4
<1>3. CASE FindBlock
  <2>1. /\ UNCHANGED <<cfgVars, depth, varIndex, standsFor>>
        /\ analysed' = {} => analysed = {}
    BY <1>3, Finding DEF history
  <2>2. Inside => IdsInv'
    BY <1>3, FindIds DEF Ids
  <2>3. Inside' <=> Inside
    BY <2>1, GraphKept
  <2> QED
    BY <2>1, <2>2, <2>3 DEF Ids, Gen!FirstTemporary
<1>4. CASE MergeRegister \/ StateMerge \/ EnterBlock \/ InferInstruction \/ LeaveBlock
  <2>1. UNCHANGED <<cfgVars, depth, analysed>> /\ analysed # {}
    BY <1>4 DEF MergeRegister, StateMerge, EnterBlock, InferInstruction, LeaveBlock, orderOnly,
                orderVars, BaseInv, Placed
  <2>2. Inside => IdsInv'
    BY <1>4, MergeIds, StateIds, EnterIds, InferIds, LeaveIds DEF Ids
  <2>3. Inside' <=> Inside
    BY <2>1, GraphKept
  <2> QED
    BY <2>1, <2>2, <2>3 DEF Ids
<1> QED
  BY <1>1, <1>2, <1>3, <1>4 DEF HunterNext

LEMMA IdsInvariance == HunterSpec => []Ids
BY BaseInvariance, IdsInit, IdsStep, PTL DEF HunterSpec

----------------------------------------------------------------------------
(* The values, whatever the variables that merges made stand for.          *)
Of(O, v) == IF v = NULL THEN {} ELSE O[v]

Means(O) ==
    \A v \in Usable :
        O[v] = IF v \in Stood THEN UNION {O[p[2]] : p \in {p \in standsFor : p[1] = v}} ELSE {v}

LeftMean(T, O) ==
    \A f \in DOMAIN regPtr : \A s \in Slots :
        Of(O, regPtr[f].reg[s]) = T[f][EndAddr(f)].values[s]

ValuesFollow ==
    Inside => \A w, T, O : Solution(w, T) /\ Means(O) =>
        /\ LeftMean(T, O)
        /\ step = "merge" /\ (register = 0 \/ Len(father) < 2) =>
                \A s \in Slots : Of(O, reg[s]) = w[block].values[s]
        /\ step = "infer" => \A t : Runs(t, block, address, w[block]) =>
                \A s \in Slots : Of(O, reg[s]) = t[address].values[s]

LEMMA MeansKept ==
    ASSUME Usable \subseteq Usable', UNCHANGED standsFor, NEW O, Means(O)'
    PROVE  Means(O)
BY DEF Means, Stood

(* What the fathers bring is what comes to the block.                      *)
LEMMA FathersBring ==
    ASSUME BaseInv, IdsInv, step = "merge", NEW w, NEW T, NEW O, Solution(w, T),
           LeftMean(T, O), NEW s \in Slots
    PROVE  w[block].values[s] = UNION {Of(O, father[k][s]) : k \in 1 .. Len(father)}
<1>1. block \in analysed /\ Order!Merged(block) \subseteq DOMAIN regPtr
  BY DEF BaseInv, Placed, Ready
<1>2. w[block].values[s] = UNION {T[f][EndAddr(f)].values[s] : f \in Order!Merged(block)}
  BY <1>1 DEF Solution
<1>3. \A f \in Order!Merged(block) : T[f][EndAddr(f)].values[s] = Of(O, regPtr[f].reg[s])
  BY <1>1 DEF LeftMean
<1>4. /\ \A k \in 1 .. Len(father) : \E f \in Order!Merged(block) : father[k] = regPtr[f].reg
      /\ \A f \in Order!Merged(block) : \E k \in 1 .. Len(father) : father[k] = regPtr[f].reg
  BY DEF IdsInv, FathersListed
<1>5. {T[f][EndAddr(f)].values[s] : f \in Order!Merged(block)}
        = {Of(O, father[k][s]) : k \in 1 .. Len(father)}
  <2>1. ASSUME NEW f \in Order!Merged(block)
        PROVE  \E k \in 1 .. Len(father) : T[f][EndAddr(f)].values[s] = Of(O, father[k][s])
    BY <1>3, <1>4
  <2>2. ASSUME NEW k \in 1 .. Len(father)
        PROVE  \E f \in Order!Merged(block) : T[f][EndAddr(f)].values[s] = Of(O, father[k][s])
    BY <1>3, <1>4
  <2> QED
    BY <2>1, <2>2
<1> QED
  BY <1>2, <1>5

LEMMA PrepareValues ==
    ASSUME BaseInv, Ids, ValuesFollow, Prepare PROVE ValuesFollow'
<1>1. /\ step = "find" /\ UNCHANGED <<body, step, block, regPtr, varIndex, history>>
      /\ analysed' = analysed /\ code' = code
  BY DEF Prepare, BuildGraph, CfgNext, ScanPlain, ScanJump, ScanBranch, ScanBad, ScanEnd, Join,
         JoinSkip, JoinEntry, JoinEnd, BuildMatrix, StartOrder, orderVars, cfgVars, Order!Pop,
         Order!Reach, Order!Skip, Order!CalcDone, Order!Deepen, Order!Finish
<1>2. DOMAIN regPtr = analysed
  BY <1>1 DEF BaseInv, Placed
<1>3. CASE analysed = {}
  BY <1>1, <1>2, <1>3 DEF ValuesFollow, LeftMean
<1>4. CASE analysed # {}
  <2>1. UNCHANGED <<cfgVars, depth>>
    BY <1>4, PreparesNothing
  <2>2. SUFFICES ASSUME Inside', NEW w, NEW T, NEW O, Solution(w, T)', Means(O)',
                        NEW f \in DOMAIN regPtr', NEW s \in Slots
                 PROVE  (Of(O, regPtr[f].reg[s]) = T[f][EndAddr(f)].values[s])'
    BY <1>1 DEF ValuesFollow, LeftMean
  <2>3. Inside /\ EndAddr(f)' = EndAddr(f) /\ f \in DOMAIN regPtr
    BY <1>1, <2>1, <2>2, GraphKept
  <2>4. Solution(w, T)
    BY <1>1, <2>1, <2>2, <2>3, SolutionKept DEF history
  <2>5. Means(O)
    <3>1. Usable' = Usable
      BY <1>1 DEF Usable, Unfinished
    <3> QED
      BY <1>1, <2>2, <3>1, MeansKept DEF history
  <2>6. Of(O, regPtr[f].reg[s]) = T[f][EndAddr(f)].values[s]
    BY <2>3, <2>4, <2>5 DEF ValuesFollow, LeftMean
  <2> QED
    BY <1>1, <2>3, <2>6 DEF Of
<1> QED
  BY <1>3, <1>4

LEMMA FindValues ==
    ASSUME BaseInv, Ids, Ids', ValuesFollow, FindBlock PROVE ValuesFollow'
<1>1. /\ step = "find" /\ UNCHANGED <<cfgVars, depth, body, varIndex, regPtr, history>>
  BY Finding
<1>2. SUFFICES ASSUME Inside', NEW w, NEW T, NEW O, Solution(w, T)', Means(O)'
               PROVE  /\ \A f \in DOMAIN regPtr' : \A s \in Slots :
                            (Of(O, regPtr[f].reg[s]) = T[f][EndAddr(f)].values[s])'
                      /\ step' = "merge" /\ Len(father') < 2 =>
                            \A s \in Slots : Of(O, reg'[s]) = w[block'].values[s]
                      /\ step' # "infer" /\ (step' = "merge" => register' # 0)
  BY DEF ValuesFollow, LeftMean, Of
<1>3. Inside /\ Solution(w, T)
  BY <1>1, <1>2, GraphKept, SolutionsRemain
<1>4. Means(O)
  <2>1. step' = "merge" => merge' = {}
    BY <1>1, Finding
  <2>2. step' \in {"find", "merge"}
    BY <1>1, Finding
  <2>3. Usable' = Usable
    BY <1>1, <2>1, <2>2 DEF Usable, Unfinished, Merge!Made
  <2> QED
    BY <1>1, <1>2, <2>3, MeansKept DEF history
<1>5. \A f \in DOMAIN regPtr : \A s \in Slots :
        Of(O, regPtr[f].reg[s]) = T[f][EndAddr(f)].values[s]
  BY <1>3, <1>4 DEF ValuesFollow, LeftMean
<1>6. \A b : EndAddr(b)' = EndAddr(b) /\ Order!Merged(b)' = Order!Merged(b)
  BY <1>1, GraphKept
<1>7. \A f \in DOMAIN regPtr' : \A s \in Slots :
        (Of(O, regPtr[f].reg[s]) = T[f][EndAddr(f)].values[s])'
  BY <1>1, <1>5, <1>6 DEF Of
<1>8. CASE UNCHANGED <<step, block, reg, flag, address, mergeOnly, analysed>>
  BY <1>1, <1>7, <1>8
<1>9. ASSUME NEW b \in Index \ analysed, b = block', analysed' = analysed \cup {b},
             Order!MergeVerdict(b) = "none", step' = "merge", Len(father') < 2,
             LET fathers == InOrder(Order!Merged(b))
             IN  /\ reg' = FirstFather(fathers).reg
                 /\ father' = [k \in DOMAIN fathers |-> regPtr[fathers[k]].reg],
             NEW s \in Slots
      PROVE  Of(O, reg'[s]) = w[b].values[s]
  <2> DEFINE S == Order!Merged(b)
             n == Cardinality(S)
  <2>1. /\ n \in Nat /\ (n = 0 <=> S = {})
        /\ InOrder(S) \in [1 .. n -> S] /\ \A f \in S : \E k \in 1 .. n : InOrder(S)[k] = f
        /\ \/ /\ S = {}
              /\ FirstFather(InOrder(S)) = [reg |-> NoVariables, esp |-> UNKNOWN, flag |-> Gen!NoFlag]
           \/ /\ 1 \in 1 .. n /\ InOrder(S)[1] \in S
              /\ FirstFather(InOrder(S)) = regPtr[InOrder(S)[1]]
    <3>1. blockNum \in Nat
      BY BlocksExist DEF BaseInv, FunctionInv
    <3> QED
      BY <3>1, MergedFinite, InOrderLists, FirstOfFathers
  <2>2. S \subseteq DOMAIN regPtr
    <3>1. FunctionInv /\ phase = "analyse"
      BY Finding DEF BaseInv
    <3> QED
      BY <1>1, <1>9, <3>1, MergeUsable DEF BaseInv, Placed
  <2>3. w[b].values[s] = UNION {T[f][EndAddr(f)].values[s] : f \in S}
    <3>1. \A c \in analysed' : w[c].values[s] =
            UNION {(T[f][EndAddr(f)].values[s])' : f \in (Order!Merged(c))'}
      BY <1>2 DEF Solution
    <3>2. w[b].values[s] = UNION {(T[f][EndAddr(f)].values[s])' : f \in (Order!Merged(b))'}
      BY <1>9, <3>1
    <3>3. (Order!Merged(b))' = S /\ \A f : (T[f][EndAddr(f)].values[s])' = T[f][EndAddr(f)].values[s]
      BY <1>6
    <3> QED
      BY <3>2, <3>3
  <2>4. reg' = FirstFather(InOrder(S)).reg
        /\ father' = [k \in DOMAIN InOrder(S) |-> regPtr[InOrder(S)[k]].reg]
    BY <1>9
  <2> HIDE DEF S, n
  <2>5. Len(father') = n
    <3>1. father' = [k \in 1 .. n |-> regPtr[InOrder(S)[k]].reg]
      BY <2>1, <2>4
    <3> QED
      BY <2>1, <3>1
  <2>6. CASE S = {}
    <3>1. reg' = NoVariables
      BY <2>1, <2>4, <2>6
    <3> QED
      BY <2>3, <2>6, <3>1 DEF Of, NoVariables
  <2>7. CASE S # {}
    <3>1. n = 1 /\ 1 .. 1 = {1}
      BY <1>9, <2>1, <2>5, <2>7
    <3> DEFINE g == InOrder(S)[1]
    <3>2. S = {g}
      BY <2>1, <3>1
    <3>3. reg' = regPtr[g].reg /\ g \in DOMAIN regPtr
      BY <2>1, <2>2, <2>4, <2>7
    <3> HIDE DEF g
    <3>4. Of(O, regPtr[g].reg[s]) = T[g][EndAddr(g)].values[s]
      BY <1>5, <3>3
    <3> QED
      BY <2>3, <3>2, <3>3, <3>4
  <2> QED
    BY <2>6, <2>7
<1> QED
  BY <1>1, <1>7, <1>8, <1>9, Finding

(* When a merge is over, what a register holds stands for what all fathers *)
(* held in it.                                                             *)
LEMMA MergedMeans ==
    ASSUME BaseInv, IdsInv, StateMerge, NEW O, Means(O)', NEW s \in Slots
    PROVE  Of(O, reg'[s]) = UNION {Of(O, father[k][s]) : k \in 1 .. Len(father)}
<1>1. /\ step = "merge" /\ Len(father) > 1 /\ register = 1 /\ branch = Len(father) + 1
      /\ register' = 0 /\ UNCHANGED <<reg, varIndex>> /\ standsFor' = standsFor \cup merge
  BY DEF StateMerge, Merge!Emit
<1>2. Len(father) \in Nat
  BY <1>1 DEF IdsInv, FathersListed
<1>3. /\ PairsNewer /\ AllHeld /\ varIndex \in Int
      /\ reg[s] \in Usable \cup Merge!Made \cup {NULL}
  BY <1>1 DEF IdsInv, IdsKnown, MergeSound
<1>4. Done(s) = Len(father)
  <2>1. ~ (Pos(s[1]) < register)
    BY <1>1, WholesFirst
  <2> QED
    BY <1>1, <1>2, <2>1 DEF Done
<1>5. Held(s) = {father[k][s] : k \in 1 .. Len(father)} \ {NULL}
  BY <1>3, <1>4 DEF AllHeld
<1>6. UNION {Of(O, father[k][s]) : k \in 1 .. Len(father)} = UNION {O[v] : v \in Held(s)}
  BY <1>5 DEF Of
<1>7. NULL \notin Merge!Made /\ Merge!Made \subseteq Usable'
  <2>1. Usable' = {v \in Int : v < varIndex}
    BY <1>1 DEF Usable, Unfinished
  <2> QED
    BY <1>3, <2>1, MadeIds
<1>8. CASE reg[s] \in Merge!Made
  <2>1. Held(s) = {p[2] : p \in {p \in merge : p[1] = reg[s]}}
    BY <1>8 DEF Held
  <2>2. \A p \in standsFor : p[1] \notin Merge!Made
    <3>1. Usable \cap Merge!Made = {}
      BY <1>1 DEF Usable, Unfinished
    <3> QED
      BY <3>1 DEF IdsInv, IdsKnown
  <2>3. {p \in standsFor' : p[1] = reg[s]} = {p \in merge : p[1] = reg[s]}
    BY <1>1, <1>8, <2>2
  <2>4. reg[s] \in Stood'
    BY <1>1, <1>8 DEF Stood, Merge!Made
  <2>5. O[reg[s]] = UNION {O[p[2]] : p \in {p \in standsFor' : p[1] = reg[s]}}
    BY <1>7, <1>8, <2>4 DEF Means
  <2>6. {O[p[2]] : p \in {p \in merge : p[1] = reg[s]}} = {O[v] : v \in Held(s)}
    BY <2>1
  <2>7. Of(O, reg'[s]) = O[reg[s]]
    BY <1>1, <1>7, <1>8 DEF Of
  <2> QED
    BY <1>6, <2>3, <2>5, <2>6, <2>7
<1>9. CASE reg[s] \notin Merge!Made
  <2>1. Held(s) = {reg[s]} \ {NULL}
    BY <1>9 DEF Held
  <2> QED
    BY <1>1, <1>6, <2>1 DEF Of
<1> QED
  BY <1>8, <1>9

(* An instruction leaves in the registers what it leaves on the path.      *)
LEMMA InferMeans ==
    ASSUME IdsInv, InferInstruction, NEW a, a = address, a \in DOMAIN loaded,
           body[a] \in Bodies \cup {Jump}, address' = address + 1, address \in Int, UNCHANGED body,
           NEW O, Means(O)', NEW at, \A s \in Slots : Of(O, reg[s]) = at.values[s],
           NEW s \in Slots
    PROVE  Of(O, reg'[s]) = After(a, at)'.values[s]
<1> DEFINE i == body[a]
           v == reg'[s]
<1>1. /\ step = "infer" /\ UNCHANGED <<step, standsFor>> /\ Gen!Step(i)
      /\ loaded' = [loaded EXCEPT ![a] =
            [r \in Slots |-> IF r \in {r1 \in Slots : \/ Loads(i) /\ r1[1] = i.dst.reg
                                                      \/ reg'[r1] \in varIndex .. varIndex' - 1}
                             THEN reg'[r] ELSE NULL]]
  BY DEF InferInstruction
<1>2. loaded'[a][s] = IF (Loads(i) /\ s[1] = i.dst.reg) \/ New(v) THEN v ELSE NULL
  BY <1>1 DEF New
<1>3. /\ varIndex \in Int /\ varIndex >= Gen!FirstTemporary
      /\ \A p \in standsFor : p[1] \in Usable /\ p[1] >= Gen!FirstTemporary
      /\ Usable = {u \in Int : u < varIndex} /\ Usable' = {u \in Int : u < varIndex'}
  BY <1>1 DEF IdsInv, IdsKnown, Usable, Unfinished
<1>4. varIndex' \in Int /\ varIndex' >= varIndex
  BY <1>1, <1>3, Outcomes
<1>5. Leaves(i, s)
  <2>1. ended' = "no"
    BY <1>1, Stepping
  <2> QED
    BY <1>1, <1>3, <2>1, Outcomes, SlotOutcome
<1>6. After(a, at)'.values[s] =
        IF (Loads(i) /\ Written(i, s)) \/ loaded'[a][s] # NULL THEN {loaded'[a][s]} \ {NULL}
        ELSE IF i.op = "MOV" /\ Written(i, s) THEN at.values[<<i.src.reg, "E">>]
        ELSE IF i.op = "XOR" /\ i.dst = i.src /\ Written(i, s) THEN {}
        ELSE at.values[s]
  BY DEF After, Written
<1>7. Loads(i) /\ s[1] = i.dst.reg => Written(i, s)
  BY LoadWrites
<1>8. Written(i, s) => s[1] = i.dst.reg
  BY DEF Written
<1> HIDE DEF i, v
<1>9. CASE New(v)
  <2>1. v \in Usable' /\ v \in Int /\ v # NULL
    BY <1>3, <1>4, <1>9, NullAssumption DEF New
  <2>2. v \notin Stood'
    BY <1>1, <1>3, <1>9 DEF New, Stood
  <2>3. Of(O, v) = {v}
    BY <2>1, <2>2 DEF Means, Of
  <2>4. loaded'[a][s] = v
    BY <1>2, <1>9
  <2> QED
    BY <1>6, <2>1, <2>3, <2>4 DEF v
<1>10. CASE ~New(v) /\ Loads(i) /\ Written(i, s) /\ InMemory(v)
  <2>1. Of(O, v) = {v} \ {NULL}
    <3>1. CASE v = NULL
      BY <3>1 DEF Of
    <3>2. CASE v # NULL
      <4>1. v \in Int /\ v < Gen!FirstTemporary
        BY <1>10, <3>2 DEF InMemory
      <4>2. v \in Usable' /\ v \notin Stood'
        BY <1>1, <1>3, <1>4, <4>1, TemporaryNumber DEF Stood
      <4> QED
        BY <3>2, <4>2 DEF Means, Of
    <3> QED
      BY <3>1, <3>2
  <2>2. loaded'[a][s] = v
    BY <1>2, <1>8, <1>10
  <2> QED
    BY <1>6, <1>10, <2>1, <2>2 DEF v
<1>11. CASE /\ ~New(v) /\ i.op = "MOV" /\ ~Loads(i) /\ Written(i, s)
            /\ <<i.src.reg, "E">> \in Slots /\ v = reg[<<i.src.reg, "E">>]
  <2>1. loaded'[a][s] = NULL
    BY <1>2, <1>11
  <2>2. Of(O, reg[<<i.src.reg, "E">>]) = at.values[<<i.src.reg, "E">>]
    BY <1>11
  <2> QED
    BY <1>6, <1>11, <2>1, <2>2 DEF v
<1>12. CASE ~New(v) /\ i.op = "XOR" /\ i.dst = i.src /\ Written(i, s) /\ v = NULL
  <2>1. loaded'[a][s] = NULL
    BY <1>2, <1>12
  <2>2. ~Loads(i)
    BY <1>12 DEF Loads
  <2> QED
    BY <1>6, <1>12, <2>1, <2>2 DEF v, Of
<1>13. CASE /\ ~New(v) /\ v = reg[s] /\ ~ (i.op = "MOV" /\ Written(i, s))
            /\ ~ (i.op = "XOR" /\ i.dst = i.src /\ Written(i, s))
  <2>1. ~ (Loads(i) /\ s[1] = i.dst.reg)
    BY <1>7, <1>13 DEF Loads
  <2>2. loaded'[a][s] = NULL
    BY <1>2, <1>13, <2>1
  <2> QED
    BY <1>6, <1>8, <1>13, <2>1, <2>2 DEF v
<1> QED
  BY <1>5, <1>9, <1>10, <1>11, <1>12, <1>13 DEF Leaves, v

LEMMA UsableInBlock ==
    ASSUME BaseInv, Inside, IdsInv,
           MergeRegister \/ EnterBlock \/ InferInstruction \/ LeaveBlock
    PROVE  Usable \subseteq Usable' /\ UNCHANGED standsFor
<1>1. UNCHANGED standsFor
  BY DEF MergeRegister, EnterBlock, InferInstruction, LeaveBlock, history
<1>2. CASE MergeRegister
  <2>1. Usable' = Usable
    BY <1>2, MergeCases, KeepBrings, ChangeBrings DEF Brings
  <2> QED
    BY <1>1, <2>1
<1>3. CASE EnterBlock \/ LeaveBlock
  <2>1. varIndex' = varIndex /\ step' # "merge"
    BY <1>3 DEF EnterBlock, LeaveBlock
  <2> QED
    BY <1>1, <2>1 DEF Usable, Unfinished
<1>4. CASE InferInstruction
  <2>1. step = "infer" /\ step' = "infer"
    BY <1>4 DEF InferInstruction
  <2>2. IdsInv'
    BY <1>4, InferIds
  <2>3. varIndex \in Int /\ varIndex' \in Int /\ varIndex' >= varIndex
    <3>1. body[address] \in Bodies \cup {Jump}
      <4>1. block \in Index /\ address \in StartAddr(block) .. EndAddr(block)
            /\ address < EndAddr(block)
        BY <1>4 DEF BaseInv, Placed, InferInstruction, More
      <4>2. address \in DOMAIN code
        BY <4>1, InsideSpan DEF BaseInv
      <4> QED
        BY <4>2 DEF BaseInv, Decoding
    <3> QED
      BY <1>4, <3>1, Outcomes DEF InferInstruction, IdsInv, IdsKnown
  <2> QED
    BY <1>1, <2>1, <2>3 DEF Usable, Unfinished
<1> QED
  BY <1>2, <1>3, <1>4

LEMMA BlockValues ==
    ASSUME BaseInv, BaseInv', Ids, Ids', ValuesFollow,
           MergeRegister \/ StateMerge \/ EnterBlock \/ InferInstruction \/ LeaveBlock
    PROVE  ValuesFollow'
<1>1. UNCHANGED <<cfgVars, depth, body, block>> /\ step # "find" /\ block \in analysed
  BY DEF MergeRegister, StateMerge, EnterBlock, InferInstruction, LeaveBlock, orderOnly, orderVars,
         BaseInv, Placed
<1>2. SUFFICES ASSUME Inside', NEW w, NEW T, NEW O, Solution(w, T)', Means(O)'
               PROVE  /\ \A f \in DOMAIN regPtr' : \A s \in Slots :
                            (Of(O, regPtr[f].reg[s]) = T[f][EndAddr(f)].values[s])'
                      /\ step' = "merge" /\ (register' = 0 \/ Len(father') < 2) =>
                            \A s \in Slots : Of(O, reg'[s]) = w[block].values[s]
                      /\ step' = "infer" => \A t : Runs(t, block, address, w[block])' =>
                            \A s \in Slots : Of(O, reg'[s]) = t[address'].values[s]
  BY <1>1 DEF ValuesFollow, LeftMean, Of
<1>3. Inside /\ Solution(w, T) /\ IdsInv
  BY <1>1, <1>2, GraphKept, SolutionsRemain DEF Ids
<1>4. Means(O)
  <2>1. CASE MergeRegister \/ EnterBlock \/ InferInstruction \/ LeaveBlock
    BY <1>2, <1>3, <2>1, UsableInBlock, MeansKept
  <2>2. CASE StateMerge
    <3>1. /\ step = "merge" /\ register = 1 /\ register' = 0 /\ varIndex' = varIndex
          /\ Len(father) > 1 /\ standsFor' = standsFor \cup merge
      BY <2>2 DEF StateMerge, Merge!Emit
    <3>2. Usable \subseteq Usable' /\ Usable \cap Merge!Made = {}
      BY <3>1 DEF Usable, Unfinished
    <3>3. ASSUME NEW v \in Usable
          PROVE  /\ v \in Stood' <=> v \in Stood
                 /\ {p \in standsFor' : p[1] = v} = {p \in standsFor : p[1] = v}
      <4>1. \A p \in merge : p[1] # v
        BY <3>2, <3>3 DEF Merge!Made
      <4> QED
        BY <3>1, <4>1 DEF Stood
    <3>4. ASSUME NEW v \in Usable
          PROVE  O[v] = IF v \in Stood THEN UNION {O[p[2]] : p \in {p \in standsFor : p[1] = v}}
                        ELSE {v}
      <4>1. O[v] = IF v \in Stood' THEN UNION {O[p[2]] : p \in {p \in standsFor' : p[1] = v}}
                   ELSE {v}
        BY <1>2, <3>2, <3>4 DEF Means
      <4> QED
        BY <3>3, <4>1
    <3> QED
      BY <3>4 DEF Means
  <2> QED
    BY <2>1, <2>2
<1>5. /\ \A f \in DOMAIN regPtr : \A s \in Slots :
            Of(O, regPtr[f].reg[s]) = T[f][EndAddr(f)].values[s]
      /\ step = "merge" /\ (register = 0 \/ Len(father) < 2) =>
            \A s \in Slots : Of(O, reg[s]) = w[block].values[s]
      /\ step = "infer" => \A t : Runs(t, block, address, w[block]) =>
            \A s \in Slots : Of(O, reg[s]) = t[address].values[s]
  BY <1>3, <1>4 DEF ValuesFollow, LeftMean
<1>6. \A b : EndAddr(b)' = EndAddr(b) /\ StartAddr(b)' = StartAddr(b)
  BY <1>1, GraphKept
<1>7. regPtr' = regPtr => \A f \in DOMAIN regPtr' : \A s \in Slots :
            (Of(O, regPtr[f].reg[s]) = T[f][EndAddr(f)].values[s])'
  BY <1>5, <1>6 DEF Of
<1>8. /\ block \in Index /\ StartAddr(block) \in Nat /\ EndAddr(block) \in Nat
      /\ StartAddr(block) <= EndAddr(block) /\ EndAddr(block) <= Length
      /\ DOMAIN code = 0 .. (Length - 1) /\ Length \in Nat
      /\ step = "infer" => address \in StartAddr(block) .. EndAddr(block)
  <2>1. block \in Index
    BY <1>1 DEF BaseInv, Placed
  <2> QED
    BY <1>3, <2>1, InsideSpan DEF BaseInv, Placed
<1>9. CASE MergeRegister
  <2>1. UNCHANGED <<step, regPtr, father>> /\ step = "merge" /\ Len(father) > 1 /\ register' # 0
    BY <1>9, MergeAdvances DEF Advances
  <2>2. Len(father) \in Nat
    BY <1>3, <2>1 DEF IdsInv, FathersListed
  <2> QED
    BY <1>7, <2>1, <2>2
<1>10. CASE StateMerge
  <2>1. UNCHANGED <<step, regPtr>> /\ step = "merge"
    BY <1>10 DEF StateMerge
  <2>2. ASSUME NEW s \in Slots PROVE Of(O, reg'[s]) = w[block].values[s]
    <3>1. Of(O, reg'[s]) = UNION {Of(O, father[k][s]) : k \in 1 .. Len(father)}
      BY <1>2, <1>3, <1>10, MergedMeans
    <3>2. w[block].values[s] = UNION {Of(O, father[k][s]) : k \in 1 .. Len(father)}
      <4>1. LeftMean(T, O)
        BY <1>5 DEF LeftMean
      <4>2. BaseInv /\ IdsInv /\ step = "merge" /\ Solution(w, T)
        BY <1>3, <2>1
      <4> QED
        BY <4>1, <4>2, FathersBring
    <3> QED
      BY <3>1, <3>2
  <2> QED
    BY <1>7, <2>1, <2>2
<1>11. CASE EnterBlock
  <2>1. UNCHANGED <<reg, address, regPtr>> /\ step = "merge" /\ step' = "infer"
        /\ (Len(father) > 1 => register = 0)
    BY <1>11 DEF EnterBlock
  <2>2. address' = StartAddr(block)
    BY <2>1 DEF BaseInv, Placed
  <2>3. ASSUME NEW t, Runs(t, block, address, w[block])' PROVE t[address'] = w[block]
    <3>1. \A a \in StartAddr(block) .. StartAddr(block) : a = StartAddr(block) => t[a] = w[block]
      BY <1>1, <1>6, <2>2, <2>3 DEF Runs
    <3> QED
      BY <1>8, <2>2, <3>1
  <2>4. register = 0 \/ Len(father) < 2
    <3>1. Len(father) \in Nat
      BY <1>3, <2>1 DEF IdsInv, FathersListed
    <3> QED
      BY <2>1, <3>1
  <2> QED
    BY <1>5, <1>7, <2>1, <2>3, <2>4
<1>12. CASE InferInstruction
  <2>1. /\ step = "infer" /\ UNCHANGED <<step, regPtr>> /\ address < EndAddr(block)
        /\ Gen!Step(body[address])
    BY <1>12 DEF InferInstruction, More
  <2>2. ASSUME NEW t, Runs(t, block, address, w[block])', NEW s \in Slots
        PROVE  Of(O, reg'[s]) = t[address'].values[s]
    <3>1. PICK lo \in Int : lo = StartAddr(block)
      BY <1>8
    <3>2. PICK hi \in Int : hi = address' /\ (hi = address + 1 \/ hi = address)
      BY <1>8, <2>1, Stepping
    <3>3. /\ \A a \in DOMAIN loaded \ {address} : loaded'[a] = loaded[a]
          /\ \A a \in DOMAIN flagged \ {address} : flagged'[a] = flagged[a]
      BY <1>12 DEF InferInstruction
    <3>4. \A a \in lo .. (address - 1) : loaded'[a] = loaded[a] /\ flagged'[a] = flagged[a]
      <4>1. \A a \in lo .. (address - 1) : a \in DOMAIN code \ {address}
        BY <1>8, <2>1, <3>1
      <4> QED
        BY <3>3, <4>1 DEF BaseInv, Decoding
    <3>5. Runs(t, block, hi, w[block])'
      BY <2>2, <3>2
    <3>6. Runs(t, block, address, w[block])
      <4>1. address \in Int /\ address <= hi
        BY <1>8, <2>1, <3>2
      <4> QED
        BY <1>1, <3>1, <3>4, <3>5, <4>1, RunsKept
    <3>7. \A r \in Slots : Of(O, reg[r]) = t[address].values[r]
      BY <1>5, <2>1, <3>6
    <3>8. CASE address' = address + 1
      <4>1. \A a \in lo .. hi : t[a] = IF a = lo THEN w[block] ELSE After(a - 1, t[a - 1])'
        BY <1>1, <1>6, <3>1, <3>5 DEF Runs
      <4>2. PICK at \in Int : at = address
        BY <1>8, <2>1
      <4>3. hi \in lo .. hi /\ hi # lo /\ hi - 1 = at
        BY <1>8, <2>1, <3>1, <3>2, <3>8, <4>2
      <4>4. t[hi] = After(at, t[at])'
        BY <4>1, <4>3
      <4>5. at \in DOMAIN loaded /\ body[at] \in Bodies \cup {Jump}
        BY <1>8, <2>1, <4>2 DEF BaseInv, Decoding
      <4>6. PICK x : x = t[at]
        OBVIOUS
      <4>7. Of(O, reg'[s]) = After(at, x)'.values[s]
        <5>1. \A r \in Slots : Of(O, reg[r]) = x.values[r]
          BY <3>7, <4>2, <4>6
        <5>2. at = address /\ address \in Int /\ UNCHANGED body
          BY <1>1, <4>2
        <5> QED
          BY <1>2, <1>3, <1>12, <3>8, <4>5, <5>1, <5>2, InferMeans
      <4> QED
        BY <3>2, <4>4, <4>6, <4>7
    <3>9. CASE address' = address
      <4>1. reg' = reg
        BY <1>8, <2>1, <3>9, Stepping
      <4> QED
        BY <3>7, <3>9, <4>1
    <3> QED
      BY <3>2, <3>8, <3>9
  <2> QED
    BY <1>7, <2>1, <2>2
<1>13. CASE LeaveBlock
  <2>1. /\ step = "infer" /\ step' = "find" /\ ~More
        /\ DOMAIN regPtr' = DOMAIN regPtr \cup {block} /\ regPtr'[block].reg = reg
        /\ \A f \in DOMAIN regPtr : f # block => regPtr'[f] = regPtr[f]
    BY <1>13 DEF LeaveBlock
  <2>2. address = EndAddr(block)
    <3>1. phase # "cfg"
      BY <1>1 DEF BaseInv, Placed
    <3>2. address < EndAddr(block) => address \in DOMAIN code
      BY <1>8, <2>1
    <3>3. address < EndAddr(block) => code[address].op # "bad"
      BY <1>3, <3>1, <3>2, AllDecodes DEF BaseInv
    <3> QED
      BY <1>8, <2>1, <3>3 DEF More
  <2>3. Runs(T[block], block, EndAddr(block), w[block])
    BY <1>2, <1>3, <1>13, LeftRuns
  <2>4. \A s \in Slots : Of(O, reg[s]) = T[block][EndAddr(block)].values[s]
    BY <1>5, <2>1, <2>2, <2>3
  <2>5. \A f \in DOMAIN regPtr' : \A s \in Slots :
            Of(O, regPtr'[f].reg[s]) = T[f][EndAddr(f)].values[s]
    BY <1>5, <2>1, <2>4
  <2> QED
    BY <1>6, <2>1, <2>5 DEF Of
<1> QED
  BY <1>9, <1>10, <1>11, <1>12, <1>13

LEMMA ValuesStep ==
    BaseInv /\ BaseInv' /\ Ids /\ Ids' /\ ValuesFollow /\ [HunterNext]_hunterVars => ValuesFollow'
<1> SUFFICES ASSUME BaseInv, BaseInv', Ids, Ids', ValuesFollow, [HunterNext]_hunterVars
             PROVE  ValuesFollow'
  OBVIOUS
<1>1. CASE UNCHANGED hunterVars
  <2>1. /\ UNCHANGED <<cfgVars, depth, matrix, body, analysed, step, block, regPtr, reg, address>>
        /\ UNCHANGED <<loaded, flagged, varIndex, father, merge, register, standsFor>>
    BY <1>1 DEF hunterVars, orderOnly, orderVars, history, mergeOnly, cfgVars
  <2>2. /\ (Inside' <=> Inside) /\ \A b : Order!Merged(b)' = Order!Merged(b)
        /\ \A b : StartAddr(b)' = StartAddr(b) /\ EndAddr(b)' = EndAddr(b)
    BY <2>1, GraphKept
  <2>3. \A t, b, hi, x : Runs(t, b, hi, x)' <=> Runs(t, b, hi, x)
    <3>1. \A a, at : After(a, at)' = After(a, at)
      BY <2>1 DEF After
    <3> QED
      BY <2>2, <3>1 DEF Runs
  <2>4. \A w, T : Solution(w, T)' <=> Solution(w, T)
    BY <2>1, <2>2, <2>3 DEF Solution, Gen!NoFlag
  <2>5. Merge!Made' = Merge!Made
    BY <2>1 DEF Merge!Made
  <2>6. \A O : Means(O)' <=> Means(O)
    BY <2>1, <2>5 DEF Means, Usable, Unfinished, Stood
  <2> QED
    BY <2>1, <2>2, <2>3, <2>4, <2>6 DEF ValuesFollow, LeftMean, Of
<1> QED
  BY <1>1, PrepareValues, FindValues, BlockValues DEF HunterNext

(* A register at the start of a block stands for exactly the values the    *)
(* paths to the block give it, through whatever merges of merges they came:*)
(* what is inferred of it is inferred of all of them, and of nothing else. *)
(* This is for functions of understood code, none of it dead, in which     *)
(* every register is written as a whole (HunterAssumption): after a write  *)
(* of a byte, as by a SETcc or a MOV to AL, a merge may lose it (Take).    *)
THEOREM ValuesCome == HunterSpec => []StandsForItsPaths
<1>1. HunterInit => ValuesFollow
  <2> SUFFICES ASSUME HunterInit PROVE DOMAIN regPtr = {} /\ step = "find"
    BY DEF ValuesFollow, LeftMean
  <2> QED
    BY DEF HunterInit
<1>2. BaseInv /\ Ids /\ ValuesFollow => StandsForItsPaths
  <2> SUFFICES ASSUME BaseInv, Ids, ValuesFollow, Entering, NEW s \in Slots
               PROVE  Originals(reg[s]) = OnPaths[block].values[s]
    BY DEF StandsForItsPaths
  <2>1. PICK t : Runs(t, block, address, OnPaths[block]) /\ t[address] = OnPaths[block]
    BY RunStarts
  <2>2. Inside /\ step = "infer" /\ IdsInv
    BY RunStarts DEF Entering, Ids
  <2>3. PICK T : Solution(OnPaths, T)
    BY <2>2, PathsSolve
  <2>4. PairsOrdered /\ Usable \subseteq Int /\ reg[s] \in Usable \cup {NULL}
    BY <2>2 DEF IdsInv, IdsKnown, Usable, Fine
  <2> DEFINE O == [v \in Int |-> Originals(v)]
  <2>5. Means(O)
    <3>1. ASSUME NEW v \in Usable
          PROVE  O[v] = IF v \in Stood THEN UNION {O[p[2]] : p \in {p \in standsFor : p[1] = v}}
                        ELSE {v}
      <4>1. Originals(v) = IF v \in Stood
                           THEN UNION {Originals(p[2]) : p \in {p \in standsFor : p[1] = v}}
                           ELSE {v}
        BY <2>4, OriginalsUnfold
      <4>2. \A p \in standsFor : O[p[2]] = Originals(p[2])
        BY <2>4 DEF PairsOrdered
      <4>3. {O[p[2]] : p \in {p \in standsFor : p[1] = v}}
              = {Originals(p[2]) : p \in {p \in standsFor : p[1] = v}}
        BY <4>2
      <4>4. O[v] = Originals(v)
        BY <2>4
      <4> QED
        BY <4>1, <4>3, <4>4
    <3> QED
      BY <3>1 DEF Means
  <2>6. Of(O, reg[s]) = Originals(reg[s])
    <3>1. reg[s] = NULL => Originals(reg[s]) = {}
      BY <2>4, OriginalsUnfold
    <3>2. reg[s] # NULL => O[reg[s]] = Originals(reg[s])
      BY <2>4
    <3> QED
      BY <3>1, <3>2 DEF Of
  <2> HIDE DEF O
  <2>7. Of(O, reg[s]) = t[address].values[s]
    BY <2>1, <2>2, <2>3, <2>5 DEF ValuesFollow, LeftMean
  <2> QED
    BY <2>1, <2>6, <2>7
<1> QED
  BY <1>1, <1>2, ValuesStep, IdsInvariance, BaseInvariance, PTL DEF HunterSpec

=============================================================================
