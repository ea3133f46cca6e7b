----------------------------- MODULE DriverProofs -----------------------------
(***************************************************************************)
(* main() as a whole, for functions of any length: what the second pass    *)
(* knows of ESP where a block starts is what ESP is there on some path.    *)
(***************************************************************************)
EXTENDS Driver, FunctionAnalysisProofs

(* Every instruction but the first one comes after another one, and the    *)
(* scan misreads none.                                                     *)
NoDead ==
    /\ AllUnderstood
    /\ \A t \in DOMAIN code \ {0} : \E a \in DOMAIN code : t \in Successors(a)

(* The graph of a function the scan reads, without dead code.              *)
LiveGraph == CfgInv /\ stage = "built" /\ Readable /\ NoDead

LEMMA LiveHasFathers ==
    ASSUME Length \in Nat, AllUnderstood, AllLive
    PROVE  NoDead
<1> DEFINE S == {0} \cup UNION {Successors(a) : a \in DOMAIN code}
<1>1. 0 \in S /\ \A a \in S \cap DOMAIN code : Successors(a) \subseteq S
  OBVIOUS
<1> HIDE DEF S
<1>2. Live \subseteq S
  BY <1>1, LiveInduction
<1>3. DOMAIN code \subseteq S
  BY <1>2 DEF AllLive
<1> QED
  BY <1>3 DEF S, NoDead

(* Without jumps to the outside no block starts there.                     *)
LEMMA NodesInside ==
    ASSUME CfgInv, stage = "built", complete
    PROVE  nodes \subseteq 0 .. Length
<1>1. /\ nodes = {0} \cup Targets \cup AfterBranches /\ Scanned = DOMAIN code
      /\ DOMAIN code = 0 .. (Length - 1) /\ Length \in Nat
      /\ code \in [0 .. (Length - 1) -> Instructions(Length)]
  BY DEF CfgInv, Types, Collected, Scanned
<1>2. ASSUME NEW a \in DOMAIN code, code[a].op \in {"jmp", "jcc"}
      PROVE  code[a].target \in 0 .. Length
  <2>1. code[a] \in Instructions(Length)
    BY <1>1
  <2>2. code[a].target \in (0 - Outside) .. (Length + Outside)
    BY <1>2, <2>1 DEF Instructions
  <2> QED
    BY <1>1, <2>2, BodiesAssumption
<1>3. Targets \subseteq 0 .. Length
  <2> SUFFICES ASSUME NEW a \in Jumps(DOMAIN code) PROVE Displaced(a) \in 0 .. Length
    BY <1>1 DEF Targets
  <2>1. a \in 0 .. (Length - 1) /\ a \in DOMAIN code /\ code[a].op \in {"jmp", "ijmp", "jcc"}
    BY <1>1 DEF Jumps
  <2> QED
    BY <1>1, <1>2, <2>1 DEF Displaced
<1>4. AfterBranches \subseteq 0 .. Length
  BY <1>1 DEF AfterBranches, Branchings
<1> QED
  BY <1>1, <1>3, <1>4

(* Inside a block of live code control goes on to the next instruction.    *)
LEMMA Interior ==
    ASSUME LiveGraph, NEW a \in DOMAIN code, a + 1 \in DOMAIN code, a + 1 \notin nodes
    PROVE  Successors(a) = {a + 1}
<1>1. DOMAIN code = 0 .. (Length - 1) /\ Length \in Nat
  BY DEF LiveGraph, Readable, CfgInv, Types
<1>2. a + 1 # 0 /\ a \in Int
  BY <1>1
<1>3. PICK p \in DOMAIN code : a + 1 \in Successors(p)
  BY <1>2 DEF LiveGraph, NoDead
<1>4. a + 1 = p + 1 /\ Successors(p) = {a + 1}
  BY <1>3, Leaving DEF LiveGraph, Readable, AllUnderstood
<1>5. p = a
  BY <1>1, <1>2, <1>4
<1> QED
  BY <1>4, <1>5

(* An edge into another block than the first one leaves its block at the   *)
(* last instruction.                                                       *)
LEMMA EdgeAtEnd ==
    ASSUME LiveGraph, NEW f \in Index, NEW b \in Index, b # 0, <<f, b>> \in matrix
    PROVE  /\ StartAddr(f) < EndAddr(f)
           /\ StartAddr(b) \in Successors(EndAddr(f) - 1)
<1>1. /\ CfgInv /\ stage = "built" /\ complete /\ nodes \subseteq 0 .. Length
      /\ DOMAIN code = 0 .. (Length - 1) /\ Length \in Nat /\ nodes \subseteq Nat
      /\ Understood = DOMAIN code
  BY DEF LiveGraph, CfgInv, Types, Readable, AllUnderstood
<1>2. PICK e \in edges : BlockOf(e[1]) = f /\ BlockAt(e[2]) = b
  BY <1>1 DEF CfgInv, Filled
<1>3. e[1] \in 0 .. (Length - 1) /\ e[2] \in nodes
  BY <1>1, <1>2 DEF CfgInv, Types
<1>4. e[2] = StartAddr(b) /\ e[2] # 0
  <2>1. BlockAt(0) = 0
    BY <1>1, BlockStarts DEF CfgInv, Types
  <2> QED
    BY <1>1, <1>2, <1>3, <2>1, BlockExists
<1>5. e[2] \in Successors(e[1])
  <2>1. e \in ScanEdges \cup JoinEdges
    BY <1>1, <1>4 DEF CfgInv, Collected
  <2>2. e = <<e[1], e[2]>>
    BY <2>1 DEF ScanEdges, JoinEdges
  <2> QED
    BY <1>1, <1>3, <2>1, <2>2, SuccessorEdges
<1>6. /\ StartAddr(f) <= e[1] /\ e[1] < EndAddr(f)
      /\ StartAddr(f) \in Nat /\ EndAddr(f) \in Nat /\ EndAddr(f) <= Length
      /\ \A n \in nodes : n <= StartAddr(f) \/ EndAddr(f) <= n
  BY <1>1, <1>2, <1>3, BlockSpan
<1>7. ASSUME e[1] + 1 < EndAddr(f) PROVE FALSE
  <2>1. e[1] + 1 \notin nodes /\ e[1] + 1 \in DOMAIN code /\ e[1] \in DOMAIN code
    BY <1>1, <1>3, <1>6, <1>7
  <2>2. Successors(e[1]) = {e[1] + 1}
    BY <2>1, Interior
  <2> QED
    BY <1>3, <1>5, <2>1, <2>2
<1>8. e[1] = EndAddr(f) - 1
  BY <1>3, <1>6, <1>7
<1> QED
  BY <1>3, <1>4, <1>5, <1>6, <1>8

----------------------------------------------------------------------------
(* The tables of the driver: how the paths grow by a step, how ESP goes    *)
(* from one address to the next, and how a map is walked through.          *)
Spread(P) ==
    P \cup UNION {{<<t, TrackESP(p[2], body[p[1]])>> : t \in Successors(p[1])} :
                    p \in {p \in P : p[1] \in DOMAIN code}}

Advance(what, k, v) ==
    IF what[1] = "paths" THEN Spread(v)
    ELSE IF what[1] = "esp" THEN TrackESP(v, body[k - 1])
    ELSE Recovery!Following(what[2], v)

(* g tabulates, from v on, what comes at lo, ..., hi.                      *)
Table(g, what, lo, hi, v) ==
    g = [k \in lo .. hi |-> IF k = lo THEN v ELSE Advance(what, k, g[k - 1])]

LEMMA TableFrom ==
    ASSUME NEW what, NEW v, NEW lo \in Int, NEW n \in Nat
    PROVE  \E g : Table(g, what, lo, lo + n, v)
<1> DEFINE Bad == {t \in Nat : ~ \E g : Table(g, what, lo, lo + t, v)}
<1> SUFFICES ASSUME Bad # {} PROVE FALSE
  OBVIOUS
<1>1. PICK t \in Bad : \A y \in Bad : t <= y
  <2>1. Bad \subseteq Nat
    OBVIOUS
  <2> HIDE DEF Bad
  <2> QED
    BY <2>1, LeastNumber
<1>2. CASE t = 0
  <2>1. Table([k \in lo .. lo |-> v], what, lo, lo, v)
    BY DEF Table
  <2>2. lo + t = lo
    BY <1>2
  <2> QED
    BY <2>1, <2>2
<1>3. CASE t # 0
  <2>1. t \in Nat /\ t - 1 \in Nat /\ ~ (t <= t - 1) /\ lo + (t - 1) = (lo + t) - 1
    BY <1>3
  <2>2. PICK g : Table(g, what, lo, (lo + t) - 1, v)
    BY <1>1, <2>1
  <2> DEFINE hi == lo + t
             h == [k \in lo .. hi |-> IF k = hi THEN Advance(what, hi, g[hi - 1]) ELSE g[k]]
  <2>3. \A k \in lo .. hi - 1 : g[k] = IF k = lo THEN v ELSE Advance(what, k, g[k - 1])
    BY <2>1, <2>2 DEF Table
  <2>4. ASSUME NEW k \in lo .. hi
        PROVE  h[k] = IF k = lo THEN v ELSE Advance(what, k, h[k - 1])
    <3>1. CASE k = hi
      <4>1. h[k] = Advance(what, k, g[k - 1]) /\ h[k - 1] = g[k - 1] /\ k # lo
        BY <2>1, <3>1
      <4> QED
        BY <4>1
    <3>2. CASE k # hi /\ k = lo
      BY <2>1, <2>3, <3>2
    <3>3. CASE k # hi /\ k # lo
      <4>1. k \in lo .. hi - 1 /\ k - 1 \in lo .. hi /\ k - 1 # hi
        BY <2>1, <3>3
      <4>2. h[k] = g[k] /\ h[k - 1] = g[k - 1]
        BY <3>3, <4>1
      <4>3. g[k] = Advance(what, k, g[k - 1])
        BY <2>3, <3>3, <4>1
      <4> QED
        BY <3>3, <4>2, <4>3
    <3> QED
      BY <3>1, <3>2, <3>3
  <2> HIDE DEF Bad
  <2>5. Table(h, what, lo, hi, v)
    BY <2>4 DEF Table
  <2> QED
    BY <2>5 DEF Bad
<1> QED
  BY <1>2, <1>3

(* g holds what ESP can be at each address after every number of steps.    *)
PathTable(g) == Table(g, <<"paths">>, 0, Length, {<<0, UNKNOWN>>})

LEMMA PathsUnfold ==
    ASSUME Length \in Nat
    PROVE  \E g : PathTable(g) /\ PathEsps = g[Length]
<1> DEFINE g == CHOOSE h : PathTable(h)
<1>1. PathTable(g)
  <2>1. \E h : Table(h, <<"paths">>, 0, 0 + Length, {<<0, UNKNOWN>>})
    BY TableFrom
  <2>2. 0 + Length = Length
    OBVIOUS
  <2>3. \E h : PathTable(h)
    BY <2>1, <2>2 DEF PathTable
  <2> QED
    BY <2>3
<1>2. PathEsps = g[Length]
  BY DEF PathEsps, PathTable, Table, Advance, Spread
<1> QED
  BY <1>1, <1>2

LEMMA EspUnfolds ==
    ASSUME NEW b, StartAddr(b) \in Nat, Cardinality(Decoded(b)) \in Nat
    PROVE  LET end == StartAddr(b) + Cardinality(Decoded(b))
           IN  /\ EspIn(b)[StartAddr(b)] = EntryEsp(b)
               /\ \A a \in StartAddr(b) + 1 .. end :
                    EspIn(b)[a] = TrackESP(EspIn(b)[a - 1], body[a - 1])
<1> DEFINE first == StartAddr(b)
           end == StartAddr(b) + Cardinality(Decoded(b))
           E == CHOOSE h : Table(h, <<"esp">>, first, end, EntryEsp(b))
<1>1. Table(E, <<"esp">>, first, end, EntryEsp(b))
  <2>1. StartAddr(b) \in Int
    OBVIOUS
  <2>2. \E h : Table(h, <<"esp">>, StartAddr(b), StartAddr(b) + Cardinality(Decoded(b)), EntryEsp(b))
    BY <2>1, TableFrom
  <2> QED
    BY <2>2
<1>2. EspIn(b) = E
  BY DEF EspIn, Table, Advance
<1> HIDE DEF E
<1>3. \A a \in first .. end :
        E[a] = IF a = first THEN EntryEsp(b) ELSE TrackESP(E[a - 1], body[a - 1])
  BY <1>1 DEF Table, Advance
<1> QED
  BY <1>2, <1>3

(* A path is not lost by going on.                                         *)
LEMMA PathsGrow ==
    ASSUME Length \in Nat, NEW g, PathTable(g), NEW k \in 0 .. Length
    PROVE  g[k] \subseteq g[Length]
<1> DEFINE Bad == {n \in Nat : k + n <= Length /\ ~ (g[k] \subseteq g[k + n])}
<1>1. \A n \in 1 .. Length : g[n] = Spread(g[n - 1])
  <2>1. \A n \in 0 .. Length : g[n] = IF n = 0 THEN {<<0, UNKNOWN>>} ELSE Spread(g[n - 1])
    BY DEF PathTable, Table, Advance
  <2>2. \A n \in 1 .. Length : n \in 0 .. Length /\ n # 0
    OBVIOUS
  <2> QED
    BY <2>1, <2>2
<1>2. ASSUME Bad # {} PROVE FALSE
  <2>1. PICK n \in Bad : \A y \in Bad : n <= y
    <3>1. Bad \subseteq Nat
      OBVIOUS
    <3> HIDE DEF Bad
    <3> QED
      BY <1>2, <3>1, LeastNumber
  <2>2. n \in Nat /\ n # 0 /\ k + n <= Length
    BY <2>1
  <2>3. n - 1 \in Nat /\ k + (n - 1) <= Length /\ ~ (n <= n - 1) /\ k + n \in 1 .. Length
        /\ (k + n) - 1 = k + (n - 1)
    BY <2>2
  <2>4. g[k] \subseteq g[k + (n - 1)]
    BY <2>1, <2>3
  <2>5. g[k + (n - 1)] \subseteq g[k + n]
    BY <1>1, <2>3 DEF Spread
  <2> QED
    BY <2>1, <2>4, <2>5
<1>3. Length - k \in Nat /\ k + (Length - k) = Length /\ Length <= Length
  OBVIOUS
<1>4. Length - k \notin Bad
  BY <1>2
<1> QED
  BY <1>3, <1>4

----------------------------------------------------------------------------
(* Code that decodes is analysed to the end of the block.                  *)
LEMMA WholeBlock ==
    ASSUME LiveGraph, NEW b \in Index
    PROVE  /\ Decoded(b) = StartAddr(b) .. (EndAddr(b) - 1)
           /\ Cardinality(Decoded(b)) = EndAddr(b) - StartAddr(b)
           /\ Decoded(b) \subseteq DOMAIN code
           /\ \A a \in Decoded(b) : BlockOf(a) = b
<1>1. /\ DOMAIN code = 0 .. (Length - 1) /\ Length \in Nat
      /\ \A a \in DOMAIN code : code[a].op # "bad"
  BY DEF LiveGraph, Readable, CfgInv, Types, Collected, Scanned
<1>2. /\ StartAddr(b) \in Nat /\ EndAddr(b) \in Nat
      /\ StartAddr(b) <= EndAddr(b) /\ EndAddr(b) <= Length
      /\ \A a \in 0 .. (Length - 1) : BlockOf(a) = b <=> StartAddr(b) <= a /\ a < EndAddr(b)
  BY BlockSpan DEF LiveGraph, Readable
<1>3. Decoded(b) = StartAddr(b) .. (EndAddr(b) - 1)
  <2>1. ASSUME NEW a \in StartAddr(b) .. (EndAddr(b) - 1), NEW c \in StartAddr(b) .. a
        PROVE  code[c].op # "bad"
    <3>1. c \in DOMAIN code
      BY <1>1, <1>2
    <3> QED
      BY <1>1, <3>1
  <2> QED
    BY <2>1 DEF Decoded
<1>4. Cardinality(StartAddr(b) .. (EndAddr(b) - 1)) = EndAddr(b) - StartAddr(b)
  BY <1>2, FS_Interval
<1> QED
  BY <1>1, <1>2, <1>3, <1>4

(* A path to the start of a block goes on through it, with the ESP that    *)
(* inferType() computes for each of its addresses.                         *)
LEMMA WalkOn ==
    ASSUME LiveGraph, NEW b \in Index, NEW g, PathTable(g), NEW n \in Nat,
           n + (EndAddr(b) - StartAddr(b)) <= Length,
           <<StartAddr(b), EntryEsp(b)>> \in g[n]
    PROVE  LET size == EndAddr(b) - StartAddr(b)
           IN  /\ \A a \in Decoded(b) : <<a, EspIn(b)[a]>> \in g[n + (a - StartAddr(b))]
               /\ size > 0 => \A t \in Successors(EndAddr(b) - 1) :
                    <<t, EspIn(b)[EndAddr(b)]>> \in g[n + size]
<1> DEFINE s == StartAddr(b)
           end == EndAddr(b)
           E == EspIn(b)
<1>1. /\ DOMAIN code = 0 .. (Length - 1) /\ Length \in Nat
      /\ s \in Nat /\ end \in Nat /\ s <= end /\ end <= Length
      /\ \A m \in nodes : m <= s \/ end <= m
  BY BlockSpan DEF LiveGraph, Readable, CfgInv, Types
<1>2. Decoded(b) = s .. (end - 1) /\ s + Cardinality(Decoded(b)) = end
      /\ Cardinality(Decoded(b)) \in Nat
  BY <1>1, WholeBlock
<1>3. E[s] = EntryEsp(b) /\ \A a \in s + 1 .. end : E[a] = TrackESP(E[a - 1], body[a - 1])
  BY <1>1, <1>2, EspUnfolds
<1> HIDE DEF s, end, E
<1>4. \A k \in 1 .. Length : g[k] = Spread(g[k - 1])
  <2>1. \A k \in 0 .. Length : g[k] = IF k = 0 THEN {<<0, UNKNOWN>>} ELSE Spread(g[k - 1])
    BY DEF PathTable, Table, Advance
  <2>2. \A k \in 1 .. Length : k \in 0 .. Length /\ k # 0
    OBVIOUS
  <2> QED
    BY <2>1, <2>2
<1>5. ASSUME NEW a \in s .. (end - 1), <<a, E[a]>> \in g[n + (a - s)], NEW t \in Successors(a)
      PROVE  <<t, E[a + 1]>> \in g[n + ((a + 1) - s)]
  <2>1. E[a + 1] = TrackESP(E[a], body[a])
    <3>1. a + 1 \in s + 1 .. end /\ (a + 1) - 1 = a
      BY <1>1
    <3> QED
      BY <1>3, <3>1
  <2>2. a \in DOMAIN code /\ n + ((a + 1) - s) \in 1 .. Length
        /\ (n + ((a + 1) - s)) - 1 = n + (a - s)
    BY <1>1 DEF s, end
  <2>3. g[n + ((a + 1) - s)] = Spread(g[n + (a - s)])
    BY <1>4, <2>2
  <2> DEFINE p == <<a, E[a]>>
  <2>4. p \in {q \in g[n + (a - s)] : q[1] \in DOMAIN code} /\ p[1] = a /\ p[2] = E[a]
    BY <1>5, <2>2
  <2>5. <<t, TrackESP(p[2], body[p[1]])>> \in Spread(g[n + (a - s)])
    BY <1>5, <2>4 DEF Spread
  <2> QED
    BY <2>1, <2>3, <2>4, <2>5
<1> DEFINE Bad == {a \in s .. (end - 1) : <<a, E[a]>> \notin g[n + (a - s)]}
<1>6. ASSUME Bad # {} PROVE FALSE
  <2>1. PICK a \in Bad : \A y \in Bad : a <= y
    <3>1. Bad \subseteq Nat
      BY <1>1
    <3> HIDE DEF Bad
    <3> QED
      BY <1>6, <3>1, LeastNumber
  <2>2. a \in s .. (end - 1) /\ <<a, E[a]>> \notin g[n + (a - s)]
    OBVIOUS
  <2>3. a # s
    <3> SUFFICES ASSUME a = s PROVE FALSE
      OBVIOUS
    <3>1. n + (a - s) = n
      BY <1>1
    <3> QED
      BY <1>3, <2>2, <3>1 DEF s
  <2>4. a - 1 \in s .. (end - 1) /\ ~ (a <= a - 1) /\ a - 1 \in DOMAIN code /\ a \in DOMAIN code
        /\ (a - 1) + 1 = a
    BY <1>1, <2>2, <2>3
  <2>5. <<a - 1, E[a - 1]>> \in g[n + ((a - 1) - s)]
    BY <2>1, <2>4
  <2>6. a \notin nodes
    BY <1>1, <2>2, <2>3
  <2>7. Successors(a - 1) = {a}
    BY <2>4, <2>6, Interior
  <2>8. <<a, E[(a - 1) + 1]>> \in g[n + (((a - 1) + 1) - s)]
    BY <1>5, <2>4, <2>5, <2>7
  <2> QED
    BY <2>2, <2>4, <2>8
<1>7. \A a \in s .. (end - 1) : <<a, E[a]>> \in g[n + (a - s)]
  BY <1>6
<1>8. ASSUME end - s > 0, NEW t \in Successors(end - 1)
      PROVE  <<t, E[end]>> \in g[n + (end - s)]
  <2>1. end - 1 \in s .. (end - 1) /\ (end - 1) + 1 = end
    BY <1>1, <1>8
  <2> QED
    BY <1>5, <1>7, <1>8, <2>1
<1> QED
  BY <1>2, <1>7, <1>8 DEF s, end, E

----------------------------------------------------------------------------
(* The instructions of the analysed blocks other than b.                   *)
Elsewhere(b) == {a \in DOMAIN code : BlockOf(a) \in analysed \ {b}}

(* A path through S leads to b with the ESP the analysis of b begins with, *)
(* and goes on behind b with the ESP it ends with.                         *)
ReachedThrough(S, b, g) ==
    LET size == EndAddr(b) - StartAddr(b)
    IN  /\ <<StartAddr(b), EntryEsp(b)>> \in g[Cardinality(S)]
        /\ size > 0 => \A t \in Successors(EndAddr(b) - 1) :
                            <<t, blockEsp[b]>> \in g[Cardinality(S) + size]

(* Every block was reached through blocks that were analysed before it.    *)
BlocksOnPaths ==
    complete /\ NoDead => \A g : PathTable(g) =>
        \A b \in analysed : \E S \in SUBSET Elsewhere(b) : ReachedThrough(S, b, g)

(* A variable is missed with an ESP that some path has.                    *)
MissedOnPaths ==
    complete /\ NoDead => \A g : PathTable(g) =>
        \A a \in missed :
            /\ a \in DOMAIN code /\ LooksUp(body[a])
            /\ \E e : <<a, e>> \in g[Length] /\ ~Finds(Recovery!Access(body[a]), e)

Recorded ==
    /\ phase # "cfg" => Recovered
    /\ phase \in {"cfg", "calc"} => analysed = {} /\ missed = {}
    /\ analysed \subseteq Index /\ DOMAIN blockEsp = analysed
    /\ \A b \in analysed : Order!Merged(b) \subseteq analysed

AnalysisInv == FunctionInv /\ Recorded /\ BlocksOnPaths /\ MissedOnPaths

LEMMA FirstMerged ==
    ASSUME NEW b, Order!Merged(b) # {}, blockNum \in Nat
    PROVE  LET f == CHOOSE f \in Order!Merged(b) : \A g \in Order!Merged(b) : f <= g
           IN  f \in Order!Merged(b) /\ EntryEsp(b) = blockEsp[f]
<1>1. Order!Merged(b) \subseteq Nat
  BY DEF Order!Merged, Order!Fathers, Order!Blocks
<1>2. PICK f \in Order!Merged(b) : \A g \in Order!Merged(b) : f <= g
  BY <1>1, LeastNumber
<1> QED
  BY <1>2 DEF EntryEsp

(* The instructions of a block, counted beside those of other blocks.      *)
LEMMA CountedBeside ==
    ASSUME LiveGraph, NEW b \in Index,
           NEW S \in SUBSET {a \in DOMAIN code : BlockOf(a) # b}
    PROVE  /\ Cardinality(S) \in Nat
           /\ Cardinality(S \cup Decoded(b)) = Cardinality(S) + (EndAddr(b) - StartAddr(b))
           /\ Cardinality(S) + (EndAddr(b) - StartAddr(b)) <= Length
<1>1. DOMAIN code = 0 .. (Length - 1) /\ Length \in Nat
  BY DEF LiveGraph, Readable, CfgInv, Types
<1>2. /\ Decoded(b) \subseteq DOMAIN code /\ \A a \in Decoded(b) : BlockOf(a) = b
      /\ Cardinality(Decoded(b)) = EndAddr(b) - StartAddr(b)
  BY WholeBlock
<1>3. IsFiniteSet(DOMAIN code) /\ Cardinality(DOMAIN code) = Length
  BY <1>1, IntervalSize
<1>4. S \subseteq DOMAIN code /\ S \cap Decoded(b) = {} /\ S \cup Decoded(b) \subseteq DOMAIN code
  BY <1>2
<1>5. IsFiniteSet(S) /\ IsFiniteSet(Decoded(b))
  BY <1>2, <1>3, <1>4, FS_Subset
<1>6. Cardinality(S) \in Nat /\ Cardinality(Decoded(b)) \in Nat
  BY <1>5, FS_CardinalityType
<1>7. Cardinality(S \cup Decoded(b)) = Cardinality(S) + Cardinality(Decoded(b))
  <2>1. Cardinality(S \cap Decoded(b)) = 0
    BY <1>4, FS_EmptySet
  <2>2. Cardinality(S \cup Decoded(b))
            = Cardinality(S) + Cardinality(Decoded(b)) - Cardinality(S \cap Decoded(b))
    BY <1>5, FS_Union
  <2> QED
    BY <1>6, <2>1, <2>2
<1>8. Cardinality(S \cup Decoded(b)) <= Length
  BY <1>3, <1>4, FS_Subset
<1> QED
  BY <1>2, <1>6, <1>7, <1>8

(* A block that is merged from analysed ones starts with an ESP it has on  *)
(* a path through them: on to its first father and through that one.       *)
LEMMA EntryReached ==
    ASSUME LiveGraph, NEW g, PathTable(g), NEW b \in Index, b \notin analysed,
           analysed \subseteq Index,
           Order!Merged(b) \subseteq analysed, Order!Merged(b) = {} <=> b = 0,
           \A c \in analysed : \E S \in SUBSET Elsewhere(c) : ReachedThrough(S, c, g)
    PROVE  \E S \in SUBSET Elsewhere(b) : <<StartAddr(b), EntryEsp(b)>> \in g[Cardinality(S)]
<1>1. /\ CfgInv /\ nodes \subseteq Nat /\ blockNum \in Nat /\ 0 \in nodes
      /\ DOMAIN code = 0 .. (Length - 1) /\ Length \in Nat
  BY BlocksExist DEF LiveGraph, Readable, CfgInv, Types
<1>2. CASE b = 0
  <2>1. BlockAt(0) = 0
    BY <1>1, BlockStarts
  <2>2. StartAddr(b) = 0
    BY <1>1, <1>2, <2>1, BlockExists
  <2>3. EntryEsp(b) = UNKNOWN
    BY <1>2 DEF EntryEsp
  <2>4. g[0] = {<<0, UNKNOWN>>}
    BY <1>1 DEF PathTable, Table
  <2>5. {} \in SUBSET Elsewhere(b) /\ Cardinality({}) = 0
    BY FS_EmptySet
  <2> QED
    BY <2>2, <2>3, <2>4, <2>5
<1>3. CASE b # 0
  <2>1. PICK f \in Order!Merged(b) : EntryEsp(b) = blockEsp[f]
    BY <1>1, <1>3, FirstMerged
  <2>2. f \in analysed /\ f \in Index /\ f # b /\ <<f, b>> \in matrix
    BY <2>1 DEF Order!Merged, Order!Fathers
  <2>3. PICK S \in SUBSET Elsewhere(f) : ReachedThrough(S, f, g)
    BY <2>2
  <2>4. /\ StartAddr(f) < EndAddr(f) /\ StartAddr(b) \in Successors(EndAddr(f) - 1)
        /\ StartAddr(f) \in Nat /\ EndAddr(f) \in Nat
    BY <1>3, <2>2, EdgeAtEnd, BlockSpan DEF LiveGraph, Readable
  <2>5. EndAddr(f) - StartAddr(f) > 0
    BY <2>4
  <2>6. <<StartAddr(b), EntryEsp(b)>> \in g[Cardinality(S) + (EndAddr(f) - StartAddr(f))]
    BY <2>1, <2>3, <2>4, <2>5 DEF ReachedThrough
  <2>7. S \in SUBSET {a \in DOMAIN code : BlockOf(a) # f}
    BY DEF Elsewhere
  <2>8. Cardinality(S \cup Decoded(f)) = Cardinality(S) + (EndAddr(f) - StartAddr(f))
    BY <2>2, <2>7, CountedBeside
  <2>9. S \cup Decoded(f) \subseteq Elsewhere(b)
    <3>1. Decoded(f) \subseteq DOMAIN code /\ \A a \in Decoded(f) : BlockOf(a) = f
      BY <2>2, WholeBlock
    <3> QED
      BY <2>2, <3>1 DEF Elsewhere
  <2> QED
    BY <2>6, <2>8, <2>9
<1> QED
  BY <1>2, <1>3

----------------------------------------------------------------------------
LEMMA MainStep == [MainNext]_mainVars => [Next]_allVars
<1> SUFFICES ASSUME [MainNext]_mainVars PROVE [Next]_allVars
  OBVIOUS
<1>1. CASE UNCHANGED mainVars
  BY <1>1 DEF mainVars
<1>2. CASE Recover
  BY <1>2 DEF Recover
<1>3. CASE Prepare
  BY <1>3 DEF Prepare, Next
<1>4. CASE OrderStep
  BY <1>4 DEF OrderStep, Next, OrderBlocks, Order!Next
<1>5. CASE AnalyseBlock
  <2>1. PICK b \in 0 .. (blockNum - 1) : Order!Analyse(b)
    BY <1>5 DEF AnalyseBlock
  <2>2. Order!Next /\ UNCHANGED cfgVars
    BY <1>5, <2>1 DEF AnalyseBlock, Order!Next, Order!Blocks
  <2> QED
    BY <2>2 DEF Next, OrderBlocks
<1> QED
  BY <1>1, <1>2, <1>3, <1>4, <1>5 DEF MainNext

(* Before the analysis there is nothing to remember.                       *)
LEMMA NothingRecorded ==
    ASSUME analysed' = {}, missed' = {}, DOMAIN blockEsp' = {}, (phase # "cfg" => Recovered)'
    PROVE  Recorded' /\ BlocksOnPaths' /\ MissedOnPaths'
BY DEF Recorded, BlocksOnPaths, MissedOnPaths

(* What the values that count are the same for.                            *)
LEMMA GraphKept ==
    ASSUME UNCHANGED <<cfgVars, body>>
    PROVE  /\ Index' = Index /\ Length' = Length /\ NoDead' = NoDead /\ complete' = complete
           /\ \A g : PathTable(g)' <=> PathTable(g)
           /\ \A b : StartAddr(b)' = StartAddr(b) /\ EndAddr(b)' = EndAddr(b)
           /\ \A a : Successors(a)' = Successors(a) /\ BlockOf(a)' = BlockOf(a)
           /\ depth' = depth => \A b : Order!Merged(b)' = Order!Merged(b)
<1> USE DEF cfgVars
<1>1. Index' = Index /\ Length' = Length /\ complete' = complete
  BY DEF Index, Length, blockNum
<1>2. \A a : Successors(a)' = Successors(a) /\ BlockOf(a)' = BlockOf(a)
  BY DEF Successors, BlockOf, Length
<1>3. NoDead' = NoDead
  BY <1>2 DEF NoDead, AllUnderstood, Understood
<1>4. \A b : StartAddr(b)' = StartAddr(b) /\ EndAddr(b)' = EndAddr(b)
  BY DEF StartAddr, EndAddr, BlockAt, blockNum, Length
<1>5. \A g : PathTable(g)' <=> PathTable(g)
  BY DEF PathTable, Table, Advance, Spread, Successors, Length
<1>6. depth' = depth => \A b : Order!Merged(b)' = Order!Merged(b)
  BY DEF Order!Merged, Order!Fathers, Order!Blocks, blockNum
<1> QED
  BY <1>1, <1>2, <1>3, <1>4, <1>5, <1>6

LEMMA RecordKept ==
    ASSUME AnalysisInv, phase # "cfg",
           UNCHANGED <<cfgVars, body, scanVars, blockEsp, missed, analysed, depth>>,
           phase' \in {"analyse", "done"} \/ phase' = phase
    PROVE  Recorded' /\ BlocksOnPaths' /\ MissedOnPaths'
<1> USE DEF AnalysisInv
<1>1. /\ Index' = Index /\ Length' = Length /\ NoDead' = NoDead /\ complete' = complete
      /\ \A g : PathTable(g)' <=> PathTable(g)
      /\ \A b : StartAddr(b)' = StartAddr(b) /\ EndAddr(b)' = EndAddr(b)
      /\ \A a : Successors(a)' = Successors(a) /\ BlockOf(a)' = BlockOf(a)
      /\ \A b : Order!Merged(b)' = Order!Merged(b)
  BY GraphKept
<1>2. Recovered' = Recovered /\ code' = code /\ body' = body
  BY DEF Recovered, scanVars, cfgVars
<1>3. \A b : Elsewhere(b)' = Elsewhere(b)
  BY <1>1, <1>2 DEF Elsewhere
<1>4. ASSUME NEW b PROVE EntryEsp(b)' = EntryEsp(b)
  <2>1. Order!Merged(b)' = Order!Merged(b) /\ blockEsp' = blockEsp
    BY <1>1
  <2> QED
    BY <2>1 DEF EntryEsp
<1>5. ASSUME NEW S, NEW b, NEW g PROVE ReachedThrough(S, b, g)' = ReachedThrough(S, b, g)
  BY <1>1, <1>4 DEF ReachedThrough
<1>6. \A o, e : Finds(o, e)' = Finds(o, e)
  BY DEF Finds, Recovery!StackOffset, scanVars
<1>7. Recorded'
  BY <1>1, <1>2 DEF Recorded
<1>8. BlocksOnPaths'
  BY <1>1, <1>3, <1>5 DEF BlocksOnPaths
<1>9. MissedOnPaths'
  BY <1>1, <1>2, <1>6 DEF MissedOnPaths, LooksUp, Recovery!OnStack, Recovery!Access,
     Recovery!MemoryOperand, Recovery!SkippedClasses
<1> QED
  BY <1>7, <1>8, <1>9

(* A block is analysed: its first father was, so that a path comes here.   *)
LEMMA AnalyseRecorded ==
    ASSUME AnalysisInv, AnalyseBlock
    PROVE  Recorded' /\ BlocksOnPaths' /\ MissedOnPaths'
<1> USE DEF AnalysisInv
<1>1. PICK b \in 0 .. (blockNum - 1) :
        /\ Order!Analyse(b)
        /\ IF halt' # "none" THEN UNCHANGED <<blockEsp, missed>>
           ELSE LET E == EspIn(b)
                    end == StartAddr(b) + Cardinality(Decoded(b))
                IN  /\ blockEsp' = [c \in DOMAIN blockEsp \cup {b} |->
                                        IF c = b THEN E[end] ELSE blockEsp[c]]
                    /\ missed' = missed \cup
                        {a \in Decoded(b) : LooksUp(body[a])
                                            /\ ~Finds(Recovery!Access(body[a]), E[a])}
  BY DEF AnalyseBlock
<1>2. /\ phase = "analyse" /\ phase' = phase /\ depth' = depth
      /\ UNCHANGED <<cfgVars, body, scanVars>>
      /\ halt' = Order!MergeVerdict(b) /\ b \notin analysed /\ b \in Index
      /\ analysed' = IF halt' = "none" THEN analysed \cup {b} ELSE analysed
  BY <1>1 DEF AnalyseBlock, Order!Analyse, Order!Found, Order!Pending, Index
<1>3. CASE halt' # "none"
  BY <1>1, <1>2, <1>3, RecordKept
<1>4. CASE halt' = "none"
  <2> DEFINE E == EspIn(b)
             end == StartAddr(b) + Cardinality(Decoded(b))
             lost == {a \in Decoded(b) :
                        LooksUp(body[a]) /\ ~Finds(Recovery!Access(body[a]), E[a])}
  <2>1. /\ blockEsp' = [c \in DOMAIN blockEsp \cup {b} |->
                            IF c = b THEN E[end] ELSE blockEsp[c]]
        /\ missed' = missed \cup lost /\ analysed' = analysed \cup {b}
    BY <1>1, <1>2, <1>4
  <2> HIDE DEF E, end, lost
  <2>2. Order!Merged(b) \subseteq analysed /\ (Order!Merged(b) = {} <=> b = 0)
    BY <1>2, <1>4, MergeUsable
  <2>3. /\ Index' = Index /\ Length' = Length /\ NoDead' = NoDead /\ complete' = complete
        /\ \A g : PathTable(g)' <=> PathTable(g)
        /\ \A c : StartAddr(c)' = StartAddr(c) /\ EndAddr(c)' = EndAddr(c)
        /\ \A a : Successors(a)' = Successors(a) /\ BlockOf(a)' = BlockOf(a)
        /\ \A c : Order!Merged(c)' = Order!Merged(c)
        /\ code' = code /\ body' = body
    BY <1>2, GraphKept DEF cfgVars
  <2>4. \A c \in analysed' : Order!Merged(c) \subseteq analysed
    BY <2>1, <2>2 DEF Recorded
  <2>5. /\ DOMAIN blockEsp = analysed /\ DOMAIN blockEsp' = analysed'
        /\ blockEsp'[b] = E[end] /\ \A c \in analysed : blockEsp'[c] = blockEsp[c]
    BY <1>2, <2>1 DEF Recorded
  <2>6. Recorded'
    <3>1. Recovered' = Recovered
      BY <1>2 DEF Recovered, scanVars
    <3> QED
      BY <1>2, <2>1, <2>3, <2>4, <2>5, <3>1 DEF Recorded
  <2>7. ASSUME NEW c \in analysed' PROVE EntryEsp(c)' = EntryEsp(c)
    <3>1. Order!Merged(c)' = Order!Merged(c)
      BY <2>3
    <3>2. CASE Order!Merged(c) = {}
      BY <3>1, <3>2 DEF EntryEsp
    <3>3. CASE Order!Merged(c) # {}
      <4>1. blockNum \in Nat
        BY BlocksExist DEF FunctionInv
      <4> DEFINE f == CHOOSE f \in Order!Merged(c) : \A g \in Order!Merged(c) : f <= g
      <4>2. f \in Order!Merged(c)
        BY <3>3, <4>1, FirstMerged
      <4>3. blockEsp'[f] = blockEsp[f]
        BY <2>4, <2>5, <4>2
      <4> QED
        BY <3>1, <3>3, <4>3 DEF EntryEsp
    <3> QED
      BY <3>2, <3>3
  <2>8. ASSUME complete, NoDead, NEW g, PathTable(g)
        PROVE  /\ \A c \in analysed' : \E S \in SUBSET Elsewhere(c)' : ReachedThrough(S, c, g)'
               /\ \A a \in missed' :
                    /\ a \in DOMAIN code /\ LooksUp(body[a])
                    /\ \E e : <<a, e>> \in g[Length] /\ ~Finds(Recovery!Access(body[a]), e)
    <3>1. LiveGraph
      <4>1. CfgInv /\ stage = "built"
        BY <1>2 DEF FunctionInv, Searching
      <4> QED
        BY <2>8, <4>1, NodesInside DEF LiveGraph, Readable, NoDead
    <3>2. \A c \in analysed : \E S \in SUBSET Elsewhere(c) : ReachedThrough(S, c, g)
      BY <2>8 DEF BlocksOnPaths
    <3>3. PICK S \in SUBSET Elsewhere(b) : <<StartAddr(b), EntryEsp(b)>> \in g[Cardinality(S)]
      BY <1>2, <2>2, <2>8, <3>1, <3>2, EntryReached DEF Recorded
    <3>4. S \in SUBSET {a \in DOMAIN code : BlockOf(a) # b}
      BY DEF Elsewhere
    <3>5. Cardinality(S) \in Nat /\ Cardinality(S) + (EndAddr(b) - StartAddr(b)) <= Length
      BY <1>2, <3>1, <3>4, CountedBeside
    <3>6. /\ \A a \in Decoded(b) : <<a, E[a]>> \in g[Cardinality(S) + (a - StartAddr(b))]
          /\ EndAddr(b) - StartAddr(b) > 0 => \A t \in Successors(EndAddr(b) - 1) :
                <<t, E[EndAddr(b)]>> \in g[Cardinality(S) + (EndAddr(b) - StartAddr(b))]
      BY <1>2, <2>8, <3>1, <3>3, <3>5, WalkOn DEF E
    <3>7. /\ StartAddr(b) \in Nat /\ EndAddr(b) \in Nat /\ end = EndAddr(b)
          /\ Decoded(b) = StartAddr(b) .. (EndAddr(b) - 1) /\ Decoded(b) \subseteq DOMAIN code
      BY <1>2, <3>1, WholeBlock, BlockSpan DEF LiveGraph, Readable, end
    <3>8. ASSUME NEW c \in analysed
          PROVE  \E T \in SUBSET Elsewhere(c)' : ReachedThrough(T, c, g)'
      <4>1. PICK T \in SUBSET Elsewhere(c) : ReachedThrough(T, c, g)
        BY <3>2
      <4>2. Elsewhere(c) \subseteq Elsewhere(c)'
        BY <2>1, <2>3 DEF Elsewhere
      <4>3. EntryEsp(c)' = EntryEsp(c) /\ blockEsp'[c] = blockEsp[c]
        BY <2>1, <2>5, <2>7
      <4>4. ReachedThrough(T, c, g)'
        BY <2>3, <4>1, <4>3 DEF ReachedThrough
      <4> QED
        BY <4>1, <4>2, <4>4
    <3>9. \E T \in SUBSET Elsewhere(b)' : ReachedThrough(T, b, g)'
      <4>1. Elsewhere(b) \subseteq Elsewhere(b)'
        BY <2>1, <2>3 DEF Elsewhere
      <4>2. EntryEsp(b)' = EntryEsp(b) /\ blockEsp'[b] = E[EndAddr(b)]
        BY <2>1, <2>5, <2>7, <3>7
      <4>3. ReachedThrough(S, b, g)'
        BY <2>3, <3>3, <3>6, <4>2 DEF ReachedThrough
      <4> QED
        BY <3>3, <4>1, <4>3
    <3>10. ASSUME NEW a \in lost
           PROVE  /\ a \in DOMAIN code /\ LooksUp(body[a])
                  /\ \E e : <<a, e>> \in g[Length] /\ ~Finds(Recovery!Access(body[a]), e)
      <4>1. a \in Decoded(b) /\ LooksUp(body[a]) /\ ~Finds(Recovery!Access(body[a]), E[a])
        BY DEF lost
      <4>2. <<a, E[a]>> \in g[Cardinality(S) + (a - StartAddr(b))]
        BY <3>6, <4>1
      <4>3. Length \in Nat /\ Cardinality(S) + (a - StartAddr(b)) \in 0 .. Length
        <5>1. Length \in Nat
          BY <3>1 DEF LiveGraph, Readable, CfgInv, Types
        <5> QED
          BY <3>5, <3>7, <4>1, <5>1
      <4>4. <<a, E[a]>> \in g[Length]
        BY <2>8, <4>2, <4>3, PathsGrow
      <4> QED
        BY <3>7, <4>1, <4>4
    <3>11. \A a \in missed :
            /\ a \in DOMAIN code /\ LooksUp(body[a])
            /\ \E e : <<a, e>> \in g[Length] /\ ~Finds(Recovery!Access(body[a]), e)
      BY <2>8 DEF MissedOnPaths
    <3> QED
      BY <2>1, <3>8, <3>9, <3>10, <3>11
  <2>9. BlocksOnPaths'
    BY <2>3, <2>8 DEF BlocksOnPaths
  <2>10. MissedOnPaths'
    <3>1. \A o, e : Finds(o, e)' = Finds(o, e)
      BY <1>2 DEF Finds, Recovery!StackOffset, scanVars
    <3>2. ASSUME complete, NoDead, NEW g, PathTable(g), NEW a \in missed'
          PROVE  /\ a \in DOMAIN code /\ LooksUp(body[a])
                 /\ \E e : <<a, e>> \in g[Length] /\ ~Finds(Recovery!Access(body[a]), e)
      BY <2>8, <3>2
    <3> QED
      BY <2>3, <3>1, <3>2 DEF MissedOnPaths, LooksUp, Recovery!OnStack, Recovery!Access,
         Recovery!MemoryOperand, Recovery!SkippedClasses
  <2> QED
    BY <2>6, <2>9, <2>10
<1> QED
  BY <1>3, <1>4

LEMMA AnalysisInvariance == MainSpec => []AnalysisInv
<1>1. MainInit => AnalysisInv
  <2> SUFFICES ASSUME MainInit PROVE AnalysisInv
    OBVIOUS
  <2>1. FunctionInv
    BY FunctionInit DEF MainInit
  <2>2. phase = "cfg" /\ analysed = {} /\ missed = {} /\ DOMAIN blockEsp = {}
    BY DEF MainInit, Init
  <2> QED
    BY <2>1, <2>2 DEF AnalysisInv, Recorded, BlocksOnPaths, MissedOnPaths
<1>2. AnalysisInv /\ [MainNext]_mainVars => AnalysisInv'
  <2> SUFFICES ASSUME AnalysisInv, [MainNext]_mainVars
               PROVE  Recorded' /\ BlocksOnPaths' /\ MissedOnPaths'
    BY MainStep, FunctionStep DEF AnalysisInv
  <2> USE DEF AnalysisInv
  <2>1. CASE Recover
    <3>1. outcome = "scanning"
      BY <2>1 DEF Recover, Recovery!Find, Recovery!Undecodable, Recovery!GetResult
    <3>2. phase = "cfg"
      BY <3>1 DEF Recorded, Recovered
    <3> QED
      BY <2>1, <3>2, NothingRecorded DEF Recorded, Recover, allVars, orderVars
  <2>2. CASE Prepare
    <3>1. /\ UNCHANGED <<blockEsp, missed>> /\ Recovered /\ Recovered'
          /\ BuildGraph \/ StartOrder
      BY <2>2 DEF Prepare, Recovered, scanVars
    <3>2. phase = "cfg" /\ analysed' = analysed
      <4>1. CASE BuildGraph
        <5>1. stage # "built"
          BY <4>1 DEF BuildGraph, CfgNext, ScanPlain, ScanJump, ScanBranch, ScanBad, ScanEnd, Join,
                      JoinSkip, JoinEntry, JoinEnd, BuildMatrix
        <5> QED
          BY <4>1, <5>1 DEF BuildGraph, orderVars, FunctionInv, Searching
      <4>2. CASE StartOrder
        BY <4>2 DEF StartOrder
      <4> QED
        BY <3>1, <4>1, <4>2
    <3> QED
      BY <3>1, <3>2, NothingRecorded DEF Recorded
  <2>3. CASE OrderStep
    <3>1. UNCHANGED <<cfgVars, body, scanVars, blockEsp, missed, analysed>> /\ Recovered' = Recovered
      BY <2>3 DEF OrderStep, Order!Pop, Order!Reach, Order!Skip, Order!CalcDone,
                  Order!Deepen, Order!Finish, Recovered, scanVars
    <3>2. CASE phase = "calc"
      BY <3>1, <3>2, NothingRecorded DEF Recorded
    <3>3. CASE phase # "calc"
      <4>1. phase = "analyse" /\ phase' \in {"analyse", "done"} /\ depth' = depth
        BY <2>3, <3>3 DEF OrderStep, Order!Pop, Order!Reach, Order!Skip, Order!CalcDone,
                          Order!Deepen, Order!Finish
      <4> QED
        BY <3>1, <4>1, RecordKept
    <3> QED
      BY <3>2, <3>3
  <2>4. CASE AnalyseBlock
    BY <2>4, AnalyseRecorded
  <2>5. CASE UNCHANGED mainVars
    <3>1. UNCHANGED <<cfgVars, body, scanVars, blockEsp, missed, analysed, depth, phase>>
          /\ Recovered' = Recovered
      BY <2>5 DEF mainVars, allVars, orderVars, scanVars, Recovered
    <3>2. CASE phase = "cfg"
      BY <3>1, <3>2, NothingRecorded DEF Recorded
    <3>3. CASE phase # "cfg"
      BY <3>1, <3>3, RecordKept
    <3> QED
      BY <3>2, <3>3
  <2> QED
    BY <2>1, <2>2, <2>3, <2>4, <2>5 DEF MainNext
<1> QED
  BY <1>1, <1>2, PTL DEF MainSpec

(* The ESP a block is analysed with is no invention of the order of the    *)
(* blocks: without dead code, some path from the entry has it there.       *)
THEOREM EspOnPaths == MainSpec => []EspOfSomePath
<1>1. AnalysisInv => EspOfSomePath
  <2> SUFFICES ASSUME AnalysisInv, complete, AllUnderstood, AllLive, NEW b \in DOMAIN blockEsp
               PROVE  <<StartAddr(b), EntryEsp(b)>> \in PathEsps
    BY DEF EspOfSomePath
  <2>1. b \in analysed /\ b \in Index /\ phase # "cfg"
    BY DEF AnalysisInv, Recorded
  <2>2. CfgInv /\ stage = "built" /\ Length \in Nat
    BY <2>1 DEF AnalysisInv, FunctionInv, Searching, CfgInv, Types
  <2>3. NoDead
    BY <2>2, LiveHasFathers
  <2>4. LiveGraph
    BY <2>2, <2>3, NodesInside DEF LiveGraph, Readable, NoDead
  <2>5. PICK g : PathTable(g) /\ PathEsps = g[Length]
    BY <2>2, PathsUnfold
  <2>6. PICK S \in SUBSET Elsewhere(b) : ReachedThrough(S, b, g)
    BY <2>1, <2>3, <2>5 DEF AnalysisInv, BlocksOnPaths
  <2>7. S \in SUBSET {a \in DOMAIN code : BlockOf(a) # b}
    BY DEF Elsewhere
  <2>8. Cardinality(S) \in Nat /\ Cardinality(S) + (EndAddr(b) - StartAddr(b)) <= Length
        /\ StartAddr(b) \in Nat /\ EndAddr(b) \in Nat /\ StartAddr(b) <= EndAddr(b)
    BY <2>1, <2>4, <2>7, CountedBeside, BlockSpan DEF LiveGraph, Readable
  <2>9. Cardinality(S) \in 0 .. Length
    BY <2>2, <2>8
  <2> QED
    BY <2>2, <2>5, <2>6, <2>9, PathsGrow DEF ReachedThrough
<1> QED
  BY <1>1, AnalysisInvariance, PTL

----------------------------------------------------------------------------
(* The keys of a map in their order: the smallest one of some of them.     *)
LEMMA SmallestKey ==
    ASSUME NEW D, IsFiniteSet(D), D \subseteq Int, NEW T \in SUBSET D, T # {}
    PROVE  \E p \in T : \A q \in T : p <= q
<1> DEFINE Below(p) == {q \in T : q < p}
           R == {Cardinality(Below(p)) : p \in T}
<1>1. ASSUME NEW p \in T PROVE IsFiniteSet(Below(p)) /\ Cardinality(Below(p)) \in Nat
  BY FS_Subset, FS_CardinalityType
<1>2. PICK r \in R : \A s \in R : r <= s
  <2>1. R \subseteq Nat /\ R # {}
    BY <1>1
  <2> HIDE DEF R
  <2> QED
    BY <2>1, LeastNumber
<1>3. PICK p \in T : r = Cardinality(Below(p))
  OBVIOUS
<1>4. ASSUME NEW q \in T, q < p PROVE FALSE
  <2>1. Cardinality(Below(p)) <= Cardinality(Below(q))
    BY <1>2, <1>3
  <2>2. Below(q) \subseteq Below(p) /\ q \in Below(p) /\ q \notin Below(q)
    <3>1. \A m \in T : m < q => m < p
      BY <1>4
    <3>2. ~ (q < q)
      OBVIOUS
    <3> QED
      BY <1>4, <3>1, <3>2
  <2>3. IsFiniteSet(Below(p)) /\ Cardinality(Below(p)) \in Nat /\ Cardinality(Below(q)) \in Nat
    BY <1>1
  <2> HIDE DEF Below
  <2>4. Cardinality(Below(q)) < Cardinality(Below(p))
    BY <2>2, <2>3, FS_Subset
  <2> QED
    BY <2>1, <2>3, <2>4
<1> QED
  BY <1>4

(* A map without keys has no walk.                                         *)
LEMMA NoKeys ==
    ASSUME NEW map, DOMAIN map = {}
    PROVE  Recovery!Sorted(map) = [k \in 1 .. 0 |-> Recovery!Sorted(map)[k]]
<1> DEFINE Empty(g) == g = [k \in 1 .. 0 |->
                              IF k = 1 THEN Recovery!First(map)
                              ELSE Recovery!Following(map, g[k - 1])]
           K == CHOOSE g : Empty(g)
<1>1. Cardinality(DOMAIN map) = 0
  BY FS_EmptySet
<1>2. Recovery!Sorted(map) = K
  BY <1>1 DEF Recovery!Sorted, Recovery!Cardinality, Cardinality
<1>3. Empty([k \in 1 .. 0 |-> k])
  <2>1. 1 .. 0 = {}
    OBVIOUS
  <2> QED
    BY <2>1
<1>4. Empty(K)
  <2> HIDE DEF Empty
  <2> QED
    BY <1>3
<1> HIDE DEF K
<1> QED
  BY <1>2, <1>4

(* The walk of getResult() comes by every key: before one that it missed   *)
(* it would have to take as many keys as there are, all different.         *)
LEMMA KeysFound ==
    ASSUME NEW map, IsFiniteSet(DOMAIN map), DOMAIN map \subseteq Int, NEW o \in DOMAIN map
    PROVE  LET n == Cardinality(DOMAIN map)
           IN  /\ n \in Nat
               /\ Recovery!Sorted(map) = [k \in 1 .. n |-> Recovery!Sorted(map)[k]]
               /\ \E k \in 1 .. n : Recovery!Sorted(map)[k] = o
<1> DEFINE D == DOMAIN map
           n == Cardinality(D)
           what == <<"keys", map>>
           K == CHOOSE g : Table(g, what, 1, n, Recovery!First(map))
<1>1. n \in Nat /\ n >= 1
  BY FS_CardinalityType, FS_EmptySet
<1>2. Table(K, what, 1, n, Recovery!First(map))
  <2>1. \E g : Table(g, what, 1, 1 + (n - 1), Recovery!First(map))
    <3>1. n - 1 \in Nat /\ 1 \in Int
      BY <1>1
    <3> HIDE DEF n, what
    <3> QED
      BY <3>1, TableFrom
  <2>2. 1 + (n - 1) = n
    BY <1>1
  <2> HIDE DEF n, what
  <2> QED
    BY <2>1, <2>2
<1>3. Recovery!Sorted(map) = K
  BY DEF Recovery!Sorted, Recovery!Cardinality, Cardinality, Table, Advance
<1> HIDE DEF K, n
<1>4. K = [k \in 1 .. n |-> K[k]]
  BY <1>2 DEF Table
<1>5. /\ K[1] = Recovery!First(map)
      /\ \A k \in 2 .. n : K[k] = Recovery!Following(map, K[k - 1])
  <2>1. \A k \in 1 .. n :
            K[k] = IF k = 1 THEN Recovery!First(map) ELSE Recovery!Following(map, K[k - 1])
    BY <1>2 DEF Table, Advance
  <2>2. 1 \in 1 .. n /\ \A k \in 2 .. n : k \in 1 .. n /\ k # 1
    BY <1>1
  <2> QED
    BY <2>1, <2>2
<1>6. Recovery!First(map) \in D /\ \A q \in D : Recovery!First(map) <= q
  BY SmallestKey DEF Recovery!First
<1>7. ASSUME NEW p \in D, p < o
      PROVE  Recovery!Following(map, p) \in D /\ p < Recovery!Following(map, p)
             /\ Recovery!Following(map, p) <= o
  <2>1. Recovery!Above(map, p) \in SUBSET D /\ o \in Recovery!Above(map, p)
    BY <1>7 DEF Recovery!Above
  <2>2. /\ Recovery!Following(map, p) \in Recovery!Above(map, p)
        /\ \A q \in Recovery!Above(map, p) : Recovery!Following(map, p) <= q
    BY <2>1, SmallestKey DEF Recovery!Following
  <2> QED
    BY <2>1, <2>2 DEF Recovery!Above
<1>8. ASSUME \A k \in 1 .. n : K[k] # o PROVE FALSE
  <2>1. ASSUME NEW k \in 2 .. n, K[k - 1] \in D, K[k - 1] < o
        PROVE  K[k] \in D /\ K[k - 1] < K[k] /\ K[k] < o
    <3>1. K[k] # o /\ K[k] = Recovery!Following(map, K[k - 1])
      BY <1>1, <1>5, <1>8
    <3>2. K[k] \in D /\ K[k - 1] < K[k] /\ K[k] <= o
      BY <1>7, <2>1, <3>1
    <3> QED
      BY <3>1, <3>2
  <2> DEFINE Right(k) == K[k] \in D /\ K[k] < o /\ \A i \in 1 .. (k - 1) : K[i] < K[k]
             Bad == {k \in 1 .. n : ~ Right(k)}
  <2>2. ASSUME Bad # {} PROVE FALSE
    <3>1. PICK k \in Bad : \A y \in Bad : k <= y
      <4>1. Bad \subseteq Nat
        OBVIOUS
      <4> HIDE DEF Bad
      <4> QED
        BY <2>2, <4>1, LeastNumber
    <3>2. k \in 1 .. n /\ n \in Nat
      BY <1>1
    <3>3. ~ Right(k)
      OBVIOUS
    <3>4. CASE k = 1
      <4>1. K[1] \in D /\ K[1] <= o /\ K[1] # o
        BY <1>1, <1>5, <1>6, <1>8
      <4>2. K[1] < o
        BY <4>1
      <4> QED
        BY <3>3, <3>4, <4>1, <4>2
    <3>5. CASE k # 1
      <4>1. k \in 2 .. n /\ k - 1 \in 1 .. n /\ ~ (k <= k - 1)
        BY <3>2, <3>5
      <4>2. Right(k - 1)
        BY <3>1, <4>1
      <4>3. K[k] \in D /\ K[k - 1] < K[k] /\ K[k] < o
        BY <2>1, <4>1, <4>2
      <4>4. ASSUME NEW i \in 1 .. (k - 1) PROVE K[i] < K[k]
        <5>1. CASE i = k - 1
          BY <4>3, <5>1
        <5>2. CASE i # k - 1
          <6>1. i \in 1 .. ((k - 1) - 1) /\ i \in 1 .. n /\ ~ (k <= i)
            BY <3>2, <5>2
          <6>2. K[i] < K[k - 1] /\ K[i] \in D
            BY <3>1, <4>2, <6>1
          <6> QED
            BY <4>2, <4>3, <6>2
        <5> QED
          BY <5>1, <5>2
      <4> QED
        BY <3>3, <4>3, <4>4
    <3> QED
      BY <3>4, <3>5
  <2>3. \A k \in 1 .. n : Right(k)
    BY <2>2
  <2>4. K \in [1 .. n -> D \ {o}]
    BY <1>4, <1>8, <2>3
  <2>5. /\ IsFiniteSet(1 .. n) /\ Cardinality(1 .. n) = n
        /\ IsFiniteSet(D \ {o}) /\ Cardinality(D \ {o}) = n - 1
    <3>1. IsFiniteSet(1 .. n) /\ Cardinality(1 .. n) = n
      BY <1>1, FS_Interval
    <3>2. IsFiniteSet(D \ {o}) /\ Cardinality(D \ {o}) = Cardinality(D) - 1
      BY FS_RemoveElement
    <3> QED
      BY <3>1, <3>2 DEF n
  <2>6. Cardinality(D \ {o}) < Cardinality(1 .. n)
    BY <1>1, <2>5
  <2>7. PICK x \in 1 .. n, y \in 1 .. n : x # y /\ K[x] = K[y]
    <3> DEFINE S == 1 .. n
               T == D \ {o}
    <3>1. IsFiniteSet(S) /\ IsFiniteSet(T) /\ Cardinality(T) < Cardinality(S) /\ K \in [S -> T]
      BY <2>4, <2>5, <2>6
    <3> HIDE DEF S, T
    <3>2. \E x, y \in S : x # y /\ K[x] = K[y]
      BY <3>1, FS_PigeonHole
    <3> QED
      BY <3>2 DEF S
  <2>8. K[x] \in Int
    BY <2>3
  <2>9. CASE x < y
    <3>1. x \in 1 .. (y - 1)
      BY <2>9
    <3> QED
      BY <2>3, <2>7, <2>8, <3>1
  <2>10. CASE y < x
    <3>1. y \in 1 .. (x - 1)
      BY <2>10
    <3> QED
      BY <2>3, <2>7, <2>8, <3>1
  <2> QED
    BY <2>7, <2>9, <2>10
<1> QED
  BY <1>1, <1>3, <1>4, <1>8 DEF n

(* What comes first in a sequence stays where it is.                       *)
LEMMA JoinedFirst ==
    ASSUME NEW s, NEW t, NEW n \in Nat, NEW m \in Nat,
           s = [k \in 1 .. n |-> s[k]], t = [k \in 1 .. m |-> t[k]]
    PROVE  \A k \in 1 .. n : k \in DOMAIN (s \o t) /\ (s \o t)[k] = s[k]
<1> DEFINE X == {s[k] : k \in 1 .. n} \cup {t[k] : k \in 1 .. m}
<1>1. s \in Seq(X) /\ t \in Seq(X) /\ Len(s) = n /\ Len(t) = m
  <2>1. (\A k \in 1 .. n : s[k] \in X) /\ \A k \in 1 .. m : t[k] \in X
    OBVIOUS
  <2> HIDE DEF X
  <2>2. [k \in 1 .. n |-> s[k]] \in Seq(X) /\ Len([k \in 1 .. n |-> s[k]]) = n
    BY <2>1
  <2>3. [k \in 1 .. m |-> t[k]] \in Seq(X) /\ Len([k \in 1 .. m |-> t[k]]) = m
    BY <2>1
  <2> QED
    BY <2>2, <2>3
<1> HIDE DEF X
<1> QED
  BY <1>1

----------------------------------------------------------------------------
(* l holds ESP before each address, in the order of the addresses.         *)
LinearTable(l) == Table(l, <<"esp">>, 0, Length, UNKNOWN)

LEMMA LinearUnfolds == ASSUME Length \in Nat PROVE LinearTable(LinearEsp)
<1> DEFINE l == CHOOSE h : LinearTable(h)
<1>1. LinearTable(l)
  <2>1. \E h : Table(h, <<"esp">>, 0, 0 + Length, UNKNOWN)
    BY TableFrom
  <2>2. 0 + Length = Length
    OBVIOUS
  <2>3. \E h : LinearTable(h)
    BY <2>1, <2>2 DEF LinearTable
  <2> QED
    BY <2>3
<1>2. LinearEsp = l
  BY DEF LinearEsp, LinearTable, Table, Advance
<1> QED
  BY <1>1, <1>2

Executed == Bodies \cup {Jump}

LEMMA ExecutedTyped ==
    ASSUME NEW i \in Executed, NEW e \in Int
    PROVE  /\ ~Recovery!TrackFails(i) /\ ~TrackFails(i)
           /\ Recovery!TrackESP(e, i) = TrackESP(e, i) /\ TrackESP(e, i) \in Int
           /\ Recovery!Access(i).disp \in Int
           /\ Recovery!StackOffset(Recovery!Access(i), e) \in Int
<1> USE DEF IsReg, NoOperand, Operand, Recovery!IsReg, Recovery!NoOperand, Recovery!Operand
<1>1. ~TrackFails(i) /\ i.dst.disp \in Int /\ i.src.disp \in Int
  BY BodiesAssumption DEF Executed, Jump, Instr, TrackFails
<1>2. ~Recovery!TrackFails(i)
  BY <1>1 DEF TrackFails, IsImmediate, Recovery!TrackFails, Recovery!IsImmediate
<1>3. Moved(i) \in Int /\ Recovery!Moved(i) = Moved(i)
  BY <1>1 DEF Moved, Recovery!Moved
<1>4. UNKNOWN \in Int /\ Recovery!UNKNOWN = UNKNOWN
  BY DEF UNKNOWN, Recovery!UNKNOWN
<1>5. Recovery!TrackESP(e, i) = TrackESP(e, i) /\ TrackESP(e, i) \in Int
  BY <1>3, <1>4 DEF TrackESP, AddESP, SetsESP, Recovery!TrackESP, Recovery!AddESP,
                    Recovery!SetsESP
<1>6. Recovery!Access(i).disp \in Int
  BY <1>1 DEF Recovery!Access, Recovery!MemoryOperand, Recovery!Mem, Recovery!MemIndexed
<1>7. Recovery!StackOffset(Recovery!Access(i), e) \in Int
  BY <1>6 DEF Recovery!StackOffset
<1> QED
  BY <1>1, <1>2, <1>5, <1>6, <1>7

(* No instruction both moves ESP and is looked at for a place on the stack.*)
LEMMA LookupKeepsEsp ==
    ASSUME NEW i \in Executed, NEW e \in Int, Recovery!OnStack(Recovery!Access(i))
    PROVE  TrackESP(e, i) = e
<1> USE DEF IsReg, Recovery!IsMemory, Recovery!NoOperand, Recovery!Operand
<1>1. i.op \notin {"PUSH", "POP", "ENTER", "LEAVE"}
  BY DEF Recovery!Access, Recovery!SkippedClasses, Recovery!OnStack
<1>2. i.dst.kind = "mem" \/ i.src.kind = "mem"
        \/ i.op \in {"CALL", "PUSHF", "POPF", "PUSHA", "POPA"}
  BY DEF Recovery!Access, Recovery!MemoryOperand, Recovery!OnStack, Recovery!StackClasses
<1>3. ~SetsESP(i)
  BY <1>1, <1>2 DEF SetsESP
<1>4. ~(i.op \in {"ADD", "SUB"} /\ IsReg(i.dst, "ESP"))
  BY <1>2, ExecutedTyped DEF TrackFails, IsImmediate
<1>5. Moved(i) = 0
  BY <1>1, <1>4 DEF Moved
<1> QED
  BY <1>3, <1>5 DEF TrackESP, AddESP

(* The first pass has filed what the instructions so far address, with the *)
(* ESP it had there.                                                       *)
Filed ==
    \A l : LinearTable(l) =>
        /\ scanEsp = l[steps]
        /\ \A a \in 0 .. (steps - 1) : Recovery!OnStack(Recovery!Access(body[a])) =>
                Recovery!StackOffset(Recovery!Access(body[a]), l[a + 1]) \in DOMAIN stack_variable

ScanInv ==
    /\ Length \in Nat /\ DOMAIN code = 0 .. (Length - 1)
    /\ body \in [DOMAIN code -> Executed]
    /\ steps \in 0 .. Length /\ scanEsp \in Int
    /\ IsFiniteSet(DOMAIN stack_variable) /\ DOMAIN stack_variable \subseteq Int
    /\ IsFiniteSet(DOMAIN absolute_variable) /\ DOMAIN absolute_variable \subseteq Int
    /\ outcome = "found" => steps = Length /\ container = Recovery!Entries
    /\ outcome = "undecodable" => \E a \in DOMAIN code : code[a].op = "bad"
    /\ Filed

(* ESP is a number at every address.                                       *)
LEMMA LinearTyped ==
    ASSUME ScanInv, NEW l, LinearTable(l), NEW a \in 0 .. Length
    PROVE  l[a] \in Int
<1> DEFINE Bad == {k \in 0 .. Length : l[k] \notin Int}
<1>1. Length \in Nat /\ DOMAIN code = 0 .. (Length - 1) /\ body \in [DOMAIN code -> Executed]
  BY DEF ScanInv
<1>2. \A k \in 0 .. Length : l[k] = IF k = 0 THEN UNKNOWN ELSE TrackESP(l[k - 1], body[k - 1])
  BY DEF LinearTable, Table, Advance
<1>3. ASSUME Bad # {} PROVE FALSE
  <2>1. PICK k \in Bad : \A y \in Bad : k <= y
    <3>1. Bad \subseteq Nat
      OBVIOUS
    <3> HIDE DEF Bad
    <3> QED
      BY <1>3, <3>1, LeastNumber
  <2>2. k \in 0 .. Length /\ l[k] \notin Int
    OBVIOUS
  <2>3. k # 0
    BY <1>2, <2>2 DEF UNKNOWN
  <2>4. k - 1 \in 0 .. Length /\ ~ (k <= k - 1) /\ k - 1 \in DOMAIN code
    BY <1>1, <2>2, <2>3
  <2>5. l[k - 1] \in Int /\ body[k - 1] \in Executed
    BY <1>1, <2>1, <2>4
  <2>6. TrackESP(l[k - 1], body[k - 1]) \in Int
    BY <2>5, ExecutedTyped
  <2> QED
    BY <1>2, <2>2, <2>3, <2>6
<1> QED
  BY <1>3

LEMMA CodeKept == [MainNext]_mainVars => UNCHANGED <<code, body>>
<1> SUFFICES ASSUME [MainNext]_mainVars PROVE UNCHANGED <<code, body>>
  OBVIOUS
<1>1. [CfgNext]_cfgVars
  BY MainStep DEF Next, BuildGraph, StartOrder, OrderBlocks, allVars
<1>2. code' = code
  BY <1>1 DEF CfgNext, ScanPlain, ScanJump, ScanBranch, ScanBad, ScanEnd, Join, JoinSkip,
              JoinEntry, JoinEnd, BuildMatrix, cfgVars
<1>3. body' = body
  BY DEF MainNext, Recover, Prepare, OrderStep, AnalyseBlock, mainVars
<1> QED
  BY <1>2, <1>3

LEMMA FindFiles ==
    ASSUME ScanInv, steps < Length, Recovery!Find(body[steps]), UNCHANGED <<code, body>>
    PROVE  ScanInv'
<1> DEFINE i == body[steps]
           o == Recovery!Access(i)
           at == Recovery!StackOffset(o, scanEsp')
<1>1. /\ Length' = Length /\ code' = code /\ body' = body
      /\ outcome = "scanning" /\ outcome' = outcome /\ container' = container
      /\ steps' = steps + 1 /\ scanEsp' = Recovery!TrackESP(scanEsp, i)
      /\ stack_variable' = IF Recovery!OnStack(o)
                           THEN Recovery!Insert(stack_variable, at,
                                    IF o.reg = "ESP" THEN Recovery!Bytes(o) ELSE 0)
                           ELSE stack_variable
      /\ absolute_variable' = IF Recovery!IsAbsolute(o)
                              THEN Recovery!Insert(absolute_variable, o.disp, Recovery!Bytes(o))
                              ELSE absolute_variable
  BY DEF Recovery!Find, Length
<1>2. i \in Executed /\ scanEsp \in Int
  BY DEF ScanInv
<1>3. scanEsp' = TrackESP(scanEsp, i) /\ scanEsp' \in Int /\ o.disp \in Int
  BY <1>1, <1>2, ExecutedTyped
<1>4. at \in Int
  BY <1>2, <1>3, ExecutedTyped
<1> HIDE DEF at, o
<1>5. ASSUME NEW map, NEW offset, NEW size
      PROVE  DOMAIN Recovery!Insert(map, offset, size) = DOMAIN map \cup {offset}
  BY DEF Recovery!Insert
<1>6. /\ DOMAIN stack_variable' = DOMAIN stack_variable \cup (IF Recovery!OnStack(o) THEN {at} ELSE {})
      /\ DOMAIN absolute_variable'
            = DOMAIN absolute_variable \cup (IF Recovery!IsAbsolute(o) THEN {o.disp} ELSE {})
  BY <1>1, <1>5
<1>7. /\ IsFiniteSet(DOMAIN stack_variable') /\ DOMAIN stack_variable' \subseteq Int
      /\ IsFiniteSet(DOMAIN absolute_variable') /\ DOMAIN absolute_variable' \subseteq Int
  <2>1. /\ IsFiniteSet(DOMAIN stack_variable) /\ DOMAIN stack_variable \subseteq Int
        /\ IsFiniteSet(DOMAIN absolute_variable) /\ DOMAIN absolute_variable \subseteq Int
    BY DEF ScanInv
  <2>2. DOMAIN stack_variable' = DOMAIN stack_variable
        \/ DOMAIN stack_variable' = DOMAIN stack_variable \cup {at}
    BY <1>6
  <2>3. DOMAIN absolute_variable' = DOMAIN absolute_variable
        \/ DOMAIN absolute_variable' = DOMAIN absolute_variable \cup {o.disp}
    BY <1>6
  <2> QED
    BY <1>3, <1>4, <2>1, <2>2, <2>3, FS_AddElement
<1>8. ASSUME NEW l, LinearTable(l)
      PROVE  /\ scanEsp' = l[steps + 1]
             /\ \A a \in 0 .. steps : Recovery!OnStack(Recovery!Access(body[a])) =>
                    Recovery!StackOffset(Recovery!Access(body[a]), l[a + 1])
                        \in DOMAIN stack_variable'
  <2>1. scanEsp = l[steps] /\ steps \in 0 .. Length /\ Length \in Nat
    BY <1>8 DEF ScanInv, Filed
  <2>2. l[steps + 1] = TrackESP(l[steps], i)
    <3>1. \A k \in 0 .. Length : l[k] = IF k = 0 THEN UNKNOWN ELSE TrackESP(l[k - 1], body[k - 1])
      BY <1>8 DEF LinearTable, Table, Advance
    <3>2. steps + 1 \in 0 .. Length /\ steps + 1 # 0 /\ (steps + 1) - 1 = steps
      BY <2>1
    <3> QED
      BY <3>1, <3>2
  <2>3. scanEsp' = l[steps + 1]
    BY <1>3, <2>1, <2>2
  <2>4. ASSUME NEW a \in 0 .. steps, Recovery!OnStack(Recovery!Access(body[a]))
        PROVE  Recovery!StackOffset(Recovery!Access(body[a]), l[a + 1]) \in DOMAIN stack_variable'
    <3>1. CASE a = steps
      BY <1>6, <2>3, <2>4, <3>1 DEF at, o
    <3>2. CASE a # steps
      <4>1. a \in 0 .. (steps - 1)
        BY <2>1, <3>2
      <4>2. Recovery!StackOffset(Recovery!Access(body[a]), l[a + 1]) \in DOMAIN stack_variable
        BY <1>8, <2>4, <4>1 DEF ScanInv, Filed
      <4> QED
        BY <1>6, <4>2
    <3> QED
      BY <3>1, <3>2
  <2> QED
    BY <2>3, <2>4
<1>9. Filed'
  <2>1. ASSUME NEW l PROVE LinearTable(l)' <=> LinearTable(l)
    BY <1>1 DEF LinearTable, Table, Advance, Spread, Successors
  <2>2. ASSUME NEW l, LinearTable(l)
        PROVE  /\ scanEsp' = l[steps']
               /\ \A a \in 0 .. (steps' - 1) : Recovery!OnStack(Recovery!Access(body'[a])) =>
                    Recovery!StackOffset(Recovery!Access(body'[a]), l[a + 1])
                        \in DOMAIN stack_variable'
    <3>1. (steps + 1) - 1 = steps
      BY DEF ScanInv
    <3> QED
      BY <1>1, <1>8, <2>2, <3>1
  <2> QED
    BY <2>1, <2>2 DEF Filed
<1>10. steps + 1 \in 0 .. Length /\ Length \in Nat /\ DOMAIN code = 0 .. (Length - 1)
       /\ body \in [DOMAIN code -> Executed]
  BY DEF ScanInv
<1> QED
  BY <1>1, <1>3, <1>7, <1>9, <1>10 DEF ScanInv

LEMMA ScanInvariance == MainSpec => []ScanInv
<1>1. MainInit => ScanInv
  <2> SUFFICES ASSUME MainInit PROVE ScanInv
    OBVIOUS
  <2>1. Length \in Nat /\ DOMAIN code = 0 .. (Length - 1)
    BY FunctionInit DEF MainInit, FunctionInv, CfgInv, Types
  <2>2. body \in [DOMAIN code -> Executed]
    BY DEF MainInit, Executed
  <2>3. /\ steps = 0 /\ scanEsp = UNKNOWN /\ outcome = "scanning"
        /\ DOMAIN stack_variable = {} /\ DOMAIN absolute_variable = {}
    BY DEF MainInit, Recovery!RecoveryInit, Recovery!NoEntries, UNKNOWN, Recovery!UNKNOWN
  <2>4. ASSUME NEW l, LinearTable(l) PROVE l[0] = UNKNOWN
    BY <2>1, <2>4 DEF LinearTable, Table
  <2>5. UNKNOWN \in Int /\ \A a \in 0 .. (0 - 1) : FALSE
    BY DEF UNKNOWN
  <2>6. Filed
    BY <2>3, <2>4, <2>5 DEF Filed
  <2> QED
    BY <2>1, <2>2, <2>3, <2>5, <2>6, FS_EmptySet DEF ScanInv
<1>2. ScanInv /\ [MainNext]_mainVars => ScanInv'
  <2> SUFFICES ASSUME ScanInv, [MainNext]_mainVars PROVE ScanInv'
    OBVIOUS
  <2>1. code' = code /\ body' = body /\ Length' = Length
    BY CodeKept DEF Length
  <2>2. ASSUME UNCHANGED <<scanEsp, stack_variable, absolute_variable, steps>>,
               outcome' = "found" => steps = Length /\ container' = Recovery!Entries,
               outcome' = "undecodable" => \E a \in DOMAIN code : code[a].op = "bad"
        PROVE  ScanInv'
    <3>1. ASSUME NEW l PROVE LinearTable(l)' <=> LinearTable(l)
      BY <2>1 DEF LinearTable, Table, Advance, Spread, Successors
    <3>2. Filed'
      <4>1. ASSUME NEW l, LinearTable(l)
            PROVE  /\ scanEsp' = l[steps']
                   /\ \A a \in 0 .. (steps' - 1) : Recovery!OnStack(Recovery!Access(body'[a])) =>
                        Recovery!StackOffset(Recovery!Access(body'[a]), l[a + 1])
                            \in DOMAIN stack_variable'
        BY <2>1, <2>2, <4>1 DEF ScanInv, Filed
      <4> QED
        BY <3>1, <4>1 DEF Filed
    <3>3. Recovery!Entries' = Recovery!Entries
      BY <2>2 DEF Recovery!Entries, Recovery!StackEntries, Recovery!AbsoluteEntries
    <3> QED
      BY <2>1, <2>2, <3>2, <3>3 DEF ScanInv
  <2>3. CASE Recover
    <3>1. CASE steps < Length /\ Recovery!Find(body[steps])
      BY <2>1, <3>1, FindFiles
    <3>2. CASE steps < Length /\ code[steps].op = "bad" /\ Recovery!Undecodable
      <4>1. steps \in DOMAIN code
        BY <3>2 DEF ScanInv
      <4> QED
        BY <2>2, <3>2, <4>1 DEF Recovery!Undecodable
    <3>3. CASE steps = Length /\ Recovery!GetResult
      BY <2>2, <3>3 DEF Recovery!GetResult
    <3> QED
      BY <2>3, <3>1, <3>2, <3>3 DEF Recover
  <2>4. ASSUME UNCHANGED scanVars PROVE ScanInv'
    BY <2>2, <2>4 DEF scanVars, ScanInv
  <2>5. CASE Prepare \/ OrderStep \/ AnalyseBlock \/ UNCHANGED mainVars
    BY <2>4, <2>5 DEF Prepare, OrderStep, AnalyseBlock, mainVars
  <2> QED
    BY <2>3, <2>5 DEF MainNext
<1> QED
  BY <1>1, <1>2, PTL DEF MainSpec

(* The container has an entry for everything that was filed.               *)
LEMMA FiledFound ==
    ASSUME ScanInv, outcome = "found", NEW o \in DOMAIN stack_variable
    PROVE  \E k \in DOMAIN container : container[k].region = "stack" /\ container[k].offset = o
<1> DEFINE Found(map) == Recovery!Sorted(map)
           n == Cardinality(DOMAIN stack_variable)
           m == Cardinality(DOMAIN absolute_variable)
           S == Recovery!StackEntries
           T == Recovery!AbsoluteEntries
<1>1. /\ IsFiniteSet(DOMAIN stack_variable) /\ DOMAIN stack_variable \subseteq Int
      /\ IsFiniteSet(DOMAIN absolute_variable) /\ DOMAIN absolute_variable \subseteq Int
      /\ container = S \o T
  BY DEF ScanInv, Recovery!Entries
<1>2. /\ n \in Nat /\ Found(stack_variable) = [k \in 1 .. n |-> Found(stack_variable)[k]]
      /\ \E k \in 1 .. n : Found(stack_variable)[k] = o
  BY <1>1, KeysFound
<1>3. Len(Found(stack_variable)) = n
  BY <1>2
<1>4. S = [k \in 1 .. n |-> S[k]]
      /\ \A k \in 1 .. n : S[k].region = "stack" /\ S[k].offset = Found(stack_variable)[k]
  BY <1>3 DEF Recovery!StackEntries
<1>5. m \in Nat /\ Len(Found(absolute_variable)) = m
  <2>1. m \in Nat
    BY <1>1, FS_CardinalityType
  <2>2. CASE DOMAIN absolute_variable = {}
    <3>1. m = 0
      BY <2>2, FS_EmptySet
    <3>2. Found(absolute_variable) = [k \in 1 .. 0 |-> Found(absolute_variable)[k]]
      BY <2>2, NoKeys
    <3> QED
      BY <2>1, <3>1, <3>2
  <2>3. CASE DOMAIN absolute_variable # {}
    <3>1. Found(absolute_variable) = [k \in 1 .. m |-> Found(absolute_variable)[k]]
      BY <1>1, <2>3, KeysFound
    <3> QED
      BY <2>1, <3>1
  <2> QED
    BY <2>2, <2>3
<1>6. T = [k \in 1 .. m |-> T[k]]
  BY <1>5 DEF Recovery!AbsoluteEntries
<1> HIDE DEF Found, S, T, n, m
<1>7. \A k \in 1 .. n : k \in DOMAIN container /\ container[k] = S[k]
  BY <1>1, <1>2, <1>4, <1>5, <1>6, JoinedFirst
<1> QED
  BY <1>2, <1>4, <1>7

(* The two passes meet: where all paths agree with the order of the        *)
(* addresses, what the second pass looks up is there under that offset.    *)
THEOREM PassesMeet == MainSpec => []LookupsFind
<1>1. AnalysisInv /\ ScanInv => LookupsFind
  <2> SUFFICES ASSUME AnalysisInv, ScanInv, complete, AllUnderstood, AllLive,
                      \A p \in PathEsps : p[2] = LinearEsp[p[1]], NEW a \in missed
               PROVE  FALSE
    BY DEF LookupsFind
  <2>1. phase \notin {"cfg", "calc"} /\ outcome \in {"found", "undecodable"}
    BY DEF AnalysisInv, Recorded, Recovered
  <2>2. CfgInv /\ stage = "built" /\ Length \in Nat /\ DOMAIN code = 0 .. (Length - 1)
    BY <2>1 DEF AnalysisInv, FunctionInv, Searching, CfgInv, Types
  <2>3. NoDead
    BY <2>2, LiveHasFathers
  <2>4. outcome = "found"
    <3>1. \A c \in DOMAIN code : code[c].op # "bad"
      BY <2>2 DEF CfgInv, Collected, Scanned
    <3> QED
      BY <2>1, <3>1 DEF ScanInv
  <2>5. PICK g : PathTable(g) /\ PathEsps = g[Length]
    BY <2>2, PathsUnfold
  <2>6. a \in DOMAIN code /\ LooksUp(body[a])
        /\ \E e : <<a, e>> \in g[Length] /\ ~Finds(Recovery!Access(body[a]), e)
    BY <2>3, <2>5 DEF AnalysisInv, MissedOnPaths
  <2>7. ~Finds(Recovery!Access(body[a]), LinearEsp[a])
    <3>1. PICK e : <<a, e>> \in g[Length] /\ ~Finds(Recovery!Access(body[a]), e)
      BY <2>6
    <3>2. e = LinearEsp[a]
      BY <2>5, <3>1
    <3> QED
      BY <3>1, <3>2
  <2>8. LinearTable(LinearEsp)
    BY <2>2, LinearUnfolds
  <2>9. a \in 0 .. (Length - 1) /\ body[a] \in Executed /\ steps = Length
        /\ Recovery!OnStack(Recovery!Access(body[a]))
    BY <2>2, <2>4, <2>6 DEF ScanInv, LooksUp
  <2>10. Recovery!StackOffset(Recovery!Access(body[a]), LinearEsp[a + 1]) \in DOMAIN stack_variable
    BY <2>8, <2>9 DEF ScanInv, Filed
  <2>11. LinearEsp[a + 1] = LinearEsp[a]
    <3>1. \A k \in 0 .. Length :
            LinearEsp[k] = IF k = 0 THEN UNKNOWN ELSE TrackESP(LinearEsp[k - 1], body[k - 1])
      BY <2>8 DEF LinearTable, Table, Advance
    <3>2. LinearEsp[a + 1] = TrackESP(LinearEsp[a], body[a])
      <4>1. a + 1 \in 0 .. Length /\ a + 1 # 0 /\ (a + 1) - 1 = a
        BY <2>2, <2>9
      <4> QED
        BY <3>1, <4>1
    <3>3. LinearEsp[a] \in Int
      <4>1. a \in 0 .. Length
        BY <2>2, <2>9
      <4> HIDE DEF LinearEsp
      <4> QED
        BY <2>8, <4>1, LinearTyped
    <3> QED
      BY <2>9, <3>2, <3>3, LookupKeepsEsp
  <2> QED
    BY <2>4, <2>7, <2>10, <2>11, FiledFound DEF Finds
<1> QED
  BY <1>1, AnalysisInvariance, ScanInvariance, PTL

=============================================================================
