-------------------------- MODULE FrameRecoveryProofs --------------------------
(***************************************************************************)
(* How far StackTrailer's belief drifts, which stack variables are found   *)
(* with it, and how getResult() numbers and sizes them, for code of any    *)
(* instructions.                                                           *)
(***************************************************************************)
EXTENDS FrameRecovery, Sequences, FiniteSetTheorems, TLAPS

(* Of the belief about ESP.                                                *)
DistanceInv ==
    /\ esp \in Int /\ distance \in Int /\ pushed \in Int /\ slack \in Int
    /\ DriftIsPushes

LEMMA UnknownIsInt == UNKNOWN \in Int
  BY SMT DEF UNKNOWN

(* trackESP(): the field stays what it was when it is not known, and is    *)
(* moved by a known amount otherwise.                                      *)
LEMMA AddedESP ==
    ASSUME NEW e \in Int, NEW n \in Int
    PROVE  /\ AddESP(e, n) \in Int
           /\ AddESP(e, n) = UNKNOWN \/ (e # UNKNOWN /\ AddESP(e, n) = e + n)
  BY UnknownIsInt DEF AddESP

LEMMA DriftInit == Init => DistanceInv
  BY UnknownIsInt DEF Init, DistanceInv, DriftIsPushes

LEMMA UnseenMovesAreInts ==
    ASSUME NEW i, NEW n \in UnseenMoves(i)
    PROVE  n \in Int
<1> Moves \subseteq Int
  BY CodeAssumption
<1>1. CASE i.op \in {"PUSHF", "POPF", "PUSHA", "POPA"}
  <2>1. n = 4 \/ n = -4 \/ n = 32 \/ n = -32
    BY <1>1 DEF UnseenMoves
  <2> QED
    BY <2>1
<1>2. CASE i.op = "CALL"
  BY <1>2 DEF UnseenMoves
<1>3. CASE i.op \notin {"PUSHF", "POPF", "PUSHA", "POPA", "CALL"}
  BY <1>3 DEF UnseenMoves
<1> QED
  BY <1>1, <1>2, <1>3

(* A step that keeps the frame, and moves the belief by n, the operands    *)
(* pushed by m, the unseen part by s and the processor's ESP by all that.  *)
LEMMA DriftMoves ==
    ASSUME DistanceInv, NEW i, ~SetsESP(i), Track(i),
           NEW n \in Int, NEW m \in Int, NEW s \in Int, NEW k \in Int,
           Moved(i) = n, k = n + 3 * m + s,
           pushed' = pushed + m, slack' = slack + s, distance' = distance + k,
           frame' = "own" => frame = "own"
    PROVE  DistanceInv'
<1>1. esp' = AddESP(esp, n)
  BY DEF Track, TrackESP
<1>2. esp' \in Int /\ (esp' = UNKNOWN \/ (esp # UNKNOWN /\ esp' = esp + n))
  BY <1>1, AddedESP DEF DistanceInv
<1>3. pushed' \in Int /\ slack' \in Int /\ distance' \in Int
  BY DEF DistanceInv
<1>4. ASSUME frame' = "own", esp' # UNKNOWN PROVE distance' = esp' + 3 * pushed' + slack'
  <2>1. distance = esp + 3 * pushed + slack
    BY <1>2, <1>4 DEF DistanceInv, DriftIsPushes
  <2>2. esp' = esp + n
    BY <1>2, <1>4
  <2> QED
    BY <2>1, <2>2 DEF DistanceInv
<1> QED
  BY <1>2, <1>3, <1>4 DEF DistanceInv, DriftIsPushes

(* The belief moves by three less than the processor's ESP on a push, not  *)
(* at all where trackESP() sees nothing, and by as much on everything else *)
(* that keeps the frame.                                                   *)
LEMMA DriftStep ==
    ASSUME DistanceInv, NEW i \in Code, Step(i)
    PROVE  DistanceInv'
<1> i.src.disp \in Int /\ -i.src.disp \in Int
  <2>1. i.src.disp \in Int
    BY CodeAssumption
  <2> QED
    BY <2>1
<1>1. CASE SetFrame(i)
  <2>1. esp' = 0
    BY <1>1 DEF SetFrame, Track, TrackESP
  <2>2. distance' = (IF i.op = "ENTER" THEN i.src.disp ELSE 0) /\ slack' = distance'
        /\ pushed' = 0
    BY <1>1 DEF SetFrame
  <2>3. /\ esp' \in Int /\ distance' \in Int /\ pushed' \in Int /\ slack' \in Int
        /\ distance' = esp' + 3 * pushed' + slack'
    BY <2>1, <2>2
  <2> QED
    BY <2>3 DEF DistanceInv, DriftIsPushes
<1>2. CASE DropFrame(i)
  <2>1. esp' = 0 \/ esp' = AddESP(esp, 0)
    BY <1>2 DEF DropFrame, Track, TrackESP, Moved
  <2>2. esp' \in Int
    BY <2>1, AddedESP DEF DistanceInv
  <2>3. frame' # "own" /\ distance' = 0 /\ pushed' = 0 /\ slack' = 0
    BY <1>2 DEF DropFrame
  <2>4. distance' \in Int /\ pushed' \in Int /\ slack' \in Int
    BY <2>3
  <2> QED
    BY <2>2, <2>3, <2>4 DEF DistanceInv, DriftIsPushes
<1>3. CASE Reserve(i)
  <2>1. ASSUME NEW n \in Int, Moved(i) = n, distance' = distance + n PROVE DistanceInv'
    <3>1. /\ ~SetsESP(i) /\ Track(i) /\ n = n + 3 * 0 + 0
          /\ pushed' = pushed + 0 /\ slack' = slack + 0 /\ frame' = frame
      BY <1>3 DEF Reserve, Reserves, SetsESP, DistanceInv
    <3> QED
      BY <2>1, <3>1, DriftMoves
  <2>2. CASE i.op = "ADD"
    <3>1. Moved(i) = -i.src.disp /\ distance' = distance + (-i.src.disp)
      BY <1>3, <2>2 DEF Reserve, Reserves, Moved
    <3> QED
      BY <2>1, <3>1
  <2>3. CASE i.op = "SUB"
    <3>1. Moved(i) = i.src.disp /\ distance' = distance + i.src.disp
      BY <1>3, <2>3 DEF Reserve, Reserves, Moved
    <3> QED
      BY <2>1, <3>1
  <2> QED
    BY <1>3, <2>2, <2>3 DEF Reserve, Reserves
<1>4. CASE Push(i)
  <2> DEFINE w == Word(i.dst)
  <2>1. w \in Int
    BY DEF Word
  <2>2. ~SetsESP(i) /\ Track(i) /\ Moved(i) = 1
    BY <1>4 DEF Push, SetsESP, Moved
  <2>3. distance' = distance + w /\ pushed' = pushed + 1 /\ slack' = slack + w - 4
        /\ frame' = frame
    BY <1>4 DEF Push
  <2> HIDE DEF w
  <2>4. w = 1 + 3 * 1 + (w - 4) /\ slack' = slack + (w - 4) /\ w - 4 \in Int
    BY <2>1, <2>3 DEF DistanceInv
  <2> QED
    BY <2>1, <2>2, <2>3, <2>4, DriftMoves
<1>5. CASE Pop(i)
  <2> DEFINE w == Word(i.dst)
  <2>1. w \in Int
    BY DEF Word
  <2>2. ~SetsESP(i) /\ Track(i) /\ Moved(i) = -1
    BY <1>5 DEF Pop, SetsESP, Moved
  <2>3. PICK n \in UnseenMoves(i) : distance' = distance - w + n /\ slack' = slack - w + 4 + n
    BY <1>5 DEF Pop
  <2>4. pushed' = pushed - 1 /\ (frame' = "own" => frame = "own")
    BY <1>5 DEF Pop, FrameAfter
  <2> HIDE DEF w
  <2>5. n \in Int
    BY UnseenMovesAreInts
  <2>6. /\ n - w \in Int /\ n - w + 4 \in Int /\ n - w = -1 + 3 * (-1) + (n - w + 4)
        /\ distance' = distance + (n - w) /\ slack' = slack + (n - w + 4)
        /\ pushed' = pushed + (-1)
    BY <2>1, <2>3, <2>4, <2>5 DEF DistanceInv
  <2> QED
    BY <2>2, <2>4, <2>6, DriftMoves
<1>6. CASE Other(i)
  <2>1. ~SetsESP(i) /\ Track(i) /\ Moved(i) = 0
    BY <1>6 DEF Other, Reserves, SetsESP, Moved
  <2>2. PICK n \in UnseenMoves(i) : distance' = distance + n /\ slack' = slack + n
    BY <1>6 DEF Other
  <2>3. pushed' = pushed + 0 /\ (frame' = "own" => frame = "own")
    BY <1>6 DEF Other, FrameAfter, DistanceInv
  <2>4. n \in Int /\ n = 0 + 3 * 0 + n
    BY UnseenMovesAreInts
  <2> QED
    BY <2>1, <2>2, <2>3, <2>4, DriftMoves
<1> QED
  BY <1>1, <1>2, <1>3, <1>4, <1>5, <1>6 DEF Step

(* Over any run of any instructions the drift is three bytes per operand   *)
(* pushed and what moved ESP without trackESP() seeing it, an AND that     *)
(* aligns it, an LEA, a POP ESP or a PUSHA as well as 16 bit pushes.       *)
THEOREM Drift == Spec => []DriftIsPushes
<1>1. Init => DistanceInv
  BY DriftInit
<1>2. DistanceInv /\ [Next]_vars => DistanceInv'
  BY DriftStep DEF Next, DistanceInv, DriftIsPushes, vars
<1>3. DistanceInv => DriftIsPushes
  BY DEF DistanceInv
<1> QED
  BY <1>1, <1>2, <1>3, PTL DEF Spec

----------------------------------------------------------------------------
(* Maps with offsets for keys, as getResult() walks through them.  The     *)
(* rank of a key is how many keys are smaller.                             *)
Smaller(D, o) == {p \in D : p < o}
Rank(D, o) == Cardinality(Smaller(D, o))

LEMMA RankGrows ==
    ASSUME NEW D, IsFiniteSet(D), D \subseteq Int, NEW o \in D
    PROVE  /\ Rank(D, o) \in Nat /\ Rank(D, o) < Cardinality(D) /\ Cardinality(D) \in Nat
           /\ \A q \in D : q < o => Rank(D, q) < Rank(D, o)
<1>1. ASSUME NEW q \in D PROVE /\ IsFiniteSet(Smaller(D, q)) /\ Rank(D, q) \in Nat
  <2>1. Smaller(D, q) \in SUBSET D
    BY DEF Smaller
  <2>2. IsFiniteSet(Smaller(D, q))
    BY <2>1, FS_Subset
  <2> QED
    BY <2>2, FS_CardinalityType DEF Rank
<1>2. Cardinality(D) \in Nat
  BY FS_CardinalityType
<1>3. Rank(D, o) < Cardinality(D)
  <2>1. Smaller(D, o) \in SUBSET D /\ Smaller(D, o) # D
    BY DEF Smaller
  <2>2. Cardinality(Smaller(D, o)) <= Cardinality(D) /\ Cardinality(Smaller(D, o)) # Cardinality(D)
    BY <2>1, FS_Subset
  <2> QED
    BY <1>1, <1>2, <2>2 DEF Rank
<1>4. ASSUME NEW q \in D, q < o PROVE Rank(D, q) < Rank(D, o)
  <2>1. Smaller(D, q) \in SUBSET Smaller(D, o) /\ Smaller(D, q) # Smaller(D, o)
    <3>1. \A p \in D : p < q => p < o
      BY <1>4
    <3>2. q \in Smaller(D, o) /\ q \notin Smaller(D, q)
      BY <1>4 DEF Smaller
    <3>3. Smaller(D, q) \subseteq Smaller(D, o)
      BY <3>1 DEF Smaller
    <3> QED
      BY <3>2, <3>3
  <2>2. IsFiniteSet(Smaller(D, o))
    BY <1>1
  <2>3. /\ Cardinality(Smaller(D, q)) <= Cardinality(Smaller(D, o))
        /\ Cardinality(Smaller(D, q)) # Cardinality(Smaller(D, o))
    BY <2>1, <2>2, FS_Subset
  <2> QED
    BY <1>1, <2>3 DEF Rank
<1> QED
  BY <1>1, <1>2, <1>3, <1>4

LessThan == {p \in Nat \X Nat : p[1] < p[2]}

LEMMA LeastNumber ==
    ASSUME NEW T, T \subseteq Nat, T # {}
    PROVE  \E x \in T : \A y \in T : x <= y
<1>1. IsWellFoundedOn(LessThan, Nat)
  BY NatLessThanWellFounded DEF OpToRel, LessThan
<1>2. \E x \in T : \A y \in T : ~ (<<y, x>> \in LessThan)
  BY WFMin, <1>1
<1>3. PICK x \in T : \A y \in T : ~ (<<y, x>> \in LessThan)
  BY <1>2
<1>4. ASSUME NEW y \in T PROVE x <= y
  <2>1. x \in Nat /\ y \in Nat
    OBVIOUS
  <2>2. ~ (<<y, x>> \in LessThan)
    BY <1>3
  <2> QED
    BY <2>1, <2>2 DEF LessThan
<1> QED
  BY <1>4

(* Some keys have a smallest one, that of the least rank.                  *)
LEMMA SmallestKey ==
    ASSUME NEW D, IsFiniteSet(D), D \subseteq Int, NEW T \in SUBSET D, T # {}
    PROVE  \E p \in T : \A q \in T : p <= q
<1> DEFINE R == {Rank(D, p) : p \in T}
<1>1. R \subseteq Nat /\ R # {}
  BY RankGrows
<1>2. PICK r \in R : \A s \in R : r <= s
  <2> HIDE DEF R
  <2> QED
    BY <1>1, LeastNumber
<1>3. PICK p \in T : r = Rank(D, p)
  OBVIOUS
<1>4. ASSUME NEW q \in T PROVE p <= q
  <2>1. Rank(D, p) <= Rank(D, q) /\ Rank(D, p) \in Nat /\ Rank(D, q) \in Nat
    BY <1>2, <1>3, RankGrows
  <2>2. ~ (q < p)
    BY <2>1, RankGrows
  <2> QED
    BY <2>2
<1> QED
  BY <1>4

LEMMA FirstKey ==
    ASSUME NEW map, IsFiniteSet(DOMAIN map), DOMAIN map \subseteq Int, DOMAIN map # {}
    PROVE  Recovery!First(map) \in DOMAIN map /\ Rank(DOMAIN map, Recovery!First(map)) = 0
<1>1. /\ Recovery!First(map) \in DOMAIN map
      /\ \A q \in DOMAIN map : Recovery!First(map) <= q
  BY SmallestKey DEF Recovery!First
<1>2. Smaller(DOMAIN map, Recovery!First(map)) = {}
  BY <1>1 DEF Smaller
<1> QED
  BY <1>1, <1>2, FS_EmptySet DEF Rank

LEMMA FollowingKey ==
    ASSUME NEW map, IsFiniteSet(DOMAIN map), DOMAIN map \subseteq Int, NEW o \in DOMAIN map
    PROVE  /\ Recovery!Above(map, o) # {} =>
                /\ Recovery!Following(map, o) \in DOMAIN map /\ Recovery!Following(map, o) > o
                /\ \A q \in DOMAIN map : q > o => Recovery!Following(map, o) <= q
                /\ Rank(DOMAIN map, Recovery!Following(map, o)) = Rank(DOMAIN map, o) + 1
           /\ Recovery!Above(map, o) = {} => Rank(DOMAIN map, o) + 1 = Cardinality(DOMAIN map)
<1> DEFINE D == DOMAIN map
           f == Recovery!Following(map, o)
<1>1. Recovery!Above(map, o) \in SUBSET D
  BY DEF Recovery!Above
<1>2. IsFiniteSet(Smaller(D, o)) /\ o \notin Smaller(D, o)
  <2>1. Smaller(D, o) \in SUBSET D
    BY DEF Smaller
  <2> QED
    BY <2>1, FS_Subset DEF Smaller
<1>3. ASSUME NEW S, S = Smaller(D, o) \cup {o} PROVE Cardinality(S) = Rank(D, o) + 1
  BY <1>2, <1>3, FS_AddElement DEF Rank
<1>4. ASSUME Recovery!Above(map, o) # {}
      PROVE  /\ f \in D /\ f > o /\ (\A q \in D : q > o => f <= q)
             /\ Rank(D, f) = Rank(D, o) + 1
  <2>1. f \in Recovery!Above(map, o) /\ \A q \in Recovery!Above(map, o) : f <= q
    BY <1>1, <1>4, SmallestKey DEF Recovery!Following
  <2>2. f \in D /\ f > o /\ (\A q \in D : q > o => f <= q)
    BY <2>1 DEF Recovery!Above
  <2> HIDE DEF f
  <2>3. Smaller(D, f) = Smaller(D, o) \cup {o}
    BY <2>2 DEF Smaller
  <2> QED
    BY <1>3, <2>2, <2>3 DEF Rank
<1>5. ASSUME Recovery!Above(map, o) = {} PROVE Rank(D, o) + 1 = Cardinality(D)
  <2>1. D = Smaller(D, o) \cup {o}
    BY <1>5 DEF Recovery!Above, Smaller
  <2> QED
    BY <1>3, <2>1
<1> QED
  BY <1>4, <1>5

(* key tabulates the walk up to its n-th key.                              *)
Walks(key, map, n) ==
    key = [k \in 1 .. n |-> IF k = 1 THEN Recovery!First(map)
                            ELSE Recovery!Following(map, key[k - 1])]

LEMMA WalkExists ==
    ASSUME NEW map, NEW n \in Nat
    PROVE  \E key : Walks(key, map, n)
<1> DEFINE Bad == {m \in Nat : ~ \E key : Walks(key, map, m)}
<1> SUFFICES ASSUME Bad # {} PROVE FALSE
  OBVIOUS
<1>1. PICK m \in Bad : \A y \in Bad : m <= y
  <2>1. Bad \subseteq Nat
    OBVIOUS
  <2> HIDE DEF Bad
  <2> QED
    BY <2>1, LeastNumber
<1>2. CASE m = 0
  <2> DEFINE key == [k \in 1 .. 0 |-> 0]
  <2>1. Walks(key, map, 0)
    BY DEF Walks
  <2> QED
    BY <1>2, <2>1
<1>3. CASE m # 0
  <2>1. m \in Nat /\ m - 1 \in Nat /\ ~ (m <= m - 1)
    BY <1>3
  <2>2. PICK g : Walks(g, map, m - 1)
    BY <1>1, <2>1
  <2> DEFINE h == [k \in 1 .. m |->
                    IF k = m THEN (IF m = 1 THEN Recovery!First(map)
                                   ELSE Recovery!Following(map, g[m - 1]))
                    ELSE g[k]]
  <2>3. \A k \in 1 .. m - 1 :
            g[k] = IF k = 1 THEN Recovery!First(map) ELSE Recovery!Following(map, g[k - 1])
    BY <2>1, <2>2 DEF Walks
  <2>4. ASSUME NEW k \in 1 .. m
        PROVE  h[k] = IF k = 1 THEN Recovery!First(map) ELSE Recovery!Following(map, h[k - 1])
    <3>1. CASE k = m /\ k # 1
      <4>1. k - 1 \in 1 .. m /\ k - 1 # m
        BY <2>1, <3>1
      <4>2. h[k - 1] = g[k - 1]
        BY <4>1
      <4>3. h[k] = Recovery!Following(map, g[k - 1])
        BY <3>1
      <4> QED
        BY <3>1, <4>2, <4>3
    <3>2. CASE k = m /\ k = 1
      BY <3>2
    <3>3. CASE k # m /\ k = 1
      BY <2>1, <2>3, <3>3
    <3>4. CASE k # m /\ k # 1
      <4>1. k \in 1 .. m - 1 /\ k - 1 \in 1 .. m /\ k - 1 # m
        BY <2>1, <3>4
      <4>2. h[k] = g[k] /\ h[k - 1] = g[k - 1]
        BY <3>4, <4>1
      <4> QED
        BY <2>3, <3>4, <4>1, <4>2
    <3> QED
      BY <3>1, <3>2, <3>3, <3>4
  <2> HIDE DEF Bad
  <2>5. Walks(h, map, m)
    BY <2>4 DEF Walks
  <2> QED
    BY <2>5 DEF Bad
<1> QED
  BY <1>2, <1>3

(* The k-th key of the walk is the one with k - 1 smaller ones.            *)
LEMMA WalkRanks ==
    ASSUME NEW map, IsFiniteSet(DOMAIN map), DOMAIN map \subseteq Int,
           NEW key, Walks(key, map, Cardinality(DOMAIN map)),
           NEW n \in 1 .. Cardinality(DOMAIN map)
    PROVE  key[n] \in DOMAIN map /\ Rank(DOMAIN map, key[n]) = n - 1
<1> DEFINE D == DOMAIN map
           Right(k) == key[k] \in D /\ Rank(D, key[k]) = k - 1
           Bad == {k \in 1 .. Cardinality(D) : ~ Right(k)}
<1> SUFFICES ASSUME Bad # {} PROVE FALSE
  OBVIOUS
<1>0. Cardinality(D) \in Nat
  BY FS_CardinalityType
<1>1. PICK k \in Bad : \A y \in Bad : k <= y
  <2>1. Bad \subseteq Nat
    OBVIOUS
  <2> HIDE DEF Bad
  <2> QED
    BY <2>1, LeastNumber
<1>2. key[k] = IF k = 1 THEN Recovery!First(map) ELSE Recovery!Following(map, key[k - 1])
  BY <1>0 DEF Walks
<1>3. CASE k = 1
  <2>1. D # {}
    BY <1>0, <1>3, FS_EmptySet
  <2> QED
    BY <1>2, <1>3, <2>1, FirstKey
<1>4. CASE k # 1
  <2>1. k - 1 \in 1 .. Cardinality(D) /\ ~ (k <= k - 1) /\ k \in Nat /\ k <= Cardinality(D)
    BY <1>0, <1>4
  <2>2. Right(k - 1)
    BY <1>1, <2>1
  <2>3. key[k - 1] \in D /\ Rank(D, key[k - 1]) = k - 2
    BY <2>1, <2>2
  <2>4. Rank(D, key[k - 1]) + 1 # Cardinality(D)
    BY <1>0, <2>1, <2>3
  <2>5. /\ Recovery!Following(map, key[k - 1]) \in D
        /\ Rank(D, Recovery!Following(map, key[k - 1])) = (k - 2) + 1
    BY <2>3, <2>4, FollowingKey
  <2> QED
    BY <1>2, <1>4, <2>1, <2>5
<1> QED
  BY <1>3, <1>4

(* A map is walked through in the order of its keys, and as a whole.       *)
LEMMA SortedKeys ==
    ASSUME NEW map, IsFiniteSet(DOMAIN map), DOMAIN map \subseteq Int
    PROVE  /\ Cardinality(DOMAIN map) \in Nat
           /\ DOMAIN Recovery!Sorted(map) = 1 .. Cardinality(DOMAIN map)
           /\ Len(Recovery!Sorted(map)) = Cardinality(DOMAIN map)
           /\ \A k \in 1 .. Cardinality(DOMAIN map) :
                /\ Recovery!Sorted(map)[k] \in DOMAIN map
                /\ Rank(DOMAIN map, Recovery!Sorted(map)[k]) = k - 1
           /\ \A o \in DOMAIN map : \E k \in 1 .. Cardinality(DOMAIN map) :
                Recovery!Sorted(map)[k] = o
<1> DEFINE D == DOMAIN map
           w == CHOOSE key : Walks(key, map, Cardinality(D))
<1>1. Cardinality(D) \in Nat
  BY FS_CardinalityType
<1>2. Walks(w, map, Cardinality(D))
  BY <1>1, WalkExists
<1>3. Recovery!Sorted(map) = w
  BY DEF Recovery!Sorted, Walks, Recovery!Cardinality, Cardinality
<1> HIDE DEF w
<1>4. DOMAIN w = 1 .. Cardinality(D) /\ Len(w) = Cardinality(D)
  BY <1>1, <1>2 DEF Walks
<1>5. \A k \in 1 .. Cardinality(D) : w[k] \in D /\ Rank(D, w[k]) = k - 1
  BY <1>2, WalkRanks
<1>6. ASSUME NEW o \in D PROVE \E k \in 1 .. Cardinality(D) : w[k] = o
  <2> DEFINE k == Rank(D, o) + 1
  <2>1. k \in 1 .. Cardinality(D)
    BY <1>1, RankGrows
  <2>2. w[k] \in D /\ Rank(D, w[k]) = Rank(D, o)
    BY <1>5, <2>1, RankGrows
  <2>3. ~ (w[k] < o) /\ ~ (o < w[k])
    BY <2>2, RankGrows
  <2>4. w[k] = o
    BY <2>2, <2>3
  <2> QED
    BY <2>1, <2>4
<1> QED
  BY <1>1, <1>3, <1>4, <1>5, <1>6

(* A map of variables: finitely many, at integer offsets.                  *)
IsMap(m) ==
    m \in [DOMAIN m -> Nat] /\ DOMAIN m \subseteq Int /\ IsFiniteSet(DOMAIN m)

LEMMA JoinedEntries ==
    ASSUME NEW s, NEW t, NEW n \in Nat, NEW m \in Nat,
           s = [k \in 1 .. n |-> s[k]], t = [k \in 1 .. m |-> t[k]]
    PROVE  /\ DOMAIN (s \o t) = 1 .. n + m
           /\ \A k \in 1 .. n : (s \o t)[k] = s[k]
           /\ \A k \in n + 1 .. n + m : (s \o t)[k] = t[k - n] /\ k - n \in 1 .. m
<1> DEFINE X == {s[k] : k \in 1 .. n} \cup {t[k] : k \in 1 .. m}
<1>1. s \in Seq(X) /\ t \in Seq(X) /\ Len(s) = n /\ Len(t) = m
  <2>1. \A k \in 1 .. n : s[k] \in X
    OBVIOUS
  <2>2. \A k \in 1 .. m : t[k] \in X
    OBVIOUS
  <2> HIDE DEF X
  <2>3. [k \in 1 .. n |-> s[k]] \in Seq(X) /\ Len([k \in 1 .. n |-> s[k]]) = n
    BY <2>1
  <2>4. [k \in 1 .. m |-> t[k]] \in Seq(X) /\ Len([k \in 1 .. m |-> t[k]]) = m
    BY <2>2
  <2> QED
    BY <2>3, <2>4
<1> HIDE DEF X
<1> QED
  BY <1>1

(* What getResult() inserts: the stack variables, then the absolute ones,  *)
(* each in the order of its offset.                                        *)
LEMMA EntriesFacts ==
    ASSUME IsMap(stack_variable), IsMap(absolute_variable)
    PROVE  LET n == Cardinality(DOMAIN stack_variable)
               m == Cardinality(DOMAIN absolute_variable)
           IN  /\ n \in Nat /\ m \in Nat /\ DOMAIN Recovery!Entries = 1 .. n + m
               /\ \A k \in 1 .. n :
                    /\ Recovery!Entries[k].region = "stack"
                    /\ Recovery!Entries[k].offset = Recovery!Sorted(stack_variable)[k]
                    /\ Recovery!Entries[k].size
                        = Recovery!StackSize(stack_variable, Recovery!Sorted(stack_variable)[k])
               /\ \A k \in n + 1 .. n + m :
                    /\ k - n \in 1 .. m
                    /\ Recovery!Entries[k].region = "absolute"
                    /\ Recovery!Entries[k].offset = Recovery!Sorted(absolute_variable)[k - n]
                    /\ Recovery!Entries[k].size
                        = Recovery!AbsoluteSize(absolute_variable,
                                                Recovery!Sorted(absolute_variable)[k - n])
<1> DEFINE n == Cardinality(DOMAIN stack_variable)
           m == Cardinality(DOMAIN absolute_variable)
           S == Recovery!StackEntries
           T == Recovery!AbsoluteEntries
<1>1. /\ n \in Nat /\ Len(Recovery!Sorted(stack_variable)) = n
      /\ m \in Nat /\ Len(Recovery!Sorted(absolute_variable)) = m
  BY SortedKeys DEF IsMap
<1>2. S = [k \in 1 .. n |->
            [region |-> "stack", offset |-> Recovery!Sorted(stack_variable)[k],
             size |-> Recovery!StackSize(stack_variable, Recovery!Sorted(stack_variable)[k])]]
  BY <1>1 DEF Recovery!StackEntries
<1>3. T = [k \in 1 .. m |->
            [region |-> "absolute", offset |-> Recovery!Sorted(absolute_variable)[k],
             size |-> Recovery!AbsoluteSize(absolute_variable,
                                            Recovery!Sorted(absolute_variable)[k])]]
  BY <1>1 DEF Recovery!AbsoluteEntries
<1>4. Recovery!Entries = S \o T
  BY DEF Recovery!Entries
<1> HIDE DEF S, T, n, m
<1>5. S = [k \in 1 .. n |-> S[k]] /\ T = [k \in 1 .. m |-> T[k]]
  BY <1>2, <1>3
<1>6. /\ DOMAIN (S \o T) = 1 .. n + m
      /\ \A k \in 1 .. n : (S \o T)[k] = S[k]
      /\ \A k \in n + 1 .. n + m : (S \o T)[k] = T[k - n] /\ k - n \in 1 .. m
  BY <1>1, <1>5, JoinedEntries
<1>7. \A k \in 1 .. n :
        /\ S[k].region = "stack" /\ S[k].offset = Recovery!Sorted(stack_variable)[k]
        /\ S[k].size = Recovery!StackSize(stack_variable, Recovery!Sorted(stack_variable)[k])
  BY <1>2
<1>8. \A k \in 1 .. m :
        /\ T[k].region = "absolute" /\ T[k].offset = Recovery!Sorted(absolute_variable)[k]
        /\ T[k].size = Recovery!AbsoluteSize(absolute_variable,
                                             Recovery!Sorted(absolute_variable)[k])
  BY <1>3
<1>9. /\ n \in Nat /\ m \in Nat /\ DOMAIN Recovery!Entries = 1 .. n + m
      /\ \A k \in 1 .. n : Recovery!Entries[k] = S[k]
      /\ \A k \in n + 1 .. n + m : Recovery!Entries[k] = T[k - n] /\ k - n \in 1 .. m
  BY <1>1, <1>4, <1>6
<1>10. \A k \in 1 .. n :
        /\ Recovery!Entries[k].region = "stack"
        /\ Recovery!Entries[k].offset = Recovery!Sorted(stack_variable)[k]
        /\ Recovery!Entries[k].size
            = Recovery!StackSize(stack_variable, Recovery!Sorted(stack_variable)[k])
  BY <1>7, <1>9
<1>11. ASSUME NEW k \in n + 1 .. n + m
       PROVE  /\ k - n \in 1 .. m
              /\ Recovery!Entries[k].region = "absolute"
              /\ Recovery!Entries[k].offset = Recovery!Sorted(absolute_variable)[k - n]
              /\ Recovery!Entries[k].size
                  = Recovery!AbsoluteSize(absolute_variable,
                                          Recovery!Sorted(absolute_variable)[k - n])
  <2>1. Recovery!Entries[k] = T[k - n] /\ k - n \in 1 .. m
    BY <1>9
  <2> QED
    BY <1>8, <2>1
<1> QED
  BY <1>9, <1>10, <1>11 DEF n, m

----------------------------------------------------------------------------
LEMMA InsertedDomain ==
    ASSUME NEW map, NEW offset, NEW size
    PROVE  DOMAIN Recovery!Insert(map, offset, size) = DOMAIN map \cup {offset}
  BY DEF Recovery!Insert

(* No instruction is looked at for a place on the stack and moves the      *)
(* belief about ESP.                                                       *)
LEMMA AccessKeepsESP ==
    ASSUME NEW i, NEW e \in Int,
           Recovery!OnStack(Recovery!Access(i)), ~Recovery!TrackFails(i)
    PROVE  Recovery!TrackESP(e, i) = e
<1> USE DEF Recovery!IsMemory, Recovery!IsReg, Recovery!NoOperand, Recovery!Operand
<1>1. i.op \notin {"PUSH", "POP", "ENTER", "LEAVE"}
  BY DEF Recovery!Access, Recovery!SkippedClasses, Recovery!OnStack
<1>2. IsMemory(i.dst) \/ IsMemory(i.src) \/ i.op \in Recovery!StackClasses
  BY DEF Recovery!Access, Recovery!MemoryOperand, Recovery!OnStack, IsMemory
<1>3. ~Recovery!SetsESP(i)
  BY <1>1, <1>2 DEF Recovery!SetsESP, IsMemory, Recovery!StackClasses
<1>4. ~(i.op \in {"ADD", "SUB"} /\ Recovery!IsReg(i.dst, "ESP"))
  BY <1>2 DEF Recovery!TrackFails, Recovery!IsImmediate, IsMemory, Recovery!StackClasses
<1>5. Recovery!Moved(i) = 0
  BY <1>1, <1>4 DEF Recovery!Moved
<1> QED
  BY <1>3, <1>5 DEF Recovery!TrackESP, Recovery!AddESP

(* The maps are finite, and the container is filled from them at the end.  *)
MapsInv ==
    /\ IsMap(stack_variable) /\ IsMap(absolute_variable)
    /\ steps \in 0 .. MaxInstructions
    /\ outcome \in {"scanning", "found", "undecodable", "assert", "dead"}
    /\ container = IF outcome = "found" THEN Recovery!Entries ELSE <<>>

LEMMA InsertedMap ==
    ASSUME NEW map, IsMap(map), NEW offset \in Int, NEW size \in Nat
    PROVE  IsMap(Recovery!Insert(map, offset, size))
<1>1. IsFiniteSet(DOMAIN map \cup {offset})
  BY FS_AddElement DEF IsMap
<1>2. DOMAIN Recovery!Insert(map, offset, size) = DOMAIN map \cup {offset}
  BY InsertedDomain
<1>3. Recovery!Insert(map, offset, size) \in [DOMAIN map \cup {offset} -> Nat]
  BY DEF IsMap, Recovery!Insert
<1> QED
  BY <1>1, <1>2, <1>3 DEF IsMap

LEMMA AccessTyped ==
    ASSUME NEW i \in Code
    PROVE  Recovery!Access(i).disp \in Int /\ Recovery!Access(i).size \in Nat
<1>1. Recovery!Access(i) \in {i.dst, i.src, Recovery!NoOperand,
                              Recovery!Mem("ESP", 0, 32), Recovery!Mem("ESP", 0, 256)}
  BY DEF Recovery!Access, Recovery!MemoryOperand
<1>2. \A p \in {Recovery!NoOperand, Recovery!Mem("ESP", 0, 32), Recovery!Mem("ESP", 0, 256)} :
        p.disp = 0 /\ p.size \in Nat
  BY DEF Recovery!NoOperand, Recovery!Mem, Recovery!MemIndexed, Recovery!Operand
<1> QED
  BY <1>1, <1>2, CodeAssumption

LEMMA EntriesUnchanged ==
    ASSUME UNCHANGED <<stack_variable, absolute_variable>>
    PROVE  Recovery!Entries' = Recovery!Entries
  BY DEF Recovery!Entries, Recovery!StackEntries, Recovery!AbsoluteEntries

LEMMA MapsInit == FrameInit => MapsInv
<1> SUFFICES ASSUME FrameInit PROVE MapsInv
  OBVIOUS
<1>1. /\ stack_variable = [o \in {} |-> 0] /\ absolute_variable = [o \in {} |-> 0]
      /\ steps = 0 /\ container = <<>> /\ outcome = "scanning"
  BY DEF FrameInit, Recovery!RecoveryInit, Recovery!NoEntries
<1>2. IsMap([o \in {} |-> 0])
  BY FS_EmptySet DEF IsMap
<1> QED
  BY <1>1, <1>2, CodeAssumption DEF MapsInv

LEMMA MapsNext == ASSUME MapsInv, DistanceInv, DistanceInv', [FrameNext]_frameVars PROVE MapsInv'
<1>1. CASE UNCHANGED frameVars
  BY <1>1, EntriesUnchanged DEF frameVars, vars, MapsInv
<1>2. CASE Return
  <2>1. UNCHANGED <<stack_variable, absolute_variable, steps>>
    BY <1>2 DEF Return, Recovery!GetResult, Recovery!Undecodable, Recovery!TrackAssert
  <2>2. /\ outcome = "scanning"
        /\ \/ outcome' \in {"undecodable", "assert", "dead"} /\ container' = container
           \/ outcome' = "found" /\ container' = Recovery!Entries
    BY <1>2 DEF Return, Recovery!GetResult, Recovery!Undecodable, Recovery!TrackAssert
  <2> QED
    BY <2>1, <2>2, EntriesUnchanged DEF MapsInv
<1>3. ASSUME NEW i \in Code, Scan(i) PROVE MapsInv'
  <2> DEFINE o == Recovery!Access(i)
             offset == Recovery!StackOffset(o, esp')
             size == IF o.reg = "ESP" THEN Recovery!Bytes(o) ELSE 0
  <2>1. /\ outcome = "scanning" /\ steps < MaxInstructions /\ steps' = steps + 1
        /\ UNCHANGED <<container, outcome>>
        /\ stack_variable' = IF Recovery!OnStack(o) THEN Recovery!Insert(stack_variable, offset, size)
                             ELSE stack_variable
        /\ absolute_variable' =
                IF Recovery!IsAbsolute(o)
                THEN Recovery!Insert(absolute_variable, o.disp, Recovery!Bytes(o))
                ELSE absolute_variable
    BY <1>3 DEF Scan, Recovery!Find
  <2>2. o.disp \in Int /\ o.size \in Nat /\ esp' \in Int
    BY AccessTyped DEF DistanceInv
  <2>3. offset \in Int
    BY <2>2 DEF Recovery!StackOffset
  <2>4. Recovery!Bytes(o) \in Nat
    BY <2>2 DEF Recovery!Bytes
  <2>5. size \in Nat
    BY <2>4
  <2> HIDE DEF o, offset, size
  <2>6. IsMap(stack_variable)' /\ IsMap(absolute_variable)'
    <3>1. IsMap(Recovery!Insert(stack_variable, offset, size))
      BY <2>3, <2>5, InsertedMap DEF MapsInv
    <3>2. IsMap(Recovery!Insert(absolute_variable, o.disp, Recovery!Bytes(o)))
      BY <2>2, <2>4, InsertedMap DEF MapsInv
    <3>3. IsMap(stack_variable') /\ IsMap(absolute_variable')
      BY <2>1, <3>1, <3>2 DEF MapsInv
    <3> QED
      BY <3>3 DEF IsMap
  <2>7. steps' \in 0 .. MaxInstructions
    BY <2>1, CodeAssumption DEF MapsInv
  <2> QED
    BY <2>1, <2>6, <2>7 DEF MapsInv
<1> QED
  BY <1>1, <1>2, <1>3 DEF FrameNext

FrameInv == DistanceInv /\ FoundWhereAddressed /\ MapsInv

(* What an instruction accesses while its index registers add n.           *)
Noted(i, n) ==
    Implicit(i) \cup {OperandAccess(i, o, IF o.index = "none" THEN 0 ELSE n) : o \in Explicit(i)}

(* But for a PUSH or a POP, XED's memory operand 0 is the one that the     *)
(* instruction names, or else the word that it pushes or pops.             *)
LEMMA ExplicitIsAccess ==
    ASSUME NEW i \in Code, i.op \notin {"PUSH", "POP"}
    PROVE  \/ /\ Recovery!OnStack(Recovery!Access(i)) /\ Explicit(i) = {Recovery!Access(i)}
              /\ i.op \in Recovery!StackClasses => IsMemory(i.dst)
           \/ /\ Explicit(i) = {} /\ i.op \in Recovery!StackClasses /\ ~IsMemory(i.dst)
              /\ \E s \in {32, 256} : Recovery!Access(i) = Recovery!Mem("ESP", 0, s)
           \/ /\ Explicit(i) = {} /\ ~Recovery!OnStack(Recovery!Access(i))
              /\ i.op \in Recovery!StackClasses => IsMemory(i.dst)
<1> USE DEF IsMemory, Recovery!IsMemory
<1>0. /\ IsMemory(i.src) =>
            ~IsMemory(i.dst) /\ i.op \notin Recovery!SkippedClasses \cup Recovery!StackClasses
      /\ IsMemory(i.dst) => i.op \notin {"ENTER", "LEAVE", "RET", "PUSHF", "POPF", "PUSHA", "POPA"}
  BY IndicesAssumption
<1>1. ~Recovery!OnStack(Recovery!NoOperand)
  BY DEF Recovery!OnStack, Recovery!NoOperand, Recovery!Operand
<1>2. CASE i.op \in {"LEA", "ENTER", "LEAVE", "RET"}
  <2>1. Recovery!Access(i) = Recovery!NoOperand
    <3>1. CASE i.op = "LEA"
      BY <3>1 DEF Recovery!Access, Recovery!MemoryOperand
    <3>2. CASE i.op # "LEA"
      BY <1>2, <3>2 DEF Recovery!Access, Recovery!SkippedClasses
    <3> QED
      BY <3>1, <3>2
  <2>2. Explicit(i) = {}
    <3>1. i.op = "LEA" \/ (~IsMemory(i.dst) /\ ~IsMemory(i.src))
      BY <1>0, <1>2 DEF Recovery!SkippedClasses
    <3> QED
      BY <3>1 DEF Explicit
  <2>3. i.op \notin Recovery!StackClasses
    BY <1>2 DEF Recovery!StackClasses
  <2> QED
    BY <1>1, <2>1, <2>2, <2>3
<1>3. CASE i.op \notin {"LEA", "ENTER", "LEAVE", "RET"} /\ (IsMemory(i.dst) \/ IsMemory(i.src))
  <2>1. PICK o \in {i.dst, i.src} :
            /\ IsMemory(o) /\ Recovery!Access(i) = o
            /\ \A p \in {i.dst, i.src} : IsMemory(p) => p = o
    <3>1. i.op \notin Recovery!SkippedClasses
      BY <1>0, <1>3 DEF Recovery!SkippedClasses
    <3>2. Recovery!Access(i) = IF IsMemory(i.dst) THEN i.dst ELSE i.src
      BY <1>3, <3>1 DEF Recovery!Access, Recovery!MemoryOperand
    <3>3. CASE IsMemory(i.dst)
      <4>1. ~IsMemory(i.src)
        BY <1>0, <3>3
      <4> QED
        BY <3>2, <3>3, <4>1
    <3>4. CASE ~IsMemory(i.dst)
      BY <1>3, <3>2, <3>4
    <3> QED
      BY <3>3, <3>4
  <2>2. Explicit(i) = IF Recovery!OnStack(o) THEN {o} ELSE {}
    BY <1>3, <2>1 DEF Explicit, Recovery!OnStack
  <2>3. i.op \in Recovery!StackClasses => IsMemory(i.dst)
    BY <1>0, <1>3
  <2> QED
    BY <2>1, <2>2, <2>3
<1>4. CASE i.op \notin {"LEA", "ENTER", "LEAVE", "RET"} /\ ~IsMemory(i.dst) /\ ~IsMemory(i.src)
  <2>1. Explicit(i) = {}
    BY <1>4 DEF Explicit
  <2>2. CASE i.op \in Recovery!StackClasses
    <3>1. \E s \in {32, 256} : Recovery!Access(i) = Recovery!Mem("ESP", 0, s)
      BY <1>4, <2>2 DEF Recovery!Access, Recovery!SkippedClasses, Recovery!StackClasses,
                        Recovery!MemoryOperand
    <3> QED
      BY <1>4, <2>1, <2>2, <3>1
  <2>3. CASE i.op \notin Recovery!StackClasses
    <3>1. Recovery!Access(i) = Recovery!NoOperand
      BY <1>4, <2>3 DEF Recovery!Access, Recovery!MemoryOperand
    <3> QED
      BY <1>1, <2>1, <2>3, <3>1
  <2> QED
    BY <2>2, <2>3
<1> QED
  BY <1>2, <1>3, <1>4

(* What VariableHunter looks at of an instruction's accesses is filed at   *)
(* the offset it computes for XED's memory operand 0, and is there exactly *)
(* if that operand is on the stack.                                        *)
LEMMA NotedIsFiled ==
    ASSUME DistanceInv, NEW i \in Code, NEW n \in Int
    PROVE  /\ \A a \in Noted(i, n) : a.tracked = (frame = "own" /\ esp # UNKNOWN)
           /\ Recovery!OnStack(Recovery!Access(i)) => \E a \in Noted(i, n) : a.by # "push"
           /\ \A a \in Noted(i, n) : a.by # "push" => Recovery!OnStack(Recovery!Access(i))
           /\ frame = "own" /\ esp # UNKNOWN =>
                \A a \in Noted(i, n) : a.by # "push" =>
                    Filed(a) = Recovery!StackOffset(Recovery!Access(i), esp)
<1> DEFINE known == frame = "own" /\ esp # UNKNOWN
           o == Recovery!Access(i)
           m == IF o.index = "none" THEN 0 ELSE n
<1>0. /\ esp \in Int /\ distance \in Int /\ pushed \in Int /\ slack \in Int
      /\ known => distance = esp + 3 * pushed + slack
  BY DEF DistanceInv, DriftIsPushes
<1>1. \A a \in Noted(i, n) : a.tracked = known
  BY DEF Noted, Implicit, OperandAccess, Access
<1>2. CASE i.op \in {"PUSH", "POP"}
  <2>1. ~Recovery!OnStack(o)
    BY <1>2 DEF Recovery!Access, Recovery!SkippedClasses, Recovery!OnStack, Recovery!NoOperand,
                Recovery!Operand, Recovery!IsMemory
  <2>2. Implicit(i) = {}
    BY <1>2 DEF Implicit
  <2>3. \A p \in Explicit(i) : \A k : OperandAccess(i, p, k).by = "push"
    BY <1>2 DEF OperandAccess, Access
  <2>4. \A a \in Noted(i, n) : a.by = "push"
    BY <2>2, <2>3 DEF Noted
  <2> QED
    BY <1>1, <2>1, <2>4
<1>3. CASE i.op \notin {"PUSH", "POP"} /\ Explicit(i) = {o} /\ Recovery!OnStack(o)
            /\ (i.op \in Recovery!StackClasses => IsMemory(i.dst))
  <2> DEFINE a == OperandAccess(i, o, m)
  <2>1. \A b \in Implicit(i) : b.by = "push"
    BY <1>3 DEF Implicit, Access, Recovery!StackClasses
  <2>2. Noted(i, n) = Implicit(i) \cup {a}
    BY <1>3 DEF Noted
  <2>3. o.disp \in Int
    BY AccessTyped
  <2>4. m \in Int
    OBVIOUS
  <2>5. a.by = "operand"
    BY <1>3 DEF OperandAccess, Access
  <2>6. ASSUME known PROVE Filed(a) = Recovery!StackOffset(o, esp)
    <3>1. CASE o.reg = "EBP"
      <4>1. Filed(a) = m + o.disp + (-m)
        BY <1>3, <3>1 DEF OperandAccess, Access, Filed
      <4>2. Recovery!StackOffset(o, esp) = o.disp
        BY <3>1 DEF Recovery!StackOffset
      <4> HIDE DEF a, m, o
      <4> QED
        BY <2>3, <2>4, <4>1, <4>2
    <3>2. CASE o.reg = "ESP"
      <4>1. Filed(a) = (m + o.disp - distance) + (3 * pushed + slack - m)
        BY <1>3, <3>2 DEF OperandAccess, Access, Filed
      <4>2. Recovery!StackOffset(o, esp) = o.disp - esp
        BY <3>2 DEF Recovery!StackOffset
      <4>3. distance = esp + 3 * pushed + slack
        BY <1>0, <2>6
      <4> HIDE DEF a, m, o
      <4> QED
        BY <1>0, <2>3, <2>4, <4>1, <4>2, <4>3
    <3> QED
      BY <1>3, <3>1, <3>2 DEF Recovery!OnStack
  <2> HIDE DEF a, o, m
  <2> QED
    BY <1>1, <1>3, <2>1, <2>2, <2>5, <2>6 DEF o
<1>4. CASE /\ i.op \notin {"PUSH", "POP"} /\ Explicit(i) = {}
           /\ i.op \in Recovery!StackClasses /\ ~IsMemory(i.dst)
           /\ \E s \in {32, 256} : o = Recovery!Mem("ESP", 0, s)
  <2> DEFINE a == Access(-distance - BelowESP(i), 3 * pushed + slack + BelowESP(i), "implicit")
  <2>1. Noted(i, n) = {a}
    <3>1. Implicit(i) = {a}
      BY <1>4 DEF Implicit, Recovery!StackClasses
    <3> QED
      BY <1>4, <3>1 DEF Noted
  <2>2. a.by = "implicit"
    BY DEF Access
  <2>3. o.reg = "ESP" /\ o.disp = 0 /\ Recovery!OnStack(o)
    BY <1>4 DEF Recovery!Mem, Recovery!MemIndexed, Recovery!Operand, Recovery!OnStack,
                Recovery!IsMemory
  <2>4. ASSUME known PROVE Filed(a) = Recovery!StackOffset(o, esp)
    <3>1. BelowESP(i) \in Int
      BY DEF BelowESP
    <3>2. Filed(a) = (-distance - BelowESP(i)) + (3 * pushed + slack + BelowESP(i))
      BY DEF Filed, Access
    <3>3. Recovery!StackOffset(o, esp) = 0 - esp
      BY <2>3 DEF Recovery!StackOffset
    <3>4. distance = esp + 3 * pushed + slack
      BY <1>0, <2>4
    <3> HIDE DEF a, o
    <3> QED
      BY <1>0, <3>1, <3>2, <3>3, <3>4
  <2> HIDE DEF a, o
  <2> QED
    BY <1>1, <2>1, <2>2, <2>3, <2>4 DEF o
<1>5. CASE /\ i.op \notin {"PUSH", "POP"} /\ Explicit(i) = {} /\ ~Recovery!OnStack(o)
           /\ (i.op \in Recovery!StackClasses => IsMemory(i.dst))
  <2>1. \A b \in Implicit(i) : b.by = "push"
    BY <1>5 DEF Implicit, Access, Recovery!StackClasses
  <2>2. Noted(i, n) = Implicit(i)
    BY <1>5 DEF Noted
  <2> QED
    BY <1>1, <1>5, <2>1, <2>2
<1> HIDE DEF o
<1> QED
  BY <1>2, <1>3, <1>4, <1>5, ExplicitIsAccess DEF o

(* A scanned instruction adds to the map where its accesses are filed.     *)
LEMMA FoundStep ==
    ASSUME DistanceInv, FoundWhereAddressed, NEW i \in Code, Scan(i)
    PROVE  FoundWhereAddressed'
<1> DEFINE o == Recovery!Access(i)
           offset == Recovery!StackOffset(o, esp')
           Looked(S) == {a \in S : a.by # "push"}
           Files(S) == {Filed(a) : a \in Looked(S)}
<1>1. PICK n \in Indices : addressed' = addressed \cup Noted(i, n)
  BY DEF Scan, Noted
<1> DEFINE N == Noted(i, n)
<1>2. n \in Int
  BY IndicesAssumption
<1>3. /\ \A a \in N : a.tracked = (frame = "own" /\ esp # UNKNOWN)
      /\ Recovery!OnStack(o) => \E a \in N : a.by # "push"
      /\ \A a \in N : a.by # "push" => Recovery!OnStack(o)
      /\ frame = "own" /\ esp # UNKNOWN =>
            \A a \in N : a.by # "push" => Filed(a) = Recovery!StackOffset(o, esp)
  BY <1>2, NotedIsFiled
<1>4. ~Recovery!OnStack(o) => stack_variable' = stack_variable
  BY DEF Scan, Recovery!Find
<1>5. Recovery!OnStack(o) => DOMAIN stack_variable' = DOMAIN stack_variable \cup {offset}
  BY InsertedDomain DEF Scan, Recovery!Find
<1>6. Recovery!OnStack(o) => esp' = esp
  BY AccessKeepsESP DEF Scan, Recovery!Find, DistanceInv
<1> SUFFICES ASSUME InOwnFrame' PROVE DOMAIN stack_variable' = Files(addressed')
  BY DEF FoundWhereAddressed, LookedAt
<1> HIDE DEF N, o
<1>7. (\A a \in addressed : a.tracked) /\ (\A a \in N : a.tracked)
  BY <1>1 DEF InOwnFrame, N
<1>8. DOMAIN stack_variable = Files(addressed)
  BY <1>7 DEF FoundWhereAddressed, InOwnFrame, LookedAt
<1>9. Files(addressed') = Files(addressed) \cup Files(N)
  BY <1>1 DEF N
<1>10. CASE ~Recovery!OnStack(o)
  <2>1. Files(N) = {}
    BY <1>3, <1>10
  <2> HIDE DEF Files
  <2> QED
    BY <1>4, <1>8, <1>9, <1>10, <2>1
<1>11. CASE Recovery!OnStack(o)
  <2>1. PICK a \in N : a.by # "push"
    BY <1>3, <1>11
  <2>2. frame = "own" /\ esp # UNKNOWN
    BY <1>3, <1>7, <2>1
  <2>3. \A b \in N : b.by # "push" => Filed(b) = offset
    BY <1>3, <1>6, <1>11, <2>2
  <2> HIDE DEF offset
  <2>4. Files(N) = {offset}
    BY <2>1, <2>3
  <2> HIDE DEF Files
  <2> QED
    BY <1>5, <1>8, <1>9, <1>11, <2>4
<1> QED
  BY <1>10, <1>11

LEMMA FrameInvariance == FrameSpec => []FrameInv
<1>1. FrameInit => FrameInv
  <2> SUFFICES ASSUME FrameInit PROVE FrameInv
    OBVIOUS
  <2>1. DistanceInv
    BY DriftInit DEF FrameInit
  <2>2. DOMAIN stack_variable = {} /\ addressed = {}
    BY DEF FrameInit, Recovery!RecoveryInit, Recovery!NoEntries
  <2>3. FoundWhereAddressed
    BY <2>2 DEF FoundWhereAddressed, LookedAt
  <2> QED
    BY <2>1, <2>3, MapsInit DEF FrameInv
<1>2. FrameInv /\ [FrameNext]_frameVars => FrameInv'
  <2> SUFFICES ASSUME FrameInv, [FrameNext]_frameVars PROVE FrameInv'
    OBVIOUS
  <2> DEFINE Found == DistanceInv /\ FoundWhereAddressed
  <2>1. ASSUME UNCHANGED <<esp, frame, distance, pushed, slack, stack_variable, addressed>>
        PROVE  Found'
    BY <2>1 DEF FrameInv, DistanceInv, DriftIsPushes, FoundWhereAddressed, InOwnFrame, LookedAt
  <2>2. ASSUME UNCHANGED frameVars PROVE Found'
    BY <2>1, <2>2 DEF frameVars, vars
  <2>3. ASSUME Return PROVE Found'
    BY <2>1, <2>3 DEF Return, Recovery!GetResult, Recovery!Undecodable, Recovery!TrackAssert
  <2>4. ASSUME NEW i \in Code, Scan(i) PROVE Found'
    BY <2>4, DriftStep, FoundStep DEF Scan, FrameInv
  <2>5. Found'
    BY <2>2, <2>3, <2>4 DEF FrameNext
  <2>6. MapsInv'
    BY <2>5, MapsNext DEF FrameInv
  <2> QED
    BY <2>5, <2>6 DEF FrameInv
<1> QED
  BY <1>1, <1>2, PTL DEF FrameSpec

(* Whatever the function does with its stack, the offsets in the map are   *)
(* the places that its operands address outside PUSH and POP, and those of *)
(* the words that CALLs and the like push or pop, each moved by what an    *)
(* index register added and, through ESP, by the drift of its moment.      *)
THEOREM FoundPlaces == FrameSpec => []FoundWhereAddressed
<1>1. FrameInv => FoundWhereAddressed
  BY DEF FrameInv
<1> QED
  BY <1>1, FrameInvariance, PTL

(* A size is the distance to the next key, or what is left of the last one.*)
LEMMA Sizes ==
    ASSUME NEW map, IsMap(map), NEW o \in DOMAIN map
    PROVE  /\ o \in Int
           /\ Recovery!StackSize(map, o) \in Nat /\ Recovery!AbsoluteSize(map, o) \in Nat
           /\ \A q \in DOMAIN map : q > o => o + Recovery!StackSize(map, o) <= q
           /\ Recovery!StackSize(map, o) = 0 => o = 0 /\ \A q \in DOMAIN map : q <= 0
<1>0. o \in Int /\ map[o] \in Nat /\ DOMAIN map \subseteq Int
  BY DEF IsMap
<1>1. CASE Recovery!Above(map, o) # {}
  <2> DEFINE f == Recovery!Following(map, o)
  <2>1. f \in Int /\ f > o /\ \A q \in DOMAIN map : q > o => f <= q
    BY <1>1, FollowingKey DEF IsMap
  <2>2. Recovery!StackSize(map, o) = f - o /\ Recovery!AbsoluteSize(map, o) = f - o
    BY <1>1 DEF Recovery!StackSize, Recovery!AbsoluteSize
  <2> HIDE DEF f
  <2>3. f - o \in Nat /\ f - o # 0 /\ o + (f - o) = f
    BY <1>0, <2>1
  <2> QED
    BY <1>0, <2>1, <2>2, <2>3
<1>2. CASE Recovery!Above(map, o) = {}
  <2>1. \A q \in DOMAIN map : ~ (q > o)
    BY <1>2 DEF Recovery!Above
  <2>2. /\ Recovery!StackSize(map, o) = (IF o < 0 THEN -o ELSE o)
        /\ Recovery!AbsoluteSize(map, o) = map[o]
    BY <1>2 DEF Recovery!StackSize, Recovery!AbsoluteSize, Recovery!Magnitude
  <2>3. /\ (IF o < 0 THEN -o ELSE o) \in Nat
        /\ (IF o < 0 THEN -o ELSE o) = 0 => o = 0
    BY <1>0
  <2>4. o = 0 => \A q \in DOMAIN map : q <= 0
    BY <1>0, <2>1
  <2> QED
    BY <1>0, <2>1, <2>2, <2>3, <2>4
<1> QED
  BY <1>1, <1>2

(* Offsets and sizes stay numbers and the outcome one of five, over any    *)
(* sequence of findVariable() calls and the getResult() that ends it.      *)
THEOREM RecoveryTypeCorrect == FrameSpec => []RecoveryTypeOK
<1>1. FrameInv => RecoveryTypeOK
  <2> SUFFICES ASSUME FrameInv PROVE RecoveryTypeOK
    OBVIOUS
  <2> DEFINE n == Cardinality(DOMAIN stack_variable)
             m == Cardinality(DOMAIN absolute_variable)
  <2>1. DistanceInv /\ MapsInv
    BY DEF FrameInv
  <2>2. IsMap(stack_variable) /\ IsMap(absolute_variable)
    BY <2>1 DEF MapsInv
  <2>3. \A map \in {stack_variable, absolute_variable} :
            DOMAIN map \subseteq Int /\ Recovery!Range(map) \subseteq Nat
    BY <2>2 DEF IsMap, Recovery!Range
  <2>4. CASE outcome = "found"
    <3>1. container = Recovery!Entries
      BY <2>1, <2>4 DEF MapsInv
    <3>2. n \in Nat /\ m \in Nat /\ DOMAIN container = 1 .. n + m
      BY <2>2, <3>1, EntriesFacts
    <3>3. ASSUME NEW k \in 1 .. n PROVE container[k].size \in Nat
      <4>1. Recovery!Sorted(stack_variable)[k] \in DOMAIN stack_variable
        BY <2>2, SortedKeys DEF IsMap
      <4>2. container[k].size
              = Recovery!StackSize(stack_variable, Recovery!Sorted(stack_variable)[k])
        BY <2>2, <3>1, EntriesFacts
      <4> QED
        BY <2>2, <4>1, <4>2, Sizes
    <3>4. ASSUME NEW k \in n + 1 .. n + m PROVE container[k].size \in Nat
      <4>1. k - n \in 1 .. m
        BY <3>2
      <4>2. Recovery!Sorted(absolute_variable)[k - n] \in DOMAIN absolute_variable
        BY <2>2, <4>1, SortedKeys DEF IsMap
      <4>3. container[k].size
              = Recovery!AbsoluteSize(absolute_variable, Recovery!Sorted(absolute_variable)[k - n])
        BY <2>2, <3>1, EntriesFacts
      <4> QED
        BY <2>2, <4>2, <4>3, Sizes
    <3> HIDE DEF n, m
    <3>5. \A k \in DOMAIN container : k \in 1 .. n \/ k \in n + 1 .. n + m
      BY <3>2
    <3>6. \A k \in DOMAIN container : container[k].size \in Nat
      BY <3>3, <3>4, <3>5
    <3> QED
      BY <2>1, <2>3, <2>4, <3>6 DEF RecoveryTypeOK, Recovery!RecoveryTypeOK, DistanceInv, MapsInv
  <2>5. CASE outcome # "found"
    <3>1. \A k \in DOMAIN container : container[k].size \in Nat
      BY <2>1, <2>5 DEF MapsInv
    <3> QED
      BY <2>1, <2>3, <3>1 DEF RecoveryTypeOK, Recovery!RecoveryTypeOK, DistanceInv, MapsInv
  <2> QED
    BY <2>4, <2>5
<1> QED
  BY <1>1, FrameInvariance, PTL

(* The key of a variable tells its place among all, as class Tracker and   *)
(* main() use it, whatever was found and in whatever order.                *)
THEOREM Numbered == FrameSpec => []KeysInOrder
<1>1. FrameInv => KeysInOrder
  <2> SUFFICES ASSUME FrameInv, outcome = "found", NEW k \in DOMAIN container
               PROVE  k = IF container[k].region = "stack"
                          THEN Rank(DOMAIN stack_variable, container[k].offset) + 1
                          ELSE Cardinality(DOMAIN stack_variable)
                                + Rank(DOMAIN absolute_variable, container[k].offset) + 1
    BY DEF KeysInOrder, Rank, Smaller
  <2> DEFINE n == Cardinality(DOMAIN stack_variable)
             m == Cardinality(DOMAIN absolute_variable)
  <2>1. IsMap(stack_variable) /\ IsMap(absolute_variable) /\ container = Recovery!Entries
    BY DEF FrameInv, MapsInv
  <2>2. n \in Nat /\ m \in Nat /\ DOMAIN container = 1 .. n + m
    BY <2>1, EntriesFacts
  <2>3. CASE k \in 1 .. n
    <3>1. /\ container[k].region = "stack"
          /\ container[k].offset = Recovery!Sorted(stack_variable)[k]
      BY <2>1, <2>3, EntriesFacts
    <3>2. Rank(DOMAIN stack_variable, Recovery!Sorted(stack_variable)[k]) = k - 1
      BY <2>1, <2>3, SortedKeys DEF IsMap
    <3>3. k = (k - 1) + 1
      BY <2>2
    <3> QED
      BY <3>1, <3>2, <3>3
  <2>4. CASE k \in n + 1 .. n + m
    <3>1. /\ container[k].region = "absolute" /\ k - n \in 1 .. m
          /\ container[k].offset = Recovery!Sorted(absolute_variable)[k - n]
      BY <2>1, <2>4, EntriesFacts
    <3>2. Rank(DOMAIN absolute_variable, Recovery!Sorted(absolute_variable)[k - n]) = k - n - 1
      BY <2>1, <3>1, SortedKeys DEF IsMap
    <3> HIDE DEF n, m
    <3>3. k = n + (k - n - 1) + 1
      BY <2>2
    <3> QED
      BY <3>1, <3>2, <3>3 DEF n
  <2> HIDE DEF n, m
  <2> QED
    BY <2>2, <2>3, <2>4
<1> QED
  BY <1>1, FrameInvariance, PTL

(* The stack variables found lie one after the other, and where an entry  *)
(* was filed one begins; only [EBP] has no size, if it is the highest.     *)
LEMMA Partition ==
    ASSUME FrameInv, outcome = "found"
    PROVE  /\ \A k, l \in StackFound :
                k < l => container[k].offset + container[k].size <= container[l].offset
           /\ \A filed \in DOMAIN stack_variable : \E k \in StackFound :
                /\ container[k].offset = filed
                /\ \/ filed \in Recovery!Extent(container[k])
                   \/ filed = 0 /\ \A l \in StackFound : container[l].offset <= 0
<1> DEFINE n == Cardinality(DOMAIN stack_variable)
           m == Cardinality(DOMAIN absolute_variable)
<1>1. IsMap(stack_variable) /\ IsMap(absolute_variable) /\ container = Recovery!Entries
  BY DEF FrameInv, MapsInv
<1>2. n \in Nat /\ m \in Nat /\ DOMAIN container = 1 .. n + m
  BY <1>1, EntriesFacts
<1>3. StackFound = 1 .. n
  <2>1. \A k \in 1 .. n : container[k].region = "stack"
    BY <1>1, EntriesFacts
  <2>2. \A k \in n + 1 .. n + m : container[k].region = "absolute"
    BY <1>1, EntriesFacts
  <2> HIDE DEF n, m
  <2>3. \A k \in 1 .. n + m : k \in 1 .. n \/ k \in n + 1 .. n + m
    BY <1>2
  <2>4. 1 .. n \subseteq 1 .. n + m
    BY <1>2
  <2>5. \A k \in n + 1 .. n + m : container[k].region # "stack"
    BY <2>2
  <2> QED
    BY <1>2, <2>1, <2>3, <2>4, <2>5 DEF StackFound
<1>4. ASSUME NEW k \in StackFound
      PROVE  /\ k \in Nat
             /\ container[k].offset \in DOMAIN stack_variable /\ container[k].offset \in Int
             /\ container[k].offset = Recovery!Sorted(stack_variable)[k]
             /\ Rank(DOMAIN stack_variable, container[k].offset) = k - 1
             /\ container[k].size = Recovery!StackSize(stack_variable, container[k].offset)
             /\ container[k].size \in Nat
  <2>1. /\ container[k].offset = Recovery!Sorted(stack_variable)[k]
        /\ container[k].size
            = Recovery!StackSize(stack_variable, Recovery!Sorted(stack_variable)[k])
    BY <1>1, <1>3, EntriesFacts
  <2>2. /\ Recovery!Sorted(stack_variable)[k] \in DOMAIN stack_variable
        /\ Rank(DOMAIN stack_variable, Recovery!Sorted(stack_variable)[k]) = k - 1
    BY <1>1, <1>3, SortedKeys DEF IsMap
  <2>3. k \in Nat
    BY <1>2, <1>3
  <2> QED
    BY <1>1, <2>1, <2>2, <2>3, Sizes
<1>5. ASSUME NEW k \in StackFound, NEW l \in StackFound, k < l
      PROVE  container[k].offset + container[k].size <= container[l].offset
  <2>1. ~ (container[l].offset < container[k].offset)
    <3>1. ~ (Rank(DOMAIN stack_variable, container[l].offset)
                < Rank(DOMAIN stack_variable, container[k].offset))
      BY <1>4, <1>5
    <3> QED
      BY <1>1, <1>4, <3>1, RankGrows DEF IsMap
  <2>2. container[l].offset # container[k].offset
    <3>1. k - 1 # l - 1
      BY <1>4, <1>5
    <3> QED
      BY <1>4, <3>1
  <2>3. container[l].offset > container[k].offset
    BY <1>4, <2>1, <2>2
  <2> QED
    BY <1>1, <1>4, <2>3, Sizes
<1>6. ASSUME NEW filed \in DOMAIN stack_variable
      PROVE  \E k \in StackFound :
                /\ container[k].offset = filed
                /\ \/ filed \in Recovery!Extent(container[k])
                   \/ filed = 0 /\ \A l \in StackFound : container[l].offset <= 0
  <2>1. PICK j \in StackFound : container[j].offset = filed
    <3>1. PICK j \in 1 .. n : Recovery!Sorted(stack_variable)[j] = filed
      BY <1>1, SortedKeys DEF IsMap
    <3> QED
      BY <1>3, <1>4, <3>1
  <2>2. /\ container[j].size = Recovery!StackSize(stack_variable, filed)
        /\ filed \in Int /\ container[j].size \in Nat
    BY <1>4, <2>1
  <2>3. CASE container[j].size # 0
    <3>1. filed \in filed .. (filed + container[j].size - 1)
      BY <2>2, <2>3
    <3> QED
      BY <2>1, <3>1 DEF Recovery!Extent
  <2>4. CASE container[j].size = 0
    <3>1. filed = 0 /\ \A q \in DOMAIN stack_variable : q <= 0
      BY <1>1, <2>2, <2>4, Sizes
    <3> QED
      BY <1>4, <2>1, <3>1
  <2> QED
    BY <2>3, <2>4
<1> QED
  BY <1>5, <1>6

(* The variables of a frame are disjoint, and every access that was looked *)
(* at lies in the one that findVariable() filed it for, for code of any    *)
(* instructions.                                                           *)
THEOREM OneVariable == FrameSpec => []EachPlaceInOneVariable
<1>1. FrameInv => EachPlaceInOneVariable
  <2> SUFFICES ASSUME FrameInv, outcome = "found" PROVE EachPlaceInOneVariable
    BY DEF EachPlaceInOneVariable
  <2>1. InOwnFrame => \A a \in LookedAt : Filed(a) \in DOMAIN stack_variable
    BY DEF FrameInv, FoundWhereAddressed
  <2> QED
    BY <2>1, Partition DEF EachPlaceInOneVariable
<1> QED
  BY <1>1, FrameInvariance, PTL

=============================================================================
