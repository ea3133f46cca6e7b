------------------------- MODULE FunctionAnalysisProofs -------------------------
(***************************************************************************)
(* The control flow graph, and the three passes over a function together,  *)
(* for functions of any length with jumps to anywhere: what the two passes *)
(* of buildCFG() collect, the matrix that is built from it, and that no    *)
(* block that control can reach in the code is left without a depth.       *)
(***************************************************************************)
EXTENDS FunctionAnalysis, FiniteSetTheorems, WellFoundedInduction, TLAPS

(* The jumps and the conditional jumps among the addresses S.              *)
Jumps(S) == {a \in S : code[a].op \in {"jmp", "ijmp", "jcc"}}
Branchings(S) == {a \in S : code[a].op = "jcc"}

(* The addresses each pass has been over, if it came to its end.           *)
Scanned == IF stage = "scan" THEN 0 .. (index - 1) ELSE DOMAIN code
Joined ==
    IF stage = "scan" THEN {} ELSE IF stage = "join" THEN 0 .. (index - 1) ELSE DOMAIN code

Targets == {Displaced(a) : a \in Jumps(Scanned)}
AfterBranches == {a + 1 : a \in Branchings(Scanned)}
ScanEdges ==
    {<<a, Displaced(a)>> : a \in Jumps(Scanned)} \cup {<<a, a + 1>> : a \in Branchings(Scanned)}
Entered == {a \in Joined : a > 0 /\ a \in jmpTarget /\ FallsThrough(code[a - 1])}
JoinEdges == {<<a - 1, a>> : a \in Entered}

Types ==
    /\ Length \in Nat \ {0}
    /\ code \in [0 .. (Length - 1) -> Instructions(Length)]
    /\ index \in 0 .. Length
    /\ instruction \subseteq DOMAIN code
    /\ IsFiniteSet(nodes) /\ nodes \subseteq Int
    /\ 0 \in nodes /\ jmpTarget \subseteq nodes
    /\ \A e \in edges : e[1] \in DOMAIN code /\ e[2] \in nodes
    /\ stage \in {"scan", "join", "matrix", "built"}

Collected ==
    complete =>
        /\ \A a \in Scanned : code[a].op # "bad"
        /\ jmpTarget = Targets
        /\ nodes = {0} \cup Targets \cup AfterBranches
        /\ ScanEdges \cup JoinEdges \subseteq edges
        /\ \A e \in edges : e \in ScanEdges \cup JoinEdges \/ e[2] = 0
        /\ 0 \notin jmpTarget => edges = ScanEdges \cup JoinEdges

Filled ==
    matrix = IF stage = "built" THEN {<<BlockOf(e[1]), BlockAt(e[2])>> : e \in edges} ELSE {}

CfgInv == Types /\ Collected /\ Filled

----------------------------------------------------------------------------
LEMMA IntervalSize ==
    ASSUME NEW n \in Nat
    PROVE  Cardinality(0 .. (n - 1)) = n /\ IsFiniteSet(0 .. (n - 1))
  BY FS_Interval

LEMMA InitInv == CfgInit => CfgInv
<1> SUFFICES ASSUME CfgInit PROVE CfgInv
  OBVIOUS
<1>1. PICK n \in 1 .. MaxLength : code \in [0 .. (n - 1) -> Instructions(n)]
  BY DEF CfgInit
<1>2. n \in Nat \ {0}
  BY LengthAssumption
<1>3. Length = n
  BY <1>1, <1>2, IntervalSize DEF Length
<1>4. Types
  <2>1. code \in [0 .. (Length - 1) -> Instructions(Length)]
    BY <1>1, <1>3
  <2>2. IsFiniteSet(nodes)
    BY FS_Singleton DEF CfgInit
  <2> HIDE DEF Length
  <2> QED
    BY <1>2, <1>3, <2>1, <2>2 DEF CfgInit, Types
<1>5. Collected
  BY DEF CfgInit, Collected, Scanned, Joined, Targets, AfterBranches, ScanEdges, JoinEdges,
         Entered, Jumps, Branchings
<1>6. Filled
  BY DEF CfgInit, Filled
<1> QED
  BY <1>4, <1>5, <1>6 DEF CfgInv

(* An instruction is a record whose target is an address.                  *)
LEMMA InstructionFields ==
    ASSUME Types, NEW a \in DOMAIN code
    PROVE  /\ a \in 0 .. (Length - 1) /\ code[a].target \in Int
           /\ code[a].op \in {"plain", "ret", "bad", "stop", "jmp", "ijmp", "jcc", "jcxz"}
           /\ Displaced(a) \in Int
<1>1. code[a] \in Instructions(Length)
  BY DEF Types
<1>2. Outside \in Nat /\ Length \in Nat
  BY LengthAssumption DEF Types
<1> QED
  <2>1. a \in 0 .. (Length - 1)
    BY DEF Types
  <2>2. /\ code[a].target \in Int
        /\ code[a].op \in {"plain", "ret", "bad", "stop", "jmp", "ijmp", "jcc", "jcxz"}
    <3>1. CASE code[a] \in [op : {"plain", "ret", "bad"} \cup (Misread \cap {"stop"}),
                             target : {0}]
      <4>1. code[a].op \in {"plain", "ret", "bad"} \cup (Misread \cap {"stop"})
        BY <3>1
      <4>2. code[a].target = 0
        BY <3>1
      <4> QED
        BY <4>1, <4>2
    <3>2. CASE code[a] \in [op : {"jmp", "jcc"} \cup (Misread \ {"stop"}),
                             target : (0 - Outside) .. (Length + Outside)]
      <4>1. code[a].op \in {"jmp", "jcc"} \cup (Misread \ {"stop"})
        BY <3>2
      <4>2. code[a].target \in (0 - Outside) .. (Length + Outside)
        BY <3>2
      <4>3. code[a].target \in Int
        BY <1>2, <4>2
      <4> QED
        BY <4>1, <4>3, LengthAssumption
    <3> QED
      BY <1>1, <3>1, <3>2 DEF Instructions
  <2> QED
    BY <1>2, <2>1, <2>2 DEF Displaced

LEMMA StepTypes == CfgInv /\ [CfgNext]_cfgVars => Types'
<1> SUFFICES ASSUME CfgInv, [CfgNext]_cfgVars PROVE Types'
  OBVIOUS
<1> USE DEF CfgInv, Types
<1>1. code' = code /\ Length' = Length /\ DOMAIN code = 0 .. (Length - 1)
  BY DEF CfgNext, ScanPlain, ScanJump, ScanBranch, ScanBad, ScanEnd, Join, JoinSkip,
         JoinEntry, JoinEnd, BuildMatrix, cfgVars, Length
<1>2. CASE UNCHANGED cfgVars
  BY <1>1, <1>2 DEF cfgVars
<1>3. CASE ScanPlain
  BY <1>1, <1>3 DEF ScanPlain
<1>4. CASE ScanJump
  <2>1. index \in DOMAIN code /\ Displaced(index) \in Int
    BY <1>1, <1>4, InstructionFields DEF ScanJump
  <2>2. IsFiniteSet(nodes')
    BY <1>4, FS_AddElement DEF ScanJump
  <2>3. \A e \in edges' : e[1] \in DOMAIN code /\ e[2] \in nodes'
    BY <1>4, <2>1 DEF ScanJump
  <2>4. nodes' \subseteq Int /\ 0 \in nodes' /\ jmpTarget' \subseteq nodes'
    BY <1>4, <2>1 DEF ScanJump
  <2>5. index' \in 0 .. Length /\ instruction' \subseteq DOMAIN code /\ stage' = stage
    BY <1>1, <1>4, <2>1 DEF ScanJump
  <2> QED
    BY <1>1, <2>2, <2>3, <2>4, <2>5
<1>5. CASE ScanBranch
  <2>1. index \in DOMAIN code /\ index + 1 \in Int /\ code[index].target \in Int
    BY <1>1, <1>5, InstructionFields DEF ScanBranch
  <2>2. nodes' = (nodes \cup {code[index].target}) \cup {index + 1}
    BY <1>5 DEF ScanBranch
  <2>3. IsFiniteSet(nodes')
    BY <2>2, FS_AddElement
  <2>4. \A e \in edges' : e[1] \in DOMAIN code /\ e[2] \in nodes'
    BY <1>5, <2>1 DEF ScanBranch
  <2>5. nodes' \subseteq Int /\ 0 \in nodes' /\ jmpTarget' \subseteq nodes'
    BY <1>5, <2>1 DEF ScanBranch
  <2>6. index' \in 0 .. Length /\ instruction' \subseteq DOMAIN code /\ stage' = stage
    BY <1>1, <1>5, <2>1 DEF ScanBranch
  <2> QED
    BY <1>1, <2>3, <2>4, <2>5, <2>6
<1>6. CASE ScanBad
  BY <1>1, <1>6 DEF ScanBad
<1>7. CASE ScanEnd
  BY <1>1, <1>7 DEF ScanEnd
<1>8. CASE Join
  <2>1. index - 1 \in DOMAIN code /\ index \in nodes
    BY <1>1, <1>8 DEF Join
  <2> QED
    BY <1>1, <1>8, <2>1 DEF Join
<1>9. CASE JoinSkip
  BY <1>1, <1>9 DEF JoinSkip
<1>10. CASE JoinEntry
  BY <1>1, <1>10 DEF JoinEntry
<1>11. CASE JoinEnd
  BY <1>1, <1>11 DEF JoinEnd
<1>12. CASE BuildMatrix
  BY <1>1, <1>12 DEF BuildMatrix
<1> QED
  BY <1>2, <1>3, <1>4, <1>5, <1>6, <1>7, <1>8, <1>9, <1>10, <1>11, <1>12 DEF CfgNext

(* The address the first pass looks at is added to what it has been over.  *)
LEMMA ScanGrows ==
    ASSUME Types, stage = "scan", index < Length, index' = index + 1,
           stage' = stage, code' = code
    PROVE  /\ Scanned' = Scanned \cup {index}
           /\ index \notin Scanned
           /\ Joined = {} /\ Joined' = {}
  BY DEF Types, Scanned, Joined

LEMMA StepCollected == CfgInv /\ [CfgNext]_cfgVars => Collected'
<1> SUFFICES ASSUME CfgInv, [CfgNext]_cfgVars, complete' PROVE Collected'
  BY DEF Collected
<1> USE DEF CfgInv, Displaced
<1>1. DOMAIN code = 0 .. (Length - 1) /\ Length \in Nat \ {0} /\ index \in 0 .. Length
  BY DEF Types
<1>2. CASE UNCHANGED cfgVars
  <2> USE <1>2 DEF cfgVars
  <2>1. Scanned' = Scanned /\ Joined' = Joined
    BY DEF Scanned, Joined
  <2>2. /\ Targets' = Targets /\ AfterBranches' = AfterBranches
        /\ ScanEdges' = ScanEdges /\ JoinEdges' = JoinEdges
    BY <2>1 DEF Targets, AfterBranches, ScanEdges, JoinEdges, Entered, Jumps, Branchings
  <2> QED
    BY <2>1, <2>2 DEF Collected
<1>3. CASE ScanPlain
  <2> USE <1>3 DEF ScanPlain
  <2>1. Scanned' = Scanned \cup {index} /\ Joined = {} /\ Joined' = {}
    BY ScanGrows
  <2>2. Jumps(Scanned)' = Jumps(Scanned) /\ Branchings(Scanned)' = Branchings(Scanned)
    BY <2>1 DEF Jumps, Branchings
  <2>3. Targets' = Targets /\ AfterBranches' = AfterBranches
    BY <2>2 DEF Targets, AfterBranches
  <2>4. ScanEdges' = ScanEdges /\ JoinEdges = {} /\ JoinEdges' = {}
    BY <2>1, <2>2 DEF ScanEdges, JoinEdges, Entered
  <2> QED
    BY <2>1, <2>3, <2>4 DEF Collected
<1>4. CASE ScanJump
  <2> USE <1>4 DEF ScanJump
  <2>1. Scanned' = Scanned \cup {index} /\ Joined = {} /\ Joined' = {}
    BY ScanGrows
  <2>2. /\ Jumps(Scanned)' = Jumps(Scanned) \cup {index}
        /\ Branchings(Scanned)' = Branchings(Scanned)
    BY <2>1 DEF Jumps, Branchings
  <2>3. Targets' = Targets \cup {Displaced(index)} /\ AfterBranches' = AfterBranches
    BY <2>2 DEF Targets, AfterBranches
  <2>4. /\ ScanEdges' = ScanEdges \cup {<<index, Displaced(index)>>}
        /\ JoinEdges = {} /\ JoinEdges' = {}
    BY <2>1, <2>2 DEF ScanEdges, JoinEdges, Entered
  <2> QED
    BY <2>1, <2>3, <2>4 DEF Collected
<1>5. CASE ScanBranch
  <2> USE <1>5 DEF ScanBranch
  <2>1. Scanned' = Scanned \cup {index} /\ Joined = {} /\ Joined' = {}
    BY ScanGrows
  <2>2. /\ Jumps(Scanned)' = Jumps(Scanned) \cup {index}
        /\ Branchings(Scanned)' = Branchings(Scanned) \cup {index}
    BY <2>1 DEF Jumps, Branchings
  <2>3. /\ Targets' = Targets \cup {code[index].target}
        /\ AfterBranches' = AfterBranches \cup {index + 1}
    BY <2>2 DEF Targets, AfterBranches
  <2>4. /\ ScanEdges' = ScanEdges \cup {<<index, code[index].target>>, <<index, index + 1>>}
        /\ JoinEdges = {} /\ JoinEdges' = {}
    BY <2>1, <2>2 DEF ScanEdges, JoinEdges, Entered
  <2> QED
    BY <2>1, <2>3, <2>4 DEF Collected
<1>6. CASE ScanBad
  BY <1>6 DEF ScanBad
<1> DEFINE Same == /\ Scanned' = Scanned /\ Targets' = Targets
                   /\ AfterBranches' = AfterBranches /\ ScanEdges' = ScanEdges
<1>7. ASSUME Scanned' = Scanned, code' = code PROVE Same
  BY <1>7 DEF Targets, AfterBranches, ScanEdges, Jumps, Branchings
<1> HIDE DEF Same
<1>8. CASE ScanEnd
  <2> USE <1>8 DEF ScanEnd
  <2>1. Scanned' = Scanned /\ Joined = {} /\ Joined' = {}
    BY <1>1 DEF Scanned, Joined
  <2>2. Same /\ JoinEdges = {} /\ JoinEdges' = {}
    BY <1>7, <2>1 DEF JoinEdges, Entered
  <2> QED
    BY <2>1, <2>2 DEF Collected, Same
<1>9. CASE Join
  <2> USE <1>9 DEF Join
  <2>1. Scanned' = Scanned /\ Joined' = Joined \cup {index}
    BY <1>1 DEF Scanned, Joined
  <2>2. Same
    BY <1>7, <2>1
  <2>3. Entered' = IF FallsThrough(code[index - 1]) THEN Entered \cup {index} ELSE Entered
    BY <1>1, <2>1 DEF Entered
  <2>4. JoinEdges' = IF FallsThrough(code[index - 1])
                     THEN JoinEdges \cup {<<index - 1, index>>} ELSE JoinEdges
    BY <2>3 DEF JoinEdges
  <2> QED
    BY <2>1, <2>2, <2>4 DEF Collected, Same
<1>10. CASE JoinSkip
  <2> USE <1>10 DEF JoinSkip
  <2>1. Scanned' = Scanned /\ Joined' = Joined \cup {index}
    BY <1>1 DEF Scanned, Joined
  <2>2. Same /\ Entered' = Entered
    BY <1>7, <2>1 DEF Entered
  <2> QED
    BY <2>1, <2>2 DEF Collected, Same, JoinEdges
<1>11. CASE JoinEntry
  <2> USE <1>11 DEF JoinEntry
  <2>1. Scanned' = Scanned /\ Same
    BY <1>1, <1>7 DEF Scanned
  <2>2. /\ index' = 1 /\ stage' = stage /\ jmpTarget' = jmpTarget /\ complete
        /\ \E E \in {{}} \cup {{<<previous, 0>>} : previous \in DOMAIN code} :
                edges' = edges \cup E
    BY DEF Collected
  <2>3. edges \subseteq edges' /\ \A e \in edges' : e \in edges \/ e[2] = 0
    BY <2>2
  <2>4. Entered = {} /\ Entered' = {}
    BY <1>1, <2>2 DEF Entered, Joined
  <2>5. JoinEdges' = JoinEdges
    BY <2>4 DEF JoinEdges
  <2> QED
    BY <2>1, <2>2, <2>3, <2>5 DEF Collected, Same
<1>12. CASE JoinEnd
  <2> USE <1>12 DEF JoinEnd
  <2>1. Scanned' = Scanned /\ Joined' = Joined
    BY <1>1 DEF Scanned, Joined
  <2>2. Same /\ JoinEdges' = JoinEdges
    BY <1>7, <2>1 DEF JoinEdges, Entered
  <2> QED
    BY <2>1, <2>2 DEF Collected, Same
<1>13. CASE BuildMatrix
  <2> USE <1>13 DEF BuildMatrix
  <2>1. Scanned' = Scanned /\ Joined' = Joined
    BY <1>1 DEF Scanned, Joined
  <2>2. Same /\ JoinEdges' = JoinEdges
    BY <1>7, <2>1 DEF JoinEdges, Entered
  <2> QED
    BY <2>1, <2>2 DEF Collected, Same
<1> QED
  BY <1>2, <1>3, <1>4, <1>5, <1>6, <1>8, <1>9, <1>10, <1>11, <1>12, <1>13 DEF CfgNext

LEMMA StepFilled == CfgInv /\ [CfgNext]_cfgVars => Filled'
<1> SUFFICES ASSUME CfgInv, [CfgNext]_cfgVars PROVE Filled'
  OBVIOUS
<1>1. CASE UNCHANGED cfgVars
  BY <1>1 DEF cfgVars, CfgInv, Filled, BlockOf, BlockAt
<1>2. CASE BuildMatrix
  BY <1>2 DEF BuildMatrix, Filled, BlockOf, BlockAt
<1>3. ASSUME stage \in {"scan", "join"}, stage' \in {"scan", "join", "matrix"}, matrix' = matrix
      PROVE  Filled'
  BY <1>3 DEF CfgInv, Filled
<1> QED
  BY <1>1, <1>2, <1>3 DEF CfgNext, ScanPlain, ScanJump, ScanBranch, ScanBad, ScanEnd, Join,
                          JoinSkip, JoinEntry, JoinEnd

(* The inductive invariant of both passes.                                 *)
THEOREM Collection == CfgSpec => []CfgInv
<1>1. CfgInv /\ [CfgNext]_cfgVars => CfgInv'
  BY StepTypes, StepCollected, StepFilled DEF CfgInv
<1> QED
  BY InitInv, <1>1, PTL DEF CfgSpec

----------------------------------------------------------------------------
(* Blocks are numbered by how many start before them.                      *)
LEMMA BlockNumbers ==
    ASSUME Types, NEW n \in nodes, NEW a \in Int, a >= 0
    PROVE  /\ blockNum \in Nat
           /\ BlockAt(n) \in 0 .. (blockNum - 1)
           /\ BlockOf(a) \in 0 .. (blockNum - 1)
<1>1. IsFiniteSet(nodes) /\ nodes \subseteq Int /\ 0 \in nodes /\ blockNum \in Nat
  BY FS_CardinalityType DEF Types, blockNum
<1>2. BlockAt(n) \in 0 .. (blockNum - 1)
  <2> DEFINE below == {m \in nodes : m < n}
  <2>1. below \subseteq nodes /\ below # nodes
    BY <1>1
  <2>2. Cardinality(below) \in Nat /\ Cardinality(below) < Cardinality(nodes)
    BY <1>1, <2>1, FS_Subset, FS_CardinalityType
  <2> QED
    BY <1>1, <2>2 DEF BlockAt, blockNum
<1>3. BlockOf(a) \in 0 .. (blockNum - 1)
  <2> DEFINE upTo == {m \in nodes : m <= a}
  <2>1. upTo \subseteq nodes /\ 0 \in upTo
    BY <1>1
  <2>2. IsFiniteSet(upTo) /\ Cardinality(upTo) \in Nat /\ Cardinality(upTo) <= Cardinality(nodes)
    BY <1>1, <2>1, FS_Subset, FS_CardinalityType
  <2>3. Cardinality(upTo) # 0
    BY <2>1, <2>2, FS_EmptySet
  <2> QED
    BY <1>1, <2>2, <2>3 DEF BlockOf, blockNum
<1> QED
  BY <1>1, <1>2, <1>3

LEMMA Verdict == CfgSpec => [](complete \in BOOLEAN)
<1>1. CfgInit => complete \in BOOLEAN
  BY DEF CfgInit
<1>2. complete \in BOOLEAN /\ [CfgNext]_cfgVars => (complete \in BOOLEAN)'
  <2> SUFFICES ASSUME complete \in BOOLEAN, [CfgNext]_cfgVars PROVE complete' \in BOOLEAN
    OBVIOUS
  <2>1. complete' = complete \/ complete' = FALSE
    BY DEF CfgNext, ScanPlain, ScanJump, ScanBranch, ScanBad, ScanEnd, Join, JoinSkip,
           JoinEntry, JoinEnd, BuildMatrix, cfgVars
  <2> QED
    BY <2>1, Zenon
<1> QED
  BY <1>1, <1>2, PTL DEF CfgSpec

(* The tables of buildCFG() and buildMatrix() stay within their bounds:    *)
(* the matrix is indexed by blocks that exist, wherever a jump leads.      *)
THEOREM CfgTypeCorrect == CfgSpec => []CfgTypeOK
<1>1. CfgInv /\ complete \in BOOLEAN => CfgTypeOK
  <2> SUFFICES ASSUME CfgInv, complete \in BOOLEAN PROVE CfgTypeOK
    OBVIOUS
  <2>1. \A e \in edges : <<BlockOf(e[1]), BlockAt(e[2])>>
                          \in (0 .. (blockNum - 1)) \X (0 .. (blockNum - 1))
    <3> SUFFICES ASSUME NEW e \in edges
                 PROVE  /\ BlockOf(e[1]) \in 0 .. (blockNum - 1)
                        /\ BlockAt(e[2]) \in 0 .. (blockNum - 1)
      OBVIOUS
    <3>1. Types /\ e[1] \in 0 .. (Length - 1) /\ e[2] \in nodes /\ Length \in Nat
      BY DEF CfgInv, Types
    <3>2. e[1] \in Int /\ e[1] >= 0
      BY <3>1
    <3> QED
      BY <3>1, <3>2, BlockNumbers
  <2>2. matrix \subseteq (0 .. (blockNum - 1)) \X (0 .. (blockNum - 1))
    BY <2>1 DEF CfgInv, Filled
  <2> QED
    BY <2>2 DEF CfgInv, Types, CfgTypeOK
<1> QED
  BY <1>1, Collection, Verdict, PTL

(* Control goes on to the next instruction of a block or to a block.       *)
LEMMA Leaving ==
    ASSUME CfgInv, stage = "built", complete, NEW a \in Understood, NEW t \in Successors(a)
    PROVE  t \in nodes \/ (t = a + 1 /\ Successors(a) = {t})
<1>1. /\ nodes = {0} \cup Targets \cup AfterBranches /\ Scanned = DOMAIN code
      /\ a \in DOMAIN code /\ code[a].op \notin {"ijmp", "jcxz", "stop"}
  BY DEF CfgInv, Collected, Scanned, Understood
<1>2. CASE code[a].op \in {"jmp", "jcc"}
  BY <1>1, <1>2 DEF Successors, Targets, AfterBranches, Jumps, Branchings, Displaced
<1>3. CASE code[a].op \notin {"jmp", "jcc"}
  BY <1>1, <1>3 DEF Successors
<1> QED
  BY <1>2, <1>3

(* No block is entered but at its start, and none goes on after a jump, by *)
(* the instructions that the scan understands.                             *)
THEOREM Straight == CfgSpec => []BlocksAreStraight
<1>1. CfgInv => BlocksAreStraight
  BY Leaving DEF BlocksAreStraight
<1> QED
  BY <1>1, Collection, PTL

(* The edges of both passes, when they have come to their ends.            *)
LEMMA PassEdges ==
    ASSUME CfgInv, stage = "built", complete, NEW a \in DOMAIN code, NEW t \in nodes
    PROVE  <<a, t>> \in ScanEdges \cup JoinEdges <=>
            \/ code[a].op \in {"jmp", "jcc"} /\ t = code[a].target
            \/ code[a].op \in {"jcc", "ijmp"} /\ t = a + 1
            \/ code[a].op \in {"plain", "jcxz", "stop"} /\ t = a + 1 /\ t < Length
<1>1. /\ Scanned = DOMAIN code /\ Joined = DOMAIN code
      /\ DOMAIN code = 0 .. (Length - 1) /\ Length \in Nat
  BY DEF CfgInv, Scanned, Joined, Types
<1>2. /\ jmpTarget = Targets
      /\ nodes = {0} \cup Targets \cup AfterBranches
  BY DEF CfgInv, Collected
<1>3. /\ a \in 0 .. (Length - 1) /\ code[a].op # "bad"
      /\ code[a].op \in {"plain", "ret", "stop", "jmp", "ijmp", "jcc", "jcxz"}
  BY <1>1, InstructionFields DEF CfgInv, Collected
<1>4. <<a, t>> \in ScanEdges <=>
        \/ code[a].op \in {"jmp", "jcc"} /\ t = code[a].target
        \/ code[a].op \in {"jcc", "ijmp"} /\ t = a + 1
  <2>1. <<a, t>> \in ScanEdges <=>
            \/ code[a].op \in {"jmp", "ijmp", "jcc"} /\ t = Displaced(a)
            \/ code[a].op = "jcc" /\ t = a + 1
    BY <1>1 DEF ScanEdges, Jumps, Branchings
  <2> QED
    BY <1>3, <2>1 DEF Displaced
<1>5. <<a, t>> \in JoinEdges <=> t = a + 1 /\ t \in Entered
  BY <1>1, <1>3 DEF JoinEdges, Entered
<1>6. t \in Entered /\ t = a + 1 <=>
        /\ t = a + 1 /\ t < Length /\ t \in jmpTarget
        /\ code[a].op \in {"plain", "jcc", "jcxz", "stop"}
  BY <1>1, <1>3 DEF Entered, FallsThrough
<1>7. code[a].op # "jcc" /\ t = a + 1 => t \in jmpTarget
  <2>1. ASSUME NEW b \in Branchings(Scanned), t = b + 1, t = a + 1 PROVE code[a].op = "jcc"
    <3>1. b \in 0 .. (Length - 1) /\ code[b].op = "jcc"
      BY <1>1, <2>1 DEF Branchings
    <3> QED
      BY <1>1, <1>3, <2>1, <3>1
  <2> QED
    BY <1>1, <1>2, <1>3, <2>1 DEF AfterBranches
<1> QED
  BY <1>1, <1>3, <1>4, <1>5, <1>6, <1>7

(* For an understood instruction they are its transfers of control.        *)
LEMMA SuccessorEdges ==
    ASSUME CfgInv, stage = "built", complete, NEW a \in Understood, NEW t \in nodes
    PROVE  t \in Successors(a) <=> <<a, t>> \in ScanEdges \cup JoinEdges
<1>1. /\ a \in DOMAIN code /\ code[a].op \notin {"ijmp", "jcxz", "stop"}
      /\ Scanned = DOMAIN code
  BY DEF Understood, CfgInv, Scanned
<1>2. /\ a \in 0 .. (Length - 1) /\ Length \in Nat /\ code[a].op # "bad"
      /\ code[a].op \in {"plain", "ret", "jmp", "jcc"}
  BY <1>1, InstructionFields DEF CfgInv, Collected, Types
<1>3. t = a + 1 => t <= Length
  BY <1>2
<1>4. t \in Successors(a) <=>
        \/ code[a].op \in {"jmp", "jcc"} /\ t = code[a].target
        \/ code[a].op = "jcc" /\ t = a + 1
        \/ code[a].op = "plain" /\ t = a + 1 /\ t # Length
  BY <1>2 DEF Successors
<1> QED
  BY <1>1, <1>2, <1>3, <1>4, PassEdges

(* For a misread one they are the step to the next address.                *)
LEMMA MisreadEdges ==
    ASSUME CfgInv, stage = "built", complete, NEW a \in DOMAIN code \ Understood,
           NEW t \in nodes
    PROVE  <<a, t>> \in StepBehind <=> <<a, t>> \in ScanEdges \cup JoinEdges
<1>1. a \in DOMAIN code /\ code[a].op \in {"ijmp", "jcxz", "stop"}
  BY DEF Understood
<1>2. /\ a \in 0 .. (Length - 1) /\ Length \in Nat
  BY <1>1, InstructionFields DEF CfgInv, Types
<1>3. <<a, t>> \in StepBehind <=> t = a + 1 /\ (t < Length \/ code[a].op = "ijmp")
  BY <1>2 DEF StepBehind
<1> QED
  BY <1>1, <1>3, PassEdges

(* The edges the two passes collect are the transfers of control of the    *)
(* instructions the scan understands, and the step to the next address for *)
(* those it misreads; the matrix is what they are between blocks.          *)
THEOREM Matrix == CfgSpec => []MatrixIsControlFlow
<1>1. CfgInv => MatrixIsControlFlow
  <2> SUFFICES ASSUME CfgInv, stage = "built", complete, 0 \notin jmpTarget
               PROVE  matrix =
                        {<<BlockOf(t[1]), BlockAt(t[2])>> : t \in Transfers \cup StepBehind}
    BY DEF MatrixIsControlFlow
  <2>1. edges = ScanEdges \cup JoinEdges
    BY DEF CfgInv, Collected
  <2>2. \A e \in edges : e = <<e[1], e[2]>>
    BY <2>1 DEF ScanEdges, JoinEdges
  <2>3. Understood \subseteq DOMAIN code
    BY DEF Understood
  <2>4. ASSUME NEW e \in edges PROVE e \in Transfers \cup StepBehind
    <3>1. e[1] \in DOMAIN code /\ e[2] \in nodes /\ e = <<e[1], e[2]>>
      BY <2>2 DEF CfgInv, Types
    <3>2. <<e[1], e[2]>> \in ScanEdges \cup JoinEdges
      BY <2>1, <3>1
    <3>3. CASE e[1] \in Understood
      BY <3>1, <3>2, <3>3, SuccessorEdges DEF Transfers
    <3>4. CASE e[1] \notin Understood
      BY <3>1, <3>2, <3>4, MisreadEdges
    <3> QED
      BY <3>3, <3>4
  <2>5. ASSUME NEW e \in Transfers PROVE e \in edges
    <3>1. e[1] \in Understood /\ e[2] \in nodes /\ e = <<e[1], e[2]>>
          /\ e[2] \in Successors(e[1])
      BY DEF Transfers
    <3> QED
      BY <2>1, <3>1, SuccessorEdges
  <2>6. ASSUME NEW e \in StepBehind PROVE e \in edges
    <3>1. PICK a \in DOMAIN code \ Understood : a + 1 \in nodes /\ e = <<a, a + 1>>
      BY DEF StepBehind
    <3>2. <<a, a + 1>> \in ScanEdges \cup JoinEdges
      BY <3>1, MisreadEdges
    <3> QED
      BY <2>1, <3>1, <3>2
  <2>7. edges = Transfers \cup StepBehind
    BY <2>4, <2>5, <2>6
  <2> QED
    BY <2>7 DEF CfgInv, Filled
<1> QED
  BY <1>1, Collection, PTL

-----------------------------------------------------------------------------
(* The passes over the graph.                                              *)

Index == 0 .. (blockNum - 1)
Known(b) == depth[b] # -1
Queued(b) == \E k \in 1 .. Len(pQueue) : pQueue[k] = b

(* What calcDeep() works on once the graph is built: the entry and every   *)
(* block in the queue have depths.                                         *)
Marked ==
    /\ blockNum \in Nat
    /\ depth \in [Index -> Nat \cup {-1}] /\ depth[0] = 0
    /\ pQueue \in Seq(Index) /\ current \in Index /\ j \in 0 .. blockNum
    /\ \A k \in 1 .. Len(pQueue) : Known(pQueue[k])
    /\ phase = "calc" => Known(current)

(* The children of a block with a depth that is not queued have depths, of *)
(* the one at hand those it has come to.                                   *)
ChildrenSeen ==
    \A f \in Index : Known(f) =>
        \/ Queued(f)
        \/ \A c \in Index : <<f, c>> \in matrix /\ (f = current => c < j) => Known(c)

Searching ==
    phase # "cfg" =>
        /\ stage = "built" /\ Marked /\ ChildrenSeen
        /\ phase # "calc" => pQueue = <<>> /\ j = blockNum

FunctionInv ==
    /\ CfgInv /\ complete \in BOOLEAN
    /\ phase \in {"cfg", "calc", "analyse", "done"} /\ (phase = "cfg" => current = 0)
    /\ Searching

----------------------------------------------------------------------------
LEMMA BlocksExist ==
    ASSUME CfgInv
    PROVE  blockNum \in Nat /\ 0 \in Index /\ matrix \subseteq (Index \X Index)
<1>1. blockNum \in Nat /\ 0 \in Index
  <2>1. 0 \in nodes /\ Types
    BY DEF CfgInv, Types
  <2>2. BlockAt(0) \in 0 .. (blockNum - 1) /\ blockNum \in Nat
    BY <2>1, BlockNumbers
  <2> QED
    BY <2>2 DEF Index
<1>2. ASSUME NEW e \in edges PROVE BlockOf(e[1]) \in Index /\ BlockAt(e[2]) \in Index
  <2>1. Types /\ e[1] \in 0 .. (Length - 1) /\ e[2] \in nodes /\ Length \in Nat
    BY DEF CfgInv, Types
  <2>2. e[1] \in Int /\ e[1] >= 0
    BY <2>1
  <2> QED
    BY <2>1, <2>2, BlockNumbers DEF Index
<1>3. matrix \subseteq (Index \X Index)
  BY <1>2 DEF CfgInv, Filled
<1> QED
  BY <1>1, <1>3

(* The graph is built first, and nothing touches it afterwards.            *)
LEMMA StepCfg == FunctionInv /\ [Next]_allVars => CfgInv' /\ (complete \in BOOLEAN)'
<1> SUFFICES ASSUME FunctionInv, [Next]_allVars PROVE CfgInv' /\ complete' \in BOOLEAN
  OBVIOUS
<1>1. [CfgNext]_cfgVars
  BY DEF Next, BuildGraph, StartOrder, OrderBlocks, allVars
<1>2. CfgInv'
  BY <1>1, StepTypes, StepCollected, StepFilled DEF FunctionInv, CfgInv
<1>3. complete' = complete \/ complete' = FALSE
  BY <1>1 DEF CfgNext, ScanPlain, ScanJump, ScanBranch, ScanBad, ScanEnd, Join, JoinSkip,
              JoinEntry, JoinEnd, BuildMatrix, cfgVars
<1>4. complete \in BOOLEAN
  BY DEF FunctionInv
<1>5. complete' \in BOOLEAN
  BY <1>3, <1>4, Zenon
<1> QED
  BY <1>2, <1>5

LEMMA StartSearching == ASSUME FunctionInv, StartOrder PROVE Searching'
<1>1. /\ stage' = "built" /\ phase' = "calc" /\ pQueue' = <<0>> /\ j' = blockNum /\ current' = 0
      /\ matrix' = matrix
      /\ depth' = [b \in Index |-> IF b = 0 THEN 0 ELSE -1]
  BY DEF StartOrder, FunctionInv, cfgVars, Index
<1>2. blockNum' = blockNum /\ Index' = Index
  BY DEF StartOrder, cfgVars, blockNum, Index
<1>3. blockNum \in Nat /\ 0 \in Index
  BY BlocksExist DEF FunctionInv
<1>4. pQueue' \in Seq(Index) /\ Len(pQueue') = 1 /\ pQueue'[1] = 0
  BY <1>1, <1>3
<1>5. depth' \in [Index -> Nat \cup {-1}] /\ depth'[0] = 0 /\ \A f \in Index : f # 0 => depth'[f] = -1
  BY <1>1, <1>3
<1> HIDE DEF Index
<1>6. Marked'
  BY <1>1, <1>2, <1>3, <1>4, <1>5 DEF Marked, Known
<1>7. ChildrenSeen'
  BY <1>1, <1>2, <1>4, <1>5 DEF ChildrenSeen, Known, Queued
<1> QED
  BY <1>1, <1>6, <1>7 DEF Searching

LEMMA PopSearching == ASSUME FunctionInv, UNCHANGED cfgVars, Order!Pop PROVE Searching'
<1> USE DEF Known
<1>1. /\ phase = "calc" /\ phase' = phase /\ depth' = depth
      /\ pQueue # <<>> /\ current' = Head(pQueue) /\ pQueue' = Tail(pQueue)
      /\ j = blockNum /\ j' = 0 /\ Marked /\ ChildrenSeen /\ stage = "built"
  BY DEF Order!Pop, FunctionInv, Searching
<1>2. blockNum' = blockNum /\ Index' = Index /\ matrix' = matrix /\ stage' = stage
  BY DEF cfgVars, blockNum, Index
<1>3. Marked'
  BY <1>1, <1>2 DEF Marked
<1>4. ChildrenSeen'
  <2> SUFFICES ASSUME NEW f \in Index, Known(f), ~Queued(f)',
                      NEW c \in Index, <<f, c>> \in matrix, f = current' => c < j'
               PROVE  Known(c)
    BY <1>1, <1>2 DEF ChildrenSeen
  <2>0. c \in 0 .. (blockNum - 1) /\ blockNum \in Nat
    BY <1>1 DEF Index, Marked
  <2>1. f # current'
    BY <1>1, <2>0
  <2>2. ~Queued(f)
    <3> SUFFICES ASSUME NEW k \in 1 .. Len(pQueue), pQueue[k] = f PROVE FALSE
      BY DEF Queued
    <3>1. k # 1
      BY <1>1, <2>1 DEF Marked
    <3>2. k - 1 \in 1 .. Len(pQueue') /\ pQueue'[k - 1] = pQueue[k]
      BY <1>1, <3>1 DEF Marked
    <3> QED
      BY <3>2 DEF Queued
  <2>3. c < j
    BY <1>1, <2>0
  <2> QED
    BY <1>1, <2>2, <2>3 DEF ChildrenSeen
<1> QED
  BY <1>1, <1>2, <1>3, <1>4 DEF Searching

LEMMA ReachSearching == ASSUME FunctionInv, UNCHANGED cfgVars, Order!Reach PROVE Searching'
<1> USE DEF Known
<1>1. /\ phase = "calc" /\ phase' = phase /\ current' = current
      /\ j < blockNum /\ depth[j] = -1 /\ j' = j + 1
      /\ depth' = [depth EXCEPT ![j] = depth[current] + 1]
      /\ pQueue' = Append(pQueue, j)
      /\ Marked /\ ChildrenSeen /\ stage = "built"
  BY DEF Order!Reach, Order!NoDepth, FunctionInv, Searching
<1>2. blockNum' = blockNum /\ Index' = Index /\ matrix' = matrix /\ stage' = stage
  BY DEF cfgVars, blockNum, Index
<1>3. /\ j \in Index /\ current \in Index /\ depth[current] \in Nat /\ j # current /\ j # 0
      /\ depth' \in [Index -> Nat \cup {-1}] /\ depth'[j] # -1
      /\ \A b \in Index \ {j} : depth'[b] = depth[b]
  BY <1>1 DEF Marked, Index
<1>4. /\ pQueue' \in Seq(Index) /\ Len(pQueue') = Len(pQueue) + 1 /\ pQueue'[Len(pQueue')] = j
      /\ Len(pQueue) \in Nat /\ \A k \in 1 .. Len(pQueue) : pQueue'[k] = pQueue[k]
      /\ \A k \in 1 .. Len(pQueue) : pQueue[k] \in Index
  BY <1>1, <1>3 DEF Marked
<1>5. Marked'
  <2>1. ASSUME NEW k \in 1 .. Len(pQueue') PROVE depth'[pQueue'[k]] # -1
    <3>1. CASE k \in 1 .. Len(pQueue)
      BY <1>1, <1>3, <1>4, <3>1 DEF Marked
    <3>2. CASE k = Len(pQueue')
      BY <1>3, <1>4, <3>2
    <3> QED
      BY <1>4, <3>1, <3>2
  <2>2. j + 1 \in 0 .. blockNum /\ depth'[0] = 0
    BY <1>1, <1>3 DEF Marked, Index
  <2> QED
    BY <1>1, <1>2, <1>3, <1>4, <2>1, <2>2 DEF Marked
<1>6. ChildrenSeen'
  <2> SUFFICES ASSUME NEW f \in Index, depth'[f] # -1, ~Queued(f)',
                      NEW c \in Index, <<f, c>> \in matrix, f = current => c < j + 1
               PROVE  depth'[c] # -1
    BY <1>1, <1>2 DEF ChildrenSeen
  <2>1. f # j
    BY <1>4 DEF Queued
  <2>2. ~Queued(f)
    BY <1>4 DEF Queued
  <2>3. CASE c = j
    BY <1>3, <2>3
  <2>4. CASE c # j
    <3>1. f = current => c < j
      BY <1>1, <2>4 DEF Marked, Index
    <3> QED
      BY <1>1, <1>3, <2>1, <2>2, <2>4, <3>1 DEF ChildrenSeen
  <2> QED
    BY <2>3, <2>4
<1> QED
  BY <1>1, <1>2, <1>5, <1>6 DEF Searching

LEMMA SkipSearching == ASSUME FunctionInv, UNCHANGED cfgVars, Order!Skip PROVE Searching'
<1> USE DEF Known
<1>1. /\ phase = "calc" /\ phase' = phase /\ current' = current /\ depth' = depth
      /\ pQueue' = pQueue /\ j < blockNum /\ j' = j + 1
      /\ ~(<<current, j>> \in matrix /\ depth[j] = -1)
      /\ Marked /\ ChildrenSeen /\ stage = "built"
  BY DEF Order!Skip, Order!NoDepth, FunctionInv, Searching
<1>2. blockNum' = blockNum /\ Index' = Index /\ matrix' = matrix /\ stage' = stage
  BY DEF cfgVars, blockNum, Index
<1>3. Marked'
  BY <1>1, <1>2 DEF Marked
<1>4. ChildrenSeen'
  <2> SUFFICES ASSUME NEW f \in Index, Known(f), ~Queued(f),
                      NEW c \in Index, <<f, c>> \in matrix, f = current => c < j + 1
               PROVE  Known(c)
    BY <1>1, <1>2 DEF ChildrenSeen, Queued
  <2>1. CASE f = current /\ c = j
    BY <1>1, <2>1
  <2>2. CASE ~(f = current /\ c = j)
    <3>1. f = current => c < j
      BY <1>1, <2>2 DEF Marked, Index
    <3> QED
      BY <1>1, <3>1 DEF ChildrenSeen
  <2> QED
    BY <2>1, <2>2
<1> QED
  BY <1>1, <1>2, <1>3, <1>4 DEF Searching

LEMMA OtherSearching ==
    ASSUME FunctionInv, phase # "cfg", UNCHANGED <<cfgVars, depth, pQueue, current, j>>,
           phase' \in {"calc", "analyse", "done"},
           phase' = "calc" => phase = "calc",
           phase' # "calc" => pQueue = <<>> /\ j = blockNum
    PROVE  Searching'
<1>1. blockNum' = blockNum /\ Index' = Index /\ matrix' = matrix /\ stage' = stage
  BY DEF cfgVars, blockNum, Index
<1>2. stage = "built" /\ Marked /\ ChildrenSeen
  BY DEF FunctionInv, Searching
<1>3. Marked' /\ ChildrenSeen'
  BY <1>1, <1>2 DEF Marked, ChildrenSeen, Known, Queued
<1> QED
  BY <1>1, <1>2, <1>3 DEF Searching

LEMMA FunctionStep == FunctionInv /\ [Next]_allVars => FunctionInv'
<1> SUFFICES ASSUME FunctionInv, [Next]_allVars
             PROVE  /\ phase' \in {"cfg", "calc", "analyse", "done"}
                    /\ (phase' = "cfg" => current' = 0)
                    /\ Searching'
  BY StepCfg DEF FunctionInv
<1>1. ASSUME phase = "cfg", phase' = "cfg", current' = current
      PROVE  /\ phase' \in {"cfg", "calc", "analyse", "done"}
             /\ (phase' = "cfg" => current' = 0)
             /\ Searching'
  BY <1>1 DEF FunctionInv, Searching
<1>2. CASE BuildGraph
  <2>1. stage # "built"
    BY <1>2 DEF BuildGraph, CfgNext, ScanPlain, ScanJump, ScanBranch, ScanBad, ScanEnd, Join,
                JoinSkip, JoinEntry, JoinEnd, BuildMatrix
  <2>2. phase = "cfg" /\ phase' = phase /\ current' = current
    BY <1>2, <2>1 DEF BuildGraph, orderVars, FunctionInv, Searching
  <2> QED
    BY <1>1, <2>2
<1>3. CASE StartOrder
  BY <1>3, StartSearching DEF StartOrder
<1>4. ASSUME Order!Next, UNCHANGED cfgVars
      PROVE  phase' \in {"calc", "analyse", "done"} /\ Searching'
  <2>1. CASE Order!Pop
    BY <1>4, <2>1, PopSearching DEF Order!Pop
  <2>2. CASE Order!Reach
    BY <1>4, <2>2, ReachSearching DEF Order!Reach
  <2>3. CASE Order!Skip
    BY <1>4, <2>3, SkipSearching DEF Order!Skip
  <2>4. CASE Order!CalcDone
    BY <1>4, <2>4, OtherSearching DEF Order!CalcDone
  <2>5. ASSUME phase = "analyse", phase' \in {"analyse", "done"},
               UNCHANGED <<depth, pQueue, current, j>>
        PROVE  Searching'
    <3>1. pQueue = <<>> /\ j = blockNum
      BY <2>5 DEF FunctionInv, Searching
    <3> QED
      BY <1>4, <2>5, <3>1, OtherSearching
  <2>6. CASE Order!Deepen \/ Order!Finish
    BY <2>5, <2>6 DEF Order!Deepen, Order!Finish
  <2>7. ASSUME NEW b \in Order!Blocks, Order!Analyse(b)
        PROVE  phase' \in {"calc", "analyse", "done"} /\ Searching'
    BY <2>5, <2>7 DEF Order!Analyse
  <2> QED
    BY <1>4, <2>1, <2>2, <2>3, <2>4, <2>6, <2>7 DEF Order!Next
<1>5. CASE OrderBlocks
  BY <1>4, <1>5 DEF OrderBlocks
<1>6. CASE UNCHANGED allVars
  <2>1. UNCHANGED <<cfgVars, depth, pQueue, current, j, phase>>
    BY <1>6 DEF allVars, orderVars
  <2>2. CASE phase = "cfg"
    BY <1>1, <2>1, <2>2
  <2>3. CASE phase # "cfg"
    <3>1. phase # "calc" => pQueue = <<>> /\ j = blockNum
      BY <2>3 DEF FunctionInv, Searching
    <3> QED
      BY <2>1, <2>3, <3>1, OtherSearching DEF FunctionInv
  <2> QED
    BY <2>2, <2>3
<1> QED
  BY <1>2, <1>3, <1>4, <1>5, <1>6 DEF Next

LEMMA FunctionInit == Init => FunctionInv
<1> SUFFICES ASSUME Init PROVE FunctionInv
  OBVIOUS
<1>1. CfgInv /\ complete = TRUE /\ phase = "cfg" /\ current = 0
  BY InitInv DEF Init, CfgInit
<1> QED
  BY <1>1 DEF FunctionInv, Searching

LEMMA FunctionInvariance == Spec => []FunctionInv
BY FunctionInit, FunctionStep, PTL DEF Spec

----------------------------------------------------------------------------
(* Live, level by level.                                                   *)
Follow(S) == S \cup UNION {Successors(a) : a \in S \cap DOMAIN code}

(* g tabulates what control reaches within s steps.                        *)
Tabulates(g, s) == g = [k \in 0 .. s |-> IF k = 0 THEN {0} ELSE Follow(g[k - 1])]

LessThan == {p \in Nat \X Nat : p[1] < p[2]}

LEMMA LeastNumber ==
    ASSUME NEW T, T \subseteq Nat, T # {}
    PROVE  \E x \in T : \A y \in T : x <= y
<1>1. IsWellFoundedOn(LessThan, Nat)
  BY NatLessThanWellFounded DEF OpToRel, LessThan
<1>2. PICK x \in T : \A y \in T : ~ (<<y, x>> \in LessThan)
  BY <1>1, WFMin
<1>3. ASSUME NEW y \in T PROVE x <= y
  <2>1. x \in Nat /\ y \in Nat /\ ~ (<<y, x>> \in LessThan)
    BY <1>2
  <2> QED
    BY <2>1 DEF LessThan
<1> QED
  BY <1>3

LEMMA TableExists ==
    ASSUME NEW s \in Nat
    PROVE  \E g : Tabulates(g, s)
<1> DEFINE Bad == {t \in Nat : ~ \E g : Tabulates(g, t)}
<1> SUFFICES ASSUME Bad # {} PROVE FALSE
  OBVIOUS
<1>1. PICK t \in Bad : \A y \in Bad : t <= y
  <2>1. Bad \subseteq Nat
    OBVIOUS
  <2> HIDE DEF Bad
  <2> QED
    BY <2>1, LeastNumber
<1>2. CASE t = 0
  <2>1. Tabulates([k \in 0 .. 0 |-> {0}], 0)
    BY DEF Tabulates
  <2> QED
    BY <1>2, <2>1
<1>3. CASE t # 0
  <2>1. t \in Nat /\ t - 1 \in Nat /\ ~ (t <= t - 1)
    BY <1>3
  <2>2. PICK g : Tabulates(g, t - 1)
    BY <1>1, <2>1
  <2> DEFINE h == [k \in 0 .. t |-> IF k = t THEN Follow(g[t - 1]) ELSE g[k]]
  <2>3. \A k \in 0 .. t - 1 : g[k] = IF k = 0 THEN {0} ELSE Follow(g[k - 1])
    BY <2>1, <2>2 DEF Tabulates
  <2>4. ASSUME NEW k \in 0 .. t
        PROVE  h[k] = IF k = 0 THEN {0} ELSE Follow(h[k - 1])
    <3>1. CASE k = t
      <4>1. h[k] = Follow(g[t - 1]) /\ h[k - 1] = g[t - 1] /\ k # 0
        BY <2>1, <3>1
      <4> QED
        BY <3>1, <4>1
    <3>2. CASE k # t /\ k = 0
      BY <2>1, <2>3, <3>2
    <3>3. CASE k # t /\ k # 0
      <4>1. k \in 0 .. t - 1 /\ k - 1 \in 0 .. t /\ k - 1 # t
        BY <2>1, <3>3
      <4>2. h[k] = g[k] /\ h[k - 1] = g[k - 1]
        BY <3>3, <4>1
      <4>3. g[k] = Follow(g[k - 1])
        BY <2>3, <3>3, <4>1
      <4> QED
        BY <3>3, <4>2, <4>3
    <3> QED
      BY <3>1, <3>2, <3>3
  <2> HIDE DEF Bad
  <2>5. Tabulates(h, t)
    BY <2>4 DEF Tabulates
  <2> QED
    BY <2>5 DEF Bad
<1> QED
  BY <1>2, <1>3

(* What holds of the entry and is handed on by every transfer of control   *)
(* holds of every live address.                                            *)
LEMMA LiveInduction ==
    ASSUME Length \in Nat, NEW S, 0 \in S,
           \A a \in S \cap DOMAIN code : Successors(a) \subseteq S
    PROVE  Live \subseteq S
<1> DEFINE w == CHOOSE g : Tabulates(g, Length)
<1>1. Tabulates(w, Length)
  BY TableExists
<1>2. Live = w[Length]
  BY DEF Live, Tabulates, Follow
<1> HIDE DEF w
<1>3. \A k \in 0 .. Length : w[k] = IF k = 0 THEN {0} ELSE Follow(w[k - 1])
  BY <1>1 DEF Tabulates
<1> DEFINE Bad == {k \in 0 .. Length : ~ (w[k] \subseteq S)}
<1>4. ASSUME Bad # {} PROVE FALSE
  <2>1. PICK k \in Bad : \A y \in Bad : k <= y
    <3>1. Bad \subseteq Nat
      OBVIOUS
    <3> HIDE DEF Bad
    <3> QED
      BY <1>4, <3>1, LeastNumber
  <2>2. k # 0
    BY <1>3
  <2>3. k - 1 \in 0 .. Length /\ ~ (k <= k - 1)
    BY <2>2
  <2>4. w[k - 1] \subseteq S
    BY <2>1, <2>3
  <2>5. w[k] = Follow(w[k - 1])
    BY <1>3, <2>2
  <2>6. Follow(w[k - 1]) \subseteq S
    BY <2>4 DEF Follow
  <2> QED
    BY <2>5, <2>6
<1>5. Length \in 0 .. Length
  OBVIOUS
<1> QED
  BY <1>2, <1>4, <1>5

----------------------------------------------------------------------------
(* Where blocks begin, their numbers agree.                                *)
LEMMA BlockStarts ==
    ASSUME CfgInv, nodes \subseteq Nat
    PROVE  /\ BlockOf(0) = 0
           /\ \A n \in nodes : BlockOf(n) = BlockAt(n)
           /\ \A a \in Nat : a + 1 \notin nodes => BlockOf(a + 1) = BlockOf(a)
<1>0. IsFiniteSet(nodes) /\ 0 \in nodes /\ \A m \in nodes : m \in Nat
  BY DEF CfgInv, Types
<1>1. ASSUME NEW n \in nodes PROVE BlockOf(n) = BlockAt(n)
  <2> DEFINE below == {m \in nodes : m < n}
             upTo == {m \in nodes : m <= n}
  <2>1. below \subseteq nodes /\ n \notin below
    BY <1>0
  <2>2. upTo = below \cup {n}
    <3>1. \A m \in nodes : m <= n <=> m < n \/ m = n
      BY <1>0
    <3> QED
      BY <3>1
  <2> HIDE DEF below, upTo
  <2>3. IsFiniteSet(below)
    BY <1>0, <2>1, FS_Subset
  <2>4. Cardinality(below) \in Nat /\ Cardinality(below \cup {n}) = Cardinality(below) + 1
    BY <2>1, <2>3, FS_CardinalityType, FS_AddElement
  <2>5. Cardinality(upTo) - 1 = Cardinality(below)
    BY <2>2, <2>4
  <2> QED
    BY <2>5 DEF BlockOf, BlockAt, below, upTo
<1>2. BlockAt(0) = 0
  <2>1. \A m \in nodes : ~ (m < 0)
    BY <1>0
  <2>2. {m \in nodes : m < 0} = {}
    BY <2>1
  <2> QED
    BY <2>2, FS_EmptySet DEF BlockAt
<1>3. ASSUME NEW a \in Nat, a + 1 \notin nodes PROVE BlockOf(a + 1) = BlockOf(a)
  <2>1. \A m \in nodes : m <= a + 1 <=> m <= a
    BY <1>0, <1>3
  <2>2. {m \in nodes : m <= a + 1} = {m \in nodes : m <= a}
    BY <2>1
  <2> QED
    BY <2>2 DEF BlockOf
<1> QED
  BY <1>0, <1>1, <1>2, <1>3

(* The nodes up to an address decide which block it lies in.               *)
LEMMA BlocksInOrder ==
    ASSUME CfgInv, nodes \subseteq Nat, NEW n \in nodes, NEW a \in Nat
    PROVE  n <= a <=> BlockAt(n) <= BlockOf(a)
<1> DEFINE below == {m \in nodes : m < n}
           upTo == {m \in nodes : m <= a}
<1>1. IsFiniteSet(nodes) /\ n \in Nat /\ \A m \in nodes : m \in Nat
  BY DEF CfgInv, Types
<1>2. below \subseteq nodes /\ upTo \subseteq nodes
  OBVIOUS
<1>3. CASE n <= a
  <2>1. below \cup {n} \subseteq upTo /\ n \notin below
    <3>1. \A m \in nodes : m < n \/ m = n => m <= a
      BY <1>1, <1>3
    <3>2. ~ (n < n)
      BY <1>1
    <3> QED
      BY <3>1, <3>2
  <2> HIDE DEF below, upTo
  <2>2. IsFiniteSet(below) /\ IsFiniteSet(upTo)
    BY <1>1, <1>2, FS_Subset
  <2>3. /\ Cardinality(below) \in Nat /\ Cardinality(upTo) \in Nat
        /\ Cardinality(below \cup {n}) = Cardinality(below) + 1
    BY <2>1, <2>2, FS_CardinalityType, FS_AddElement
  <2>4. Cardinality(below) + 1 <= Cardinality(upTo)
    BY <2>1, <2>2, <2>3, FS_Subset
  <2> QED
    BY <1>3, <2>3, <2>4 DEF BlockAt, BlockOf, below, upTo
<1>4. CASE ~ (n <= a)
  <2>1. upTo \subseteq below
    <3>1. \A m \in nodes : m <= a => m < n
      BY <1>1, <1>4
    <3> QED
      BY <3>1
  <2> HIDE DEF below, upTo
  <2>2. IsFiniteSet(below) /\ IsFiniteSet(upTo)
    BY <1>1, <1>2, FS_Subset
  <2>3. /\ Cardinality(below) \in Nat /\ Cardinality(upTo) \in Nat
        /\ Cardinality(upTo) <= Cardinality(below)
    BY <2>1, <2>2, FS_CardinalityType, FS_Subset
  <2> QED
    BY <1>4, <2>3 DEF BlockAt, BlockOf, below, upTo
<1> QED
  BY <1>3, <1>4

(* Every number is that of one block: there are as many as nodes.          *)
LEMMA BlockExists ==
    ASSUME CfgInv, nodes \subseteq Nat, NEW k \in Index
    PROVE  /\ StartAddr(k) \in nodes /\ BlockAt(StartAddr(k)) = k
           /\ \A n \in nodes : BlockAt(n) = k => n = StartAddr(k)
<1> DEFINE number == [n \in nodes |-> BlockAt(n)]
<1>1. IsFiniteSet(nodes) /\ blockNum \in Nat /\ \A m \in nodes : m \in Nat
  BY BlocksExist DEF CfgInv, Types
<1>2. IsFiniteSet(Index) /\ Cardinality(Index) = Cardinality(nodes)
  BY <1>1, IntervalSize DEF Index, blockNum
<1>3. \A n \in nodes : BlockAt(n) \in Index
  BY <1>1, BlockNumbers DEF CfgInv, Index
<1>4. ASSUME NEW n \in nodes, NEW m \in nodes, BlockAt(n) = BlockAt(m) PROVE n = m
  <2>1. BlockOf(n) = BlockAt(n) /\ BlockOf(m) = BlockAt(m)
    BY BlockStarts
  <2>2. n \in Nat /\ m \in Nat /\ BlockAt(n) \in Int /\ BlockAt(m) \in Int
    BY <1>1, <1>3 DEF Index
  <2>3. n <= m /\ m <= n
    BY <1>4, <2>1, <2>2, BlocksInOrder
  <2> QED
    BY <2>2, <2>3
<1>5. number \in Injection(nodes, Index)
  BY <1>3, <1>4 DEF Injection, IsInjective
<1> HIDE DEF number
<1>6. number \in Surjection(nodes, Index)
  BY <1>2, <1>5, FS_Injection
<1>7. \E n \in nodes : number[n] = k
  BY <1>6 DEF Surjection
<1>8. \E n \in nodes : BlockAt(n) = k
  BY <1>7 DEF number
<1> QED
  BY <1>4, <1>8 DEF StartAddr

(* A block is the addresses from its node to the next one.                 *)
LEMMA BlockSpan ==
    ASSUME CfgInv, nodes \subseteq 0 .. Length, NEW k \in Index
    PROVE  /\ StartAddr(k) \in nodes /\ StartAddr(k) \in Nat /\ EndAddr(k) \in Nat
           /\ StartAddr(k) <= EndAddr(k) /\ EndAddr(k) <= Length
           /\ \A a \in 0 .. (Length - 1) :
                BlockOf(a) = k <=> StartAddr(k) <= a /\ a < EndAddr(k)
           /\ \A n \in nodes : n <= StartAddr(k) \/ EndAddr(k) <= n
<1>1. /\ nodes \subseteq Nat /\ Length \in Nat /\ blockNum \in Nat /\ k \in 0 .. (blockNum - 1)
      /\ \A m \in nodes : m \in 0 .. Length
  BY BlocksExist DEF CfgInv, Types, Index
<1>2. /\ StartAddr(k) \in nodes /\ StartAddr(k) \in 0 .. Length /\ BlockAt(StartAddr(k)) = k
      /\ BlockOf(StartAddr(k)) = k
  BY <1>1, BlockExists, BlockStarts
<1>3. /\ \A n \in nodes : BlockAt(n) \in 0 .. (blockNum - 1) /\ BlockOf(n) = BlockAt(n)
      /\ \A a \in Nat : BlockOf(a) \in 0 .. (blockNum - 1)
  <2>1. \A n \in nodes, a \in Nat :
            BlockAt(n) \in 0 .. (blockNum - 1) /\ BlockOf(a) \in 0 .. (blockNum - 1)
    BY BlockNumbers DEF CfgInv
  <2> QED
    BY <1>1, <1>2, <2>1, BlockStarts
<1>4. \A a \in Nat : StartAddr(k) <= a <=> k <= BlockOf(a)
  BY <1>1, <1>2, BlocksInOrder
<1>5. CASE k = blockNum - 1
  <2>1. EndAddr(k) = Length
    BY <1>5 DEF EndAddr
  <2>2. \A n \in nodes : n <= StartAddr(k)
    <3> SUFFICES ASSUME NEW n \in nodes PROVE n <= StartAddr(k)
      OBVIOUS
    <3>1. BlockAt(n) <= BlockOf(StartAddr(k))
      BY <1>2, <1>3, <1>5
    <3> QED
      BY <1>1, <1>2, <3>1, BlocksInOrder
  <2> QED
    BY <1>1, <1>2, <1>3, <1>4, <1>5, <2>1, <2>2
<1>6. CASE k # blockNum - 1
  <2>1. k + 1 \in Index /\ EndAddr(k) = StartAddr(k + 1)
    BY <1>1, <1>6 DEF EndAddr, Index
  <2>2. /\ StartAddr(k + 1) \in nodes /\ StartAddr(k + 1) \in 0 .. Length
        /\ BlockAt(StartAddr(k + 1)) = k + 1
    BY <1>1, <2>1, BlockExists
  <2>3. \A a \in Nat : EndAddr(k) <= a <=> k + 1 <= BlockOf(a)
    BY <1>1, <2>1, <2>2, BlocksInOrder
  <2>4. \A n \in nodes : n <= StartAddr(k) <=> BlockAt(n) <= k
    BY <1>1, <1>2, BlocksInOrder
  <2>5. \A n \in nodes : EndAddr(k) <= n <=> k + 1 <= BlockAt(n)
    BY <1>1, <1>3, <2>3
  <2>6. ~ (EndAddr(k) <= StartAddr(k))
    BY <1>1, <1>2, <2>3
  <2>7. \A a \in 0 .. (Length - 1) : BlockOf(a) = k <=> StartAddr(k) <= a /\ a < EndAddr(k)
    BY <1>1, <1>2, <1>3, <1>4, <2>1, <2>2, <2>3
  <2>8. \A n \in nodes : n <= StartAddr(k) \/ EndAddr(k) <= n
    BY <1>1, <1>3, <2>4, <2>5
  <2> QED
    BY <1>1, <1>2, <2>1, <2>2, <2>6, <2>7, <2>8
<1> QED
  BY <1>5, <1>6

(* Whatever a jump to the entry adds, no transfer of control into a block  *)
(* is missing in the matrix.                                               *)
LEMMA TransfersKept ==
    ASSUME CfgInv, stage = "built", complete, NEW a \in Understood,
           NEW t \in nodes, t \in Successors(a)
    PROVE  <<BlockOf(a), BlockAt(t)>> \in matrix
<1>1. <<a, t>> \in edges
  BY SuccessorEdges DEF CfgInv, Collected
<1> QED
  BY <1>1 DEF CfgInv, Filled

(* After calcDeep() the blocks with a depth are closed under the edges, and*)
(* so are the addresses in them under the transfers of control.            *)
LEMMA LiveMarked ==
    ASSUME FunctionInv, phase \in {"analyse", "done"}, Readable, NEW a \in Live
    PROVE  depth[BlockOf(a)] # -1
<1> DEFINE S == {b \in 0 .. Length : (b \in nodes \/ b < Length) /\ Known(BlockOf(b))}
<1>1. /\ CfgInv /\ stage = "built" /\ Marked /\ ChildrenSeen /\ pQueue = <<>> /\ j = blockNum
      /\ Length \in Nat \ {0} /\ DOMAIN code = 0 .. (Length - 1) /\ 0 \in nodes
      /\ complete /\ Understood = DOMAIN code /\ nodes \subseteq 0 .. Length
  BY DEF FunctionInv, Searching, CfgInv, Types, Readable, AllUnderstood
<1>2. nodes \subseteq Nat
  BY <1>1
<1>3. 0 \in S
  BY <1>1, <1>2, BlockStarts DEF Marked, Known
<1>4. ASSUME NEW b \in S \cap DOMAIN code, NEW t \in Successors(b) PROVE t \in S
  <2>1. b \in Nat /\ Known(BlockOf(b))
    BY <1>1
  <2>2. CASE t \in nodes
    <3>1. <<BlockOf(b), BlockAt(t)>> \in matrix
      BY <1>1, <2>2, TransfersKept
    <3>2. BlockOf(b) \in Index /\ BlockAt(t) \in Index
      BY <1>1, <3>1, BlocksExist
    <3>3. ~ Queued(BlockOf(b)) /\ BlockAt(t) < j
      <4>1. blockNum \in Nat
        BY <1>1, BlocksExist
      <4> QED
        BY <1>1, <3>2, <4>1 DEF Queued, Index
    <3>4. Known(BlockAt(t))
      BY <1>1, <2>1, <3>1, <3>2, <3>3 DEF ChildrenSeen
    <3> QED
      BY <1>1, <1>2, <2>2, <3>4, BlockStarts
  <2>3. CASE t \notin nodes
    <3>1. t = b + 1 /\ Successors(b) = {t}
      BY <1>1, <2>3, Leaving
    <3>2. BlockOf(t) = BlockOf(b)
      BY <1>1, <1>2, <2>1, <2>3, <3>1, BlockStarts
    <3>3. t # Length
      <4>1. ASSUME code[b].op \in {"jmp", "jcc"} PROVE FALSE
        <5>1. code[b].target \in nodes
          BY <1>1, <4>1 DEF CfgInv, Collected, Targets, Jumps, Scanned, Displaced
        <5>2. code[b].target \in Successors(b)
          BY <4>1 DEF Successors
        <5> QED
          BY <2>3, <3>1, <5>1, <5>2
      <4> QED
        BY <1>1, <4>1 DEF Successors, Understood
    <3>4. t \in 0 .. Length /\ t < Length
      BY <1>1, <2>1, <3>1, <3>3
    <3> QED
      BY <2>1, <3>2, <3>4
  <2> QED
    BY <2>2, <2>3
<1> HIDE DEF S
<1>5. \A b \in S \cap DOMAIN code : Successors(b) \subseteq S
  BY <1>4
<1>6. Live \subseteq S
  BY <1>1, <1>3, <1>5, LiveInduction
<1> QED
  BY <1>6 DEF S, Known

(* When no ASSERT of mergeBranch() fails, what it merges is there, and it  *)
(* merges something for every block but the first one.                     *)
LEMMA MergeUsable ==
    ASSUME FunctionInv, phase # "cfg", NEW b \in Index, Order!MergeVerdict(b) = "none"
    PROVE  /\ Order!Merged(b) \subseteq analysed
           /\ Order!Merged(b) = {} <=> b = 0
<1>1. Order!Unusable(b) = {} /\ (Order!Merged(b) = {} => b = 0)
  BY DEF Order!MergeVerdict
<1>2. Order!Merged(b) \subseteq Order!Fathers(b)
  BY DEF Order!Merged
<1>3. Order!Merged(b) \subseteq analysed
  BY <1>1, <1>2 DEF Order!Unusable
<1>4. ASSUME b = 0, NEW i \in Order!Merged(b) PROVE FALSE
  <2>1. depth \in [Index -> Nat \cup {-1}] /\ depth[0] = 0
    BY DEF FunctionInv, Searching, Marked
  <2>2. i \in Index /\ depth[b] > depth[i] /\ i \in Order!Fathers(b)
    BY <1>4 DEF Order!Merged, Order!Fathers, Order!Blocks, Index
  <2>3. depth[i] = -1
    BY <1>4, <2>1, <2>2
  <2> QED
    BY <1>1, <2>2, <2>3 DEF Order!Unusable, Order!NoDepth
<1> QED
  BY <1>1, <1>3, <1>4

(* The passes together lose no live block: what calcDeep() leaves without a*)
(* depth, and the analysis would search for in vain, is dead code.         *)
THEOREM LiveAnalysed == Spec => []DepthForLiveBlocks
<1>1. FunctionInv => DepthForLiveBlocks
  <2> SUFFICES ASSUME FunctionInv, phase \in {"analyse", "done"}, Readable,
                      NEW a \in nodes \cap Live
               PROVE  depth[BlockAt(a)] >= 0
    BY DEF DepthForLiveBlocks
  <2>1. CfgInv /\ Marked /\ Length \in Nat /\ nodes \subseteq 0 .. Length
    BY DEF FunctionInv, Searching, CfgInv, Types, Readable
  <2>2. depth[BlockOf(a)] # -1
    BY LiveMarked
  <2>3. BlockOf(a) = BlockAt(a) /\ a \in Nat
    BY <2>1, BlockStarts
  <2>4. BlockAt(a) \in Index
    BY <2>1, <2>3, BlockNumbers DEF CfgInv, Index
  <2> QED
    BY <2>1, <2>2, <2>3, <2>4 DEF Marked
<1> QED
  BY <1>1, FunctionInvariance, PTL

=============================================================================
