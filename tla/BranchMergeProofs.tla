-------------------------- MODULE BranchMergeProofs --------------------------
(* The merge of branches, for any number of them, any registers and any    *)
(* variables.                                                              *)
EXTENDS BranchMerge, TLAPS, FiniteSetTheorems

(* setRegister() keeps every register in agreement with its bytes.         *)
LEMMA SetRegisterAgrees ==
    ASSUME NEW R, HalvesAgreeIn(R), NEW s, NEW v
    PROVE  HalvesAgreeIn(SetRegister(R, s, v))
<1> SUFFICES ASSUME NEW q \in Quads, SetRegister(R, s, v)[<<q, "E">>] # NULL
             PROVE  /\ SetRegister(R, s, v)[<<q, "H">>] = SetRegister(R, s, v)[<<q, "E">>]
                    /\ SetRegister(R, s, v)[<<q, "L">>] = SetRegister(R, s, v)[<<q, "E">>]
  BY DEF HalvesAgreeIn
<1>1. /\ <<q, "E">> \in Slots /\ <<q, "H">> \in Slots /\ <<q, "L">> \in Slots
      /\ <<q, "E">>[1] = q /\ <<q, "H">>[1] = q /\ <<q, "L">>[1] = q
      /\ <<q, "E">>[2] = "E" /\ <<q, "H">>[2] = "H" /\ <<q, "L">>[2] = "L"
  BY DEF Slots
<1>2. CASE q # s[1]
  BY <1>1, <1>2 DEF SetRegister, HalvesAgreeIn
<1>3. CASE q = s[1] /\ s[2] = "E"
  BY <1>1, <1>3 DEF SetRegister
<1>4. CASE q = s[1] /\ s[2] # "E"
  <2>1. <<q, "E">> # s
    BY <1>1, <1>4
  <2> QED
    BY <1>1, <1>4, <2>1 DEF SetRegister
<1> QED
  BY <1>2, <1>3, <1>4

(* What mergeSet() relies on: a register holds a variable of a branch or   *)
(* one this merge made.                                                    *)
RegistersKnown ==
    /\ father \in [1 .. Branches -> [Slots -> Old \cup {NULL}]]
    /\ \A s \in Slots : target[s] \in Old \cup Made \cup {NULL}

(* A variable the merge made is new, what it stands for is old, and that   *)
(* is at least two variables.                                              *)
PairsOrdered ==
    /\ varIndex \in Nat /\ varIndex >= FirstNew
    /\ merge \subseteq (FirstNew .. varIndex - 1) \X Old

StandsForTwo == \A to \in Made : \E v, w \in Old :
    v # w /\ <<to, v>> \in merge /\ <<to, w>> \in merge

IInv == RegistersKnown /\ PairsOrdered /\ StandsForTwo /\ HalvesAgree /\ halt = FALSE

----------------------------------------------------------------------------
LEMMA OldIsBelow == NULL \notin Old /\ \A v \in Old : v \in Int /\ v < FirstNew
  BY NullAssumption, MergeAssumption DEF Old

LEMMA InitIInv == Init => IInv
<1> SUFFICES ASSUME Init PROVE IInv
  OBVIOUS
<1>1. father \in [1 .. Branches -> [Slots -> Old \cup {NULL}]]
  BY DEF Init, RegisterFiles
<1>2. 1 \in 1 .. Branches
  BY MergeAssumption
<1>3. Made = {}
  BY DEF Init, Made
<1>4. RegistersKnown
  BY <1>1, <1>2 DEF Init, RegistersKnown
<1>5. HalvesAgree
  BY <1>2 DEF Init, RegisterFiles, HalvesAgree
<1>6. PairsOrdered
  BY MergeAssumption DEF Init, PairsOrdered
<1> QED
  BY <1>3, <1>4, <1>5, <1>6 DEF IInv, StandsForTwo, Init

(* mergeSet() is handed registers of one of the branches.                  *)
LEMMA ComingIsOld == RegistersKnown /\ Merging /\ Coming # NULL => Coming \in Old
<1> SUFFICES ASSUME RegistersKnown, Merging, Coming # NULL PROVE Coming \in Old
  OBVIOUS
<1> DEFINE Files == [Slots -> Old \cup {NULL}]
<1>1. father \in [1 .. Branches -> Files] /\ Branches \in Nat
  BY MergeAssumption DEF RegistersKnown
<1>2. Len(father) = Branches
  <2> HIDE DEF Files
  <2> QED
    BY <1>1
<1>3. father[branch] \in Files
  <2> HIDE DEF Files
  <2> QED
    BY <1>1, <1>2 DEF Merging
<1> QED
  BY <1>3 DEF Coming

(* A register set to a known variable leaves all registers known.          *)
LEMMA SetKnown ==
    ASSUME NEW T, NEW s, NEW v, NEW K,
           \A t \in Slots : T[t] \in K, NULL \in K, v \in K
    PROVE  \A t \in Slots : SetRegister(T, s, v)[t] \in K
  BY DEF SetRegister

LEMMA KeepIInv == IInv /\ Keep => IInv'
  BY DEF IInv, Keep, Advance, RegistersKnown, PairsOrdered, StandsForTwo, HalvesAgree,
         Made, Merging

LEMMA TakeIInv == IInv /\ Take => IInv'
<1> SUFFICES ASSUME IInv, Take PROVE IInv'
  OBVIOUS
<1>1. Coming \in Old
  BY ComingIsOld DEF IInv, Take
<1>2. Made' = Made /\ merge' = merge /\ varIndex' = varIndex /\ father' = father
      /\ halt' = halt /\ target' = SetRegister(target, Here, Coming)
  BY DEF Take, Advance, Made
<1>3. \A s \in Slots : target'[s] \in Old \cup Made \cup {NULL}
  BY <1>1, <1>2, SetKnown DEF IInv, RegistersKnown
<1>4. HalvesAgree'
  BY <1>2, SetRegisterAgrees DEF IInv, HalvesAgree
<1> QED
  BY <1>2, <1>3, <1>4 DEF IInv, RegistersKnown, PairsOrdered, StandsForTwo

LEMMA AgainIInv == IInv /\ Again => IInv'
<1> SUFFICES ASSUME IInv, Again PROVE IInv'
  OBVIOUS
<1>1. Coming \in Old /\ target[Here] \in Made
  BY ComingIsOld DEF IInv, Again, NewlyMade
<1>2. /\ merge' = merge \cup {<<target[Here], Coming>>}
      /\ UNCHANGED <<target, varIndex, father, halt>>
  BY DEF Again, Advance
<1>3. Made' = Made
  BY <1>1, <1>2 DEF Made
<1>4. target[Here] \in FirstNew .. varIndex - 1
  BY <1>1 DEF IInv, PairsOrdered, Made
<1>5. PairsOrdered'
  BY <1>1, <1>2, <1>4 DEF IInv, PairsOrdered
<1>6. StandsForTwo'
  BY <1>2, <1>3 DEF IInv, StandsForTwo
<1> QED
  BY <1>2, <1>3, <1>5, <1>6 DEF IInv, RegistersKnown, HalvesAgree

LEMMA MakeIInv == IInv /\ Make => IInv'
<1> SUFFICES ASSUME IInv, Make PROVE IInv'
  OBVIOUS
<1>1. Coming \in Old
  BY ComingIsOld DEF IInv, Make
<1>2. target[Here] \in Old /\ target[Here] # Coming
  <2>1. Here \in Slots
    BY DEF Make, Coming
  <2> QED
    BY <2>1 DEF IInv, RegistersKnown, Make, NewlyMade, Same
<1>3. /\ merge' = merge \cup {<<varIndex, target[Here]>>, <<varIndex, Coming>>}
      /\ target' = SetRegister(target, Here, varIndex)
      /\ varIndex' = varIndex + 1
      /\ UNCHANGED <<father, halt>>
  BY DEF Make, Advance, Relate
<1>4. Made' = Made \cup {varIndex}
  <2> DEFINE new == {<<varIndex, target[Here]>>, <<varIndex, Coming>>}
  <2>1. {p[1] : p \in new} = {varIndex}
    OBVIOUS
  <2>2. Made' = {p[1] : p \in merge \cup new}
    BY <1>3 DEF Made
  <2> HIDE DEF new
  <2> QED
    BY <2>1, <2>2 DEF Made
<1>5. RegistersKnown'
  <2> DEFINE K == Old \cup Made' \cup {NULL}
  <2>1. \A t \in Slots : target[t] \in K
    BY <1>4 DEF IInv, RegistersKnown
  <2>2. \A t \in Slots : SetRegister(target, Here, varIndex)[t] \in K
    <3> varIndex \in K /\ NULL \in K
      BY <1>4
    <3> HIDE DEF K
    <3> QED
      BY <2>1, SetKnown
  <2> QED
    BY <1>3, <2>2 DEF IInv, RegistersKnown
<1>6. PairsOrdered'
  <2>1. varIndex \in Nat /\ varIndex >= FirstNew /\ FirstNew \in Nat
    BY MergeAssumption DEF IInv, PairsOrdered
  <2>2. varIndex' \in Nat /\ varIndex' >= FirstNew /\ varIndex \in FirstNew .. varIndex' - 1
    BY <1>3, <2>1
  <2>3. FirstNew .. varIndex - 1 \subseteq FirstNew .. varIndex' - 1
    BY <1>3, <2>1
  <2>4. merge \subseteq (FirstNew .. varIndex' - 1) \X Old
    BY <2>3 DEF IInv, PairsOrdered
  <2> QED
    BY <1>1, <1>2, <1>3, <2>2, <2>4 DEF PairsOrdered
<1>7. StandsForTwo'
  BY <1>1, <1>2, <1>3, <1>4 DEF IInv, StandsForTwo, Old
<1>8. HalvesAgree'
  BY <1>3, SetRegisterAgrees DEF IInv, HalvesAgree
<1> QED
  BY <1>3, <1>5, <1>6, <1>7, <1>8 DEF IInv

LEMMA EmitIInv == IInv /\ Emit => IInv'
<1> SUFFICES ASSUME IInv, Emit PROVE IInv'
  OBVIOUS
<1>1. ASSUME NEW to \in Made PROVE Cardinality(StandsFor(to)) # 1
  <2>1. StandsFor(to) \subseteq Old
    BY DEF StandsFor, IInv, PairsOrdered
  <2>2. IsFiniteSet(StandsFor(to))
    <3>1. IsFiniteSet(Old)
      BY MergeAssumption, FS_Interval DEF Old
    <3> QED
      BY <2>1, <3>1, FS_Subset
  <2>3. \E v, w \in StandsFor(to) : v # w
    <3>1. PICK v, w \in Old : v # w /\ <<to, v>> \in merge /\ <<to, w>> \in merge
      BY DEF IInv, StandsForTwo
    <3>2. \A x : <<to, x>> \in merge => x \in StandsFor(to)
      <4> TAKE x
      <4> HAVE <<to, x>> \in merge
      <4>1. <<to, x>> \in {q \in merge : q[1] = to} /\ <<to, x>>[2] = x
        OBVIOUS
      <4> QED
        BY <4>1 DEF StandsFor
    <3> QED
      BY <3>1, <3>2
  <2> QED
    BY <2>2, <2>3, FS_Singleton
<1>2. UNCHANGED <<father, target, merge, varIndex, halt>>
  BY <1>1 DEF Emit
<1> QED
  BY <1>2 DEF IInv, RegistersKnown, PairsOrdered, StandsForTwo, HalvesAgree, Made

THEOREM MergeInvariance == Spec => []IInv
<1>1. IInv /\ UNCHANGED vars => IInv'
  BY DEF IInv, RegistersKnown, PairsOrdered, StandsForTwo, HalvesAgree, Made, vars
<1>2. IInv /\ [Next]_vars => IInv'
  BY <1>1, KeepIInv, TakeIInv, AgainIInv, MakeIInv, EmitIInv DEF Next
<1> QED
  BY <1>2, InitIInv, PTL DEF Spec

(* What a merge variable stands for is older than itself.                  *)
THEOREM Newer == Spec => []MergeIsNewer
<1>1. IInv => MergeIsNewer
  BY OldIsBelow DEF IInv, PairsOrdered, MergeIsNewer
<1> QED
  BY <1>1, MergeInvariance, PTL

(* The ASSERT of mergeRegister() never fails.                              *)
THEOREM AssertHolds == Spec => []NeverSingle
<1>1. IInv => NeverSingle
  BY DEF IInv, NeverSingle
<1> QED
  BY <1>1, MergeInvariance, PTL

(* A block begins with registers that agree with their bytes.              *)
THEOREM BytesAgree == Spec => []HalvesAgree
<1>1. IInv => HalvesAgree
  BY DEF IInv
<1> QED
  BY <1>1, MergeInvariance, PTL

----------------------------------------------------------------------------
(* Registers on which the branches agree.                                  *)
FatherFiles == \A b \in 1 .. Branches : HalvesAgreeIn(father[b])

Agreed(s, v) == v \in Old /\ \A b \in 1 .. Branches : father[b][s] = v

KeptInv == FatherFiles /\ \A s \in Slots, v \in Old : Agreed(s, v) => target[s] = v

LEMMA AgreementRestated == RegistersKnown /\ KeptInv => AgreementKept
<1> SUFFICES ASSUME RegistersKnown, KeptInv, NEW s \in Slots,
                    \A b \in 1 .. Branches : father[b][s] = father[1][s] /\ father[b][s] # NULL
             PROVE  target[s] = father[1][s]
  BY DEF AgreementKept
<1>1. 1 \in 1 .. Branches
  BY MergeAssumption
<1>2. father[1][s] \in Old
  BY <1>1 DEF RegistersKnown
<1> QED
  BY <1>2 DEF KeptInv, Agreed

(* The only slots that setting one of them changes are those of its        *)
(* register; a whole register and its bytes hold the same.                 *)
LEMMA SetKeepsAgreed ==
    ASSUME IInv, KeptInv, Merging, Coming # NULL, ~NewlyMade, ~Same,
           NEW w, target[Here] = NULL => w = Coming,
           NEW s \in Slots, NEW v \in Old, Agreed(s, v)
    PROVE  SetRegister(target, Here, w)[s] = v
<1>1. target[s] = v /\ v # NULL
  BY OldIsBelow DEF KeptInv
<1>2. Here \in Slots /\ branch \in 1 .. Branches
  <2>1. father \in [1 .. Branches -> [Slots -> Old \cup {NULL}]] /\ Branches \in Nat
    BY MergeAssumption DEF IInv, RegistersKnown
  <2>2. Len(father) = Branches
    <3> DEFINE Files == [Slots -> Old \cup {NULL}]
    <3>1. father \in [1 .. Branches -> Files]
      BY <2>1
    <3> HIDE DEF Files
    <3> QED
      BY <2>1, <3>1
  <2> QED
    BY <2>1, <2>2 DEF Merging, Coming
<1>3. father[branch][s] = v /\ HalvesAgreeIn(father[branch]) /\ HalvesAgreeIn(target)
  BY <1>2 DEF Agreed, KeptInv, FatherFiles, IInv, HalvesAgree
<1>4. Coming # target[Here]
  BY DEF Same
<1>5. CASE s = Here
  BY <1>1, <1>3, <1>4, <1>5 DEF Coming
<1>6. CASE s[1] # Here[1]
  BY <1>1, <1>6 DEF SetRegister
<1>7. CASE s # Here /\ s[1] = Here[1]
  <2>1. PICK q \in Quads : /\ s[1] = q /\ Here[1] = q
                           /\ s = <<q, s[2]>> /\ Here = <<q, Here[2]>>
                           /\ s[2] \in {"E", "H", "L"} /\ Here[2] \in {"E", "H", "L"}
    BY <1>2, <1>7, RegistersAssumption DEF Slots
  <2>2. CASE Here[2] = "E"
    <3>1. Coming = v
      BY <1>3, <1>7, <2>1, <2>2 DEF Coming, HalvesAgreeIn
    <3>2. target[Here] = NULL
      BY <1>1, <1>3, <1>4, <1>7, <2>1, <2>2, <3>1 DEF HalvesAgreeIn
    <3> QED
      BY <2>1, <2>2, <3>1, <3>2 DEF SetRegister
  <2>3. CASE s[2] = "E"
    <3>1. target[Here] = v /\ Coming = v
      BY <1>1, <1>3, <1>7, <2>1, <2>3 DEF Coming, HalvesAgreeIn
    <3> QED
      BY <1>4, <3>1
  <2>4. CASE Here[2] # "E" /\ s[2] # "E"
    BY <1>1, <1>7, <2>4 DEF SetRegister
  <2> QED
    BY <2>2, <2>3, <2>4
<1> QED
  BY <1>5, <1>6, <1>7

LEMMA KeptStep == IInv /\ KeptInv /\ [Next]_vars => KeptInv'
<1> SUFFICES ASSUME IInv, KeptInv, [Next]_vars PROVE KeptInv'
  OBVIOUS
<1>1. father' = father
  BY DEF Next, Keep, Take, Again, Make, Emit, Advance, vars
<1>2. ASSUME target' = target PROVE KeptInv'
  BY <1>1, <1>2 DEF KeptInv, FatherFiles, Agreed
<1>3. ASSUME NEW w, target' = SetRegister(target, Here, w), target[Here] = NULL => w = Coming,
             Merging, Coming # NULL, ~NewlyMade, ~Same
      PROVE  KeptInv'
  BY <1>1, <1>3, SetKeepsAgreed DEF KeptInv, FatherFiles, Agreed
<1>4. CASE Take
  <2>1. ~NewlyMade /\ ~Same
    <3>1. NULL \notin Made
      BY <1>4, OldIsBelow, NullAssumption, MergeAssumption DEF IInv, PairsOrdered, Made
    <3> QED
      BY <1>4, <3>1 DEF Take, NewlyMade, Same
  <2> QED
    BY <1>3, <1>4, <2>1 DEF Take
<1>5. CASE Make
  BY <1>3, <1>5 DEF Make
<1> QED
  BY <1>2, <1>4, <1>5 DEF Next, Keep, Again, Emit, vars

(* A register on which all branches agree comes out of the merge as it is, *)
(* although its bytes are merged after it, one by one.                     *)
THEOREM Agreement == Spec => []AgreementKept
<1>1. Init => KeptInv
  <2> SUFFICES ASSUME Init PROVE KeptInv
    OBVIOUS
  <2>1. 1 \in 1 .. Branches
    BY MergeAssumption
  <2> QED
    BY <2>1 DEF Init, RegisterFiles, KeptInv, FatherFiles, Agreed
<1>2. IInv => RegistersKnown
  BY DEF IInv
<1> QED
  BY <1>1, <1>2, KeptStep, AgreementRestated, MergeInvariance, PTL DEF Spec

----------------------------------------------------------------------------
(* No branch is forgotten.                                                 *)

Whole(r) == <<r, "E">>

Names == Quads \cup Singles

(* A register that holds a variable as a whole at the end of each branch.  *)
AllWhole(r) == \A b \in 1 .. Branches : father[b][Whole(r)] # NULL

(* Branch b has been merged into the whole register r.                     *)
Passed(r, b) ==
    b < branch \/ (b = branch /\ \E k \in 1 .. next - 1 : MergeOrder[k] = Whole(r))

Place ==
    /\ branch \in 2 .. Branches + 1 /\ next \in 0 .. 14
    /\ next = 0 => branch = Branches + 1

(* The whole register is never invalidated, and accounts for the branches  *)
(* merged so far.                                                          *)
CoverInv ==
    /\ Place
    /\ \A r \in Names : AllWhole(r) =>
        /\ target[Whole(r)] # NULL
        /\ \A b \in 1 .. Branches : Passed(r, b) => Covered(Whole(r), father[b][Whole(r)])

LEMMA Concatenated ==
    ASSUME NEW X, NEW s \in Seq(X), NEW t \in Seq(X)
    PROVE  /\ Len(s \o t) = Len(s) + Len(t)
           /\ \A k \in 1 .. Len(s) : (s \o t)[k] = s[k]
<1>1. Len(s \o t) = Len(s) + Len(t)
  OBVIOUS
<1>2. ASSUME NEW k \in 1 .. Len(s) PROVE (s \o t)[k] = s[k]
  OBVIOUS
<1> QED
  BY <1>1, <1>2

(* The whole registers are merged before the bytes.                        *)
LEMMA WholesFirst ==
    /\ Len(MergeOrder) = 14
    /\ \A r \in Names : \E k \in 1 .. 6 : MergeOrder[k] = Whole(r)
    /\ \A k \in 1 .. 14 : MergeOrder[k][2] # "E" => k > 6
<1> DEFINE Pairs == {"EAX", "EBX", "ECX", "EDX", "ESI", "EDI"} \X {"E", "H", "L"}
<1>1. WholeSlots \in Seq(Pairs) /\ Len(WholeSlots) = 6
  <2>1. /\ <<"EAX", "E">> \in Pairs /\ <<"EBX", "E">> \in Pairs /\ <<"ECX", "E">> \in Pairs
        /\ <<"EDX", "E">> \in Pairs /\ <<"ESI", "E">> \in Pairs /\ <<"EDI", "E">> \in Pairs
    OBVIOUS
  <2> HIDE DEF Pairs
  <2>2. ASSUME NEW a \in Pairs, NEW b \in Pairs, NEW c \in Pairs, NEW d \in Pairs,
               NEW e \in Pairs, NEW f \in Pairs
        PROVE  <<a, b, c, d, e, f>> \in Seq(Pairs) /\ Len(<<a, b, c, d, e, f>>) = 6
    OBVIOUS
  <2> QED
    BY ONLY <2>1, <2>2 DEF WholeSlots
<1>2. ByteSlots \in Seq(Pairs) /\ Len(ByteSlots) = 8
  <2>1. /\ <<"EAX", "H">> \in Pairs /\ <<"EBX", "H">> \in Pairs /\ <<"ECX", "H">> \in Pairs
        /\ <<"EDX", "H">> \in Pairs /\ <<"EAX", "L">> \in Pairs /\ <<"EBX", "L">> \in Pairs
        /\ <<"ECX", "L">> \in Pairs /\ <<"EDX", "L">> \in Pairs
    OBVIOUS
  <2> HIDE DEF Pairs
  <2>2. ASSUME NEW a \in Pairs, NEW b \in Pairs, NEW c \in Pairs, NEW d \in Pairs,
               NEW e \in Pairs, NEW f \in Pairs, NEW g \in Pairs, NEW h \in Pairs
        PROVE  /\ <<a, b, c, d, e, f, g, h>> \in Seq(Pairs)
               /\ Len(<<a, b, c, d, e, f, g, h>>) = 8
    OBVIOUS
  <2> QED
    BY ONLY <2>1, <2>2 DEF ByteSlots
<1>3. Len(MergeOrder) = 14 /\ \A k \in 1 .. 6 : MergeOrder[k] = WholeSlots[k]
  <2>1. /\ Len(MergeOrder) = Len(WholeSlots) + Len(ByteSlots)
        /\ \A k \in 1 .. Len(WholeSlots) : MergeOrder[k] = WholeSlots[k]
    BY ONLY <1>1, <1>2, Concatenated DEF MergeOrder
  <2> QED
    BY ONLY <1>1, <1>2, <2>1
<1>4. \A r \in Names : \E k \in 1 .. 6 : WholeSlots[k] = Whole(r)
  <2> SUFFICES ASSUME NEW r \in Names PROVE \E k \in 1 .. 6 : WholeSlots[k] = Whole(r)
    OBVIOUS
  <2>1. r \in {"EAX", "EBX", "ECX", "EDX", "ESI", "EDI"}
    BY MergeAssumption DEF Names
  <2>2. /\ WholeSlots[1] = Whole("EAX") /\ WholeSlots[2] = Whole("EBX")
        /\ WholeSlots[3] = Whole("ECX") /\ WholeSlots[4] = Whole("EDX")
        /\ WholeSlots[5] = Whole("ESI") /\ WholeSlots[6] = Whole("EDI")
    BY DEF WholeSlots, Whole
  <2> QED
    BY <2>1, <2>2
<1>5. \A k \in 1 .. 6 : WholeSlots[k][2] = "E"
  BY DEF WholeSlots
<1>6. \A k \in 1 .. 14 : MergeOrder[k][2] # "E" => k > 6
  BY <1>3, <1>5
<1> QED
  BY <1>3, <1>4, <1>6

(* After the last position of a branch, all whole registers are passed.    *)
LEMMA PassedAfterAdvance ==
    ASSUME IInv, Place, Merging, Advance, NEW r \in Names, NEW b \in 1 .. Branches, Passed(r, b)'
    PROVE  Passed(r, b) \/ (b = branch /\ Here = Whole(r))
<1>1. /\ next \in 1 .. 14 /\ branch \in 2 .. Branches + 1 /\ Len(MergeOrder) = 14
      /\ Branches \in Nat
  BY WholesFirst, MergeAssumption DEF Merging, Place
<1>2. CASE next < 14
  <2>1. next' = next + 1 /\ branch' = branch
    BY <1>1, <1>2 DEF Advance
  <2> QED
    BY <1>1, <2>1 DEF Passed, Here
<1>3. CASE next = 14
  <2>1. next' = 1 /\ branch' = branch + 1
    BY <1>1, <1>3 DEF Advance
  <2>2. b < branch \/ b = branch
    BY <1>1, <2>1 DEF Passed
  <2>3. PICK k \in 1 .. 6 : MergeOrder[k] = Whole(r)
    BY WholesFirst
  <2>4. k \in 1 .. next - 1
    BY <1>3
  <2> QED
    BY <2>2, <2>3, <2>4 DEF Passed
<1> QED
  BY <1>1, <1>2, <1>3

LEMMA PlaceStep == IInv /\ Place /\ [Next]_vars => Place'
<1> SUFFICES ASSUME IInv, Place, [Next]_vars PROVE Place'
  OBVIOUS
<1>1. Len(MergeOrder) = 14 /\ Branches \in Nat /\ Len(father) = Branches
  <2> DEFINE Files == [Slots -> Old \cup {NULL}]
  <2>1. father \in [1 .. Branches -> Files] /\ Branches \in Nat
    BY MergeAssumption DEF IInv, RegistersKnown
  <2> HIDE DEF Files
  <2> QED
    BY <2>1, WholesFirst
<1>2. CASE Merging /\ Advance
  <2>1. branch \in 2 .. Branches /\ next \in 1 .. 14
    BY <1>1, <1>2 DEF Merging
  <2>2. CASE next < 14
    <3>1. next' = next + 1 /\ branch' = branch
      BY <1>1, <1>2, <2>2 DEF Advance
    <3> QED
      BY <1>1, <2>1, <2>2, <3>1 DEF Place
  <2>3. CASE next = 14
    <3>1. next' = 1 /\ branch' = branch + 1
      BY <1>1, <1>2, <2>3 DEF Advance
    <3> QED
      BY <1>1, <2>1, <3>1 DEF Place
  <2> QED
    BY <2>1, <2>2, <2>3
<1>3. CASE Emit
  BY <1>1, <1>3 DEF Place, Emit
<1>4. CASE UNCHANGED vars
  BY <1>4 DEF Place, vars
<1> QED
  BY <1>2, <1>3, <1>4 DEF Next, Keep, Take, Again, Make

(* A call of mergeSet() for the whole register accounts for its branch,    *)
(* and every other call leaves what the whole register accounts for.       *)
LEMMA CoverStep ==
    ASSUME IInv, FatherFiles, CoverInv, Merging, Keep \/ Take \/ Again \/ Make,
           NEW r \in Names, AllWhole(r)
    PROVE  /\ target'[Whole(r)] # NULL
           /\ \A b \in 1 .. Branches :
                 Passed(r, b) \/ (b = branch /\ Here = Whole(r)) =>
                     Covered(Whole(r), father[b][Whole(r)])'
<1> DEFINE e == Whole(r)
           x(b) == father[b][e]
<1>1. /\ target[e] # NULL
      /\ \A b \in 1 .. Branches : Passed(r, b) => target[e] = x(b) \/ <<target[e], x(b)>> \in merge
  BY DEF CoverInv, Covered
<1>2. branch \in 1 .. Branches /\ next \in 1 .. 14
  <2> DEFINE Files == [Slots -> Old \cup {NULL}]
  <2>1. father \in [1 .. Branches -> Files] /\ Branches \in Nat
    BY MergeAssumption DEF IInv, RegistersKnown
  <2> HIDE DEF Files
  <2> QED
    BY <2>1, WholesFirst DEF Merging
<1>3. father' = father /\ merge \subseteq merge'
  BY DEF Keep, Take, Again, Make, Advance
<1>4. e \in Slots /\ e[1] = r /\ e[2] = "E"
  BY DEF Whole, Names, Slots
<1>5. \A b \in 1 .. Branches : x(b) \in Old
  BY <1>4 DEF AllWhole, IInv, RegistersKnown
<1>6. \A v : <<target[e], v>> \in merge => target[e] \in Made
  BY DEF Made
<1>7. CASE Here = e
  <2>1. Coming = x(branch) /\ Coming # NULL
    BY <1>2, <1>4, <1>7 DEF Coming, AllWhole
  <2>2. CASE Keep
    BY <1>1, <1>3, <1>7, <2>1, <2>2 DEF Keep, Same, Covered
  <2>3. CASE Take
    BY <1>1, <1>7, <2>3 DEF Take
  <2>4. CASE Again
    BY <1>1, <1>3, <1>7, <2>1, <2>4 DEF Again, Covered
  <2>5. CASE Make
    <3>1. target'[e] = varIndex /\ varIndex # NULL
      <4>1. target'[e] = varIndex
        BY <1>4, <1>7, <2>5 DEF Make, SetRegister
      <4>2. varIndex # NULL
        BY NullAssumption DEF IInv, PairsOrdered
      <4> QED
        BY <4>1, <4>2
    <3>2. <<varIndex, target[e]>> \in merge' /\ <<varIndex, x(branch)>> \in merge'
      BY <1>7, <2>1, <2>5 DEF Make, Relate
    <3>3. \A b \in 1 .. Branches : Passed(r, b) => target[e] = x(b)
      BY <1>1, <1>6, <1>7, <2>5 DEF Make, NewlyMade
    <3> QED
      BY <1>3, <3>1, <3>2, <3>3 DEF Covered
  <2> QED
    BY <2>2, <2>3, <2>4, <2>5
<1>8. CASE Here # e /\ target'[e] = target[e]
  BY <1>1, <1>3, <1>8 DEF Covered
<1>9. CASE Here # e /\ target'[e] # target[e]
  <2>1. Take \/ Make
    BY <1>9 DEF Keep, Again
  <2>2. PICK w : target' = SetRegister(target, Here, w)
    BY <2>1 DEF Take, Make
  <2>3. Here \in Slots /\ Here[1] = r
    BY <1>4, <1>9, <2>1, <2>2 DEF Take, Make, Coming, SetRegister
  <2>4. r \in Quads /\ Here \in {<<r, "H">>, <<r, "L">>} /\ Here[2] # "E"
    BY <1>9, <2>3 DEF Slots, Whole
  <2>5. Passed(r, branch)
    <3>1. next > 6
      BY <1>2, <2>4, WholesFirst DEF Here
    <3>2. PICK k \in 1 .. 6 : MergeOrder[k] = Whole(r)
      BY WholesFirst
    <3>3. k \in 1 .. next - 1
      BY <1>2, <3>1
    <3> QED
      BY <3>2, <3>3 DEF Passed
  <2>6. target[Here] = target[e] /\ Coming = x(branch)
    <3>1. target[Here] = target[e]
      BY <1>1, <2>4 DEF IInv, HalvesAgree, HalvesAgreeIn, Whole
    <3>2. x(branch) # NULL /\ HalvesAgreeIn(father[branch])
      BY <1>2 DEF AllWhole, FatherFiles
    <3>3. father[branch][Here] = x(branch)
      BY <2>4, <3>2 DEF HalvesAgreeIn, Whole
    <3> QED
      BY <2>3, <3>1, <3>3 DEF Coming
  <2>7. target[Here] = Coming \/ NewlyMade
    BY <1>1, <1>2, <1>6, <2>5, <2>6 DEF NewlyMade
  <2> QED
    BY <1>1, <2>1, <2>6, <2>7 DEF Take, Make, Same
<1> QED
  BY <1>7, <1>8, <1>9

LEMMA CoverInvStep == IInv /\ FatherFiles /\ CoverInv /\ [Next]_vars => CoverInv'
<1> SUFFICES ASSUME IInv, FatherFiles, CoverInv, [Next]_vars PROVE CoverInv'
  OBVIOUS
<1>1. Place /\ Place'
  BY PlaceStep DEF CoverInv
<1>2. father' = father
  BY DEF Next, Keep, Take, Again, Make, Emit, Advance, vars
<1>3. CASE Keep \/ Take \/ Again \/ Make
  <2> SUFFICES ASSUME NEW r \in Names, AllWhole(r)
               PROVE  /\ target'[Whole(r)] # NULL
                      /\ \A b \in 1 .. Branches :
                            Passed(r, b)' => Covered(Whole(r), father[b][Whole(r)])'
    BY <1>1, <1>2 DEF CoverInv, AllWhole
  <2>1. Merging /\ Advance
    BY <1>3 DEF Keep, Take, Again, Make
  <2> QED
    BY <1>1, <1>3, <2>1, CoverStep, PassedAfterAdvance
<1>4. CASE Emit
  <2>1. branch' = branch /\ branch = Branches + 1 /\ UNCHANGED <<target, merge>>
    <3> DEFINE Files == [Slots -> Old \cup {NULL}]
    <3>1. father \in [1 .. Branches -> Files] /\ Branches \in Nat
      BY MergeAssumption DEF IInv, RegistersKnown
    <3>2. Len(father) = Branches
      <4> HIDE DEF Files
      <4> QED
        BY <3>1
    <3> QED
      BY <1>4, <3>2 DEF Emit
  <2>2. \A b \in 1 .. Branches : b < branch
    BY <2>1, MergeAssumption
  <2> QED
    BY <1>1, <1>2, <2>1, <2>2 DEF CoverInv, AllWhole, Passed, Covered
<1>5. CASE UNCHANGED vars
  BY <1>5 DEF vars, CoverInv, AllWhole, Passed, Covered, Place
<1> QED
  BY <1>3, <1>4, <1>5 DEF Next

(* Each variable a branch may leave in a register is what the register     *)
(* holds after the merge or what that stands for, although its bytes are   *)
(* merged once more after it and every branch may make a new variable.     *)
THEOREM EveryBranch == Spec => []EveryBranchCounts
<1>1. Init => CoverInv
  <2> SUFFICES ASSUME Init PROVE CoverInv
    OBVIOUS
  <2>1. Place
    BY MergeAssumption DEF Init, Place
  <2>2. \A b \in 1 .. Branches, r \in Names : Passed(r, b) => b = 1
    BY MergeAssumption DEF Init, Passed
  <2> QED
    BY <2>1, <2>2, MergeAssumption DEF Init, CoverInv, AllWhole, Covered
<1>2. Init => FatherFiles
  BY DEF Init, RegisterFiles, FatherFiles
<1>3. FatherFiles /\ [Next]_vars => FatherFiles'
  BY DEF FatherFiles, Next, Keep, Take, Again, Make, Emit, Advance, vars
<1>4. IInv /\ FatherFiles /\ CoverInv => EveryBranchCounts
  <2> SUFFICES ASSUME IInv, FatherFiles, CoverInv, Done, NEW s \in Slots, AllWhole(s[1]),
                      NEW b \in 1 .. Branches
               PROVE  Covered(s, father[b][s])
    BY DEF EveryBranchCounts, AllWhole, Whole
  <2> DEFINE r == s[1]
  <2>1. r \in Names /\ (s = Whole(r) \/ (r \in Quads /\ s \in {<<r, "H">>, <<r, "L">>}))
    BY DEF Slots, Names, Whole
  <2>2. Passed(r, b)
    BY MergeAssumption DEF CoverInv, Place, Done, Passed
  <2>3. target[Whole(r)] # NULL /\ Covered(Whole(r), father[b][Whole(r)])
    BY <2>1, <2>2 DEF CoverInv
  <2>4. CASE s = Whole(r)
    BY <2>3, <2>4
  <2>5. CASE r \in Quads /\ s \in {<<r, "H">>, <<r, "L">>}
    <3>1. father[b][Whole(r)] # NULL /\ HalvesAgreeIn(father[b])
      BY DEF AllWhole, FatherFiles
    <3>2. target[s] = target[Whole(r)] /\ father[b][s] = father[b][Whole(r)]
      BY <2>3, <2>5, <3>1 DEF IInv, HalvesAgree, HalvesAgreeIn, Whole
    <3> QED
      BY <2>3, <3>2 DEF Covered
  <2> QED
    BY <2>1, <2>4, <2>5
<1> QED
  BY <1>1, <1>2, <1>3, <1>4, CoverInvStep, MergeInvariance, PTL DEF Spec

(* Type correctness of the merge, for any number of branches.              *)
THEOREM MergeTypeCorrect == Spec => []MergeTypeOK
<1> DEFINE Domain == target \in [Slots -> Old \cup Made \cup {NULL}]
<1>1. Init => Domain /\ Place
  BY MergeAssumption DEF Init, RegisterFiles, Place
<1>2. IInv /\ Domain /\ IInv' /\ [Next]_vars => Domain'
  <2> SUFFICES ASSUME IInv, Domain, IInv', [Next]_vars PROVE Domain'
    OBVIOUS
  <2>1. target' = target \/ \E w : target' = SetRegister(target, Here, w)
    BY DEF Next, Keep, Take, Again, Make, Emit, vars
  <2>2. target' = [t \in Slots |-> target'[t]]
    BY <2>1 DEF SetRegister
  <2>3. \A t \in Slots : target'[t] \in Old \cup Made' \cup {NULL}
    BY DEF IInv, RegistersKnown
  <2> QED
    BY <2>2, <2>3
<1>3. IInv /\ Domain /\ Place => MergeTypeOK
  <2> SUFFICES ASSUME IInv, Domain, Place PROVE MergeTypeOK
    OBVIOUS
  <2>1. next \in 0 .. Len(MergeOrder)
    BY WholesFirst DEF Place
  <2>2. Made \subseteq FirstNew .. varIndex - 1
    BY DEF IInv, PairsOrdered, Made
  <2> QED
    BY <2>1, <2>2 DEF IInv, RegistersKnown, PairsOrdered, Place, MergeTypeOK
<1> QED
  BY <1>1, <1>2, <1>3, PlaceStep, MergeInvariance, PTL DEF Spec

=============================================================================
