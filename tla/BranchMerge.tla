----------------------------- MODULE BranchMerge -----------------------------
(***************************************************************************)
(* Several branches join at a basic block: mergeBranch() copies the        *)
(* registers of the first of them and mergeRegister() merges those of each *)
(* other one in, register by register, through mergeEnvironment() and      *)
(* mergeSet().  Where two branches disagree a temporary variable stands    *)
(* for both, and a constraint relates it to each.                          *)
(*                                                                         *)
(* Source: project/source/typeinfer.cpp, project/source/register.cpp.      *)
(*                                                                         *)
(* A step is one call of mergeSet().  ESP and the flags are the ones of    *)
(* the first branch and take no part in the merge; the sizes of variables, *)
(* which decide nothing here, are left out.                                *)
(***************************************************************************)
EXTENDS Registers, Sequences, FiniteSets

CONSTANTS
    FirstNew,       \* Tracker::varIndex when the merge begins
    Oldest,         \* the smallest id in use
    Branches        \* how many branches join

ASSUME MergeAssumption ==
    /\ Oldest \in Nat /\ FirstNew \in Nat /\ 0 < Oldest /\ Oldest <= FirstNew
    /\ Branches \in Nat /\ Branches >= 2
    /\ Quads \subseteq {"EAX", "EBX", "ECX", "EDX"} /\ Singles \subseteq {"ESI", "EDI"}

VARIABLES
    father,         \* the registers at the end of each branch
    target,         \* the registers the block begins with
    merge,          \* the pairs of the multimap: what stands for what
    varIndex,       \* Tracker::varIndex
    branch,         \* the branch that is being merged
    next,           \* the position in MergeOrder of the next register
    emitted,        \* the constraints, once they were made
    halt            \* the ASSERT of mergeRegister() failed

vars == <<father, target, merge, varIndex, branch, next, emitted, halt>>

----------------------------------------------------------------------------
Old == Oldest .. FirstNew - 1

(* Register files that instructions leave behind.                          *)
RegisterFiles == {R \in [Slots -> Old \cup {NULL}] : HalvesAgreeIn(R)}

WholeSlots ==
    << <<"EAX", "E">>, <<"EBX", "E">>, <<"ECX", "E">>, <<"EDX", "E">>,
       <<"ESI", "E">>, <<"EDI", "E">> >>
ByteSlots ==
    << <<"EAX", "H">>, <<"EAX", "L">>, <<"EBX", "H">>, <<"EBX", "L">>,
       <<"ECX", "H">>, <<"ECX", "L">>, <<"EDX", "H">>, <<"EDX", "L">> >>

(* Slip: the bytes come first.                                             *)
MergeOrderBytesFirst == ByteSlots \o WholeSlots

(* mergeEnvironment(): the whole registers, then the bytes.                *)
MergeOrder == WholeSlots \o ByteSlots

(* The variables this merge has made.                                      *)
Made == {p[1] : p \in merge}

----------------------------------------------------------------------------
Init ==
    /\ father \in [1 .. Branches -> RegisterFiles]
    /\ target = father[1]
    /\ merge = {}
    /\ varIndex = FirstNew
    /\ branch = 2
    /\ next = 1
    /\ emitted = {}
    /\ halt = FALSE

(* The call of mergeSet() that comes next, and the one after it.           *)
Here == MergeOrder[next]
Merging == ~halt /\ branch \in 2 .. Len(father) /\ next \in 1 .. Len(MergeOrder)

(* What the branch holds there; a register an instance leaves out of       *)
(* Quads and Singles is one that holds nothing.                            *)
Coming == IF Here \in Slots THEN father[branch][Here] ELSE NULL

(* Slip: a variable this merge has made is taken for an old one.           *)
NewlyMadeNever == FALSE

(* "this is a newly create merge variable"                                 *)
NewlyMade == target[Here] \in Made

(* Slip: the ids are not compared.                                         *)
SameNever == FALSE

Same == ~NewlyMade /\ Coming = target[Here]

Advance ==
    /\ IF next < Len(MergeOrder)
       THEN next' = next + 1 /\ UNCHANGED branch
       ELSE next' = 1 /\ branch' = branch + 1
    /\ UNCHANGED <<father, emitted, halt>>

(* The branch holds nothing there, or what is there already.               *)
Keep ==
    /\ Merging
    /\ Coming # NULL => Same
    /\ Advance
    /\ UNCHANGED <<target, merge, varIndex>>

(* Nothing is there yet: the variable of the branch is taken.              *)
Take ==
    /\ Merging
    /\ Coming # NULL /\ target[Here] = NULL
    /\ Advance
    /\ target' = SetRegister(target, Here, Coming)
    /\ UNCHANGED <<merge, varIndex>>

(* A variable made by this merge is there: it stands for one more.         *)
Again ==
    /\ Merging
    /\ Coming # NULL /\ NewlyMade
    /\ Advance
    /\ merge' = merge \cup {<<target[Here], Coming>>}
    /\ UNCHANGED <<target, varIndex>>

(* Slip: the branch that is merged in is not related.                      *)
RelateFirst(to, from1, from2) == {<<to, from1>>}

(* Slip: the relation is the wrong way round.                              *)
RelateSwapped(to, from1, from2) == {<<from1, to>>, <<from2, to>>}

(* What a new variable stands for.                                         *)
Relate(to, from1, from2) == {<<to, from1>>, <<to, from2>>}

(* Two variables meet: a new temporary one stands for both.                *)
Make ==
    /\ Merging
    /\ Coming # NULL /\ target[Here] # NULL /\ ~NewlyMade /\ ~Same
    /\ Advance
    /\ target' = SetRegister(target, Here, varIndex)
    /\ merge' = merge \cup Relate(varIndex, target[Here], Coming)
    /\ varIndex' = varIndex + 1

(* The rest of mergeRegister(): a constraint for each variable made, which *)
(* must stand for more than one.                                           *)
StandsFor(to) == {p[2] : p \in {q \in merge : q[1] = to}}

Emit ==
    /\ ~halt /\ branch = Len(father) + 1 /\ next = 1
    /\ IF \E to \in Made : Cardinality(StandsFor(to)) = 1
       THEN halt' = TRUE /\ UNCHANGED emitted
       ELSE emitted' = {[var |-> to, of |-> StandsFor(to)] : to \in Made} /\ UNCHANGED halt
    /\ next' = 0
    /\ UNCHANGED <<father, target, merge, varIndex, branch>>

Next == Keep \/ Take \/ Again \/ Make \/ Emit

Spec == Init /\ [][Next]_vars

----------------------------------------------------------------------------
(* Properties.                                                             *)

(* The registers hold variables of the branches or of the merge.           *)
MergeTypeOK ==
    /\ father \in [1 .. Branches -> [Slots -> Old \cup {NULL}]]
    /\ target \in [Slots -> Old \cup Made \cup {NULL}]
    /\ varIndex \in Nat /\ varIndex >= FirstNew
    /\ Made \subseteq FirstNew .. varIndex - 1
    /\ branch \in 2 .. Branches + 1
    /\ next \in 0 .. Len(MergeOrder)
    /\ halt \in BOOLEAN

(* The block begins with registers whose bytes agree with the whole, like  *)
(* those the branches ended with, although mergeSet() works on the bytes   *)
(* after it has changed the whole.                                         *)
HalvesAgree == HalvesAgreeIn(target)

(* What a merge variable stands for is older than the merge: the relations *)
(* of all merges together have no cycle, so a variable never stands for    *)
(* itself.                                                                 *)
MergeIsNewer == \A p \in merge : p[2] < FirstNew /\ p[1] >= FirstNew

(* mergeRegister() asserts that no merge variable stands for one variable  *)
(* alone (typeinfer.cpp:385-393).                                          *)
NeverSingle == ~halt

Done == next = 0 \/ branch = Branches + 1

(* The variable v of a branch is what the register holds in the end, or    *)
(* what that stands for.                                                   *)
Covered(s, v) == target[s] = v \/ <<target[s], v>> \in merge

(* A register that holds a variable as a whole at the end of each branch   *)
(* accounts for all of them: no branch is forgotten when the second, third *)
(* ... is merged and its bytes are merged once more after it.              *)
EveryBranchCounts ==
    Done => \A s \in Slots :
        (\A b \in 1 .. Branches : father[b][<<s[1], "E">>] # NULL) =>
            \A b \in 1 .. Branches : Covered(s, father[b][s])

(* A register on which all branches agree is not touched.                  *)
AgreementKept ==
    \A s \in Slots :
        (\A b \in 1 .. Branches : father[b][s] = father[1][s] /\ father[b][s] # NULL) =>
            target[s] = father[1][s]

=============================================================================
