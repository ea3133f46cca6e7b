# A TLA+ model of binary_reverse_lib

`project/` (under `src/`) is a C++ library that takes the bytes of one x86 function, finds its
variables and infers types for them: it decodes the bytes with XED, recovers stack and absolute
variables, builds the control flow graph, tracks which variable each register holds through every
basic block, and collects type constraints for a solver.  The modules here model its analysis,
check it with TLC on small instances and prove part of it with TLAPS for all of them.

The program is one sequential process.  It keeps nothing across runs, has no threads and no
messages, and talks to nobody.  What makes it hard is the order in which blocks and instructions
are handled, the state that is carried from one to the next (registers, flags, ESP, the next id),
the merging of branches, and its `ASSERT`s: a failing one prints a line and ends the process
(`project/include/utility.h:57`).

All source paths below are relative to `src/project/`; a file without a directory is in `source/`.

## 1. Inventory

| Part | State | Operations | Correct when |
| --- | --- | --- | --- |
| **Control flow graph** (`typeinfer.cpp` `buildCFG`, `buildMatrix`) | `nodes`, `edges`, `jmpTarget`, `instruction`, `matrix`, `blockContainer` | a scan that makes nodes and edges, a second pass for falls through into jump targets, the matrix between blocks | blocks are straight code; the matrix is the control flow between them |
| **Block order** (`calcDeep`, `analyzeBinary`, `findNext`, `mergeBranch`) | `depth` of each block, the queue, `deep`, the blocks not analysed yet | breadth first marking; a search by increasing depth; the choice of the fathers to merge | depth is the distance from the entry; nearer blocks first; no `ASSERT` for live code; it ends |
| **Registers** (`register.cpp`) | fourteen variable pointers, `EBP`, `ESP`, the flags | `getRegister`, `setRegister`, `addESP`, `subESP`, `setFlagInfo`, `copyEnvironment` | what a byte register holds agrees with the whole |
| **Stack trailer** (`trailer.cpp`) | `Register::ESP`, shared with Tracker | `trackESP` | `ESP` is the distance between EBP and ESP |
| **Tracker** (`tracker.cpp`) | the variables by offset, `varIndex`, the temporaries | `trackVariable`, `getMemoryVariable`, `pointerInfer`, `setTempVariable` | ids are unique; each operand gives the variable it names |
| **Constraint generation** (`typemgr.cpp`) | `typeContainer` | one case per class of instructions | constraints speak of the instruction's variables; results are new |
| **Constraints and types** (`extract.cpp`, `constraint.cpp`) | none (values) | one function per kind of constraint; `CompareType`, `MeetType` | each function gives the constraint it describes; types are ordered |
| **Branch merge** (`mergeRegister`, `mergeEnvironment`, `mergeSet`) | the merged registers, the multimap `merge` | register by register for each further branch | no branch forgotten; relations acyclic |
| **Operand helpers** (`utility.cpp`) | none | `SrcRegister`, `IsMemoryOperand`, ... | – |
| **Variable recovery** (`varinfer.cpp`, `VariableRecovery()` of `main.cpp`) | the variables found, its own `Register` and trailer | one pass over the addresses, then sizes and numbers | what is found is what the function addresses; the variables partition the frame |
| **Type solver** (`typeslvr.cpp`) | the elements of the constraints, `upperBound`, `equalityPair` | `equalConstraint`, `replaceVariable`, `subConstraint`, `processSolving` | equal variables get one name; no bound is lost |
| **Driver** (`main.cpp`) | the variables found | recovery, then inference, then printing | the second pass finds what the first has made |
| **XED** (`xed2-ia32/`) | – | decoding | vendored |

How they interact: `TypeHunter` owns a `Tracker` and a `StackTrailer`; both hold the same
`Register*`, and `resetState()` points both at the registers of the block that is analysed next.
`assignConstraint()` first lets the trailer move `ESP`, then the tracker move variables, then
generates constraints, so the tracker sees the `ESP` **after** the instruction.
`mergeBranch()` builds a block's registers from those its fathers were left with, which is why the
order of the blocks matters.  `varIndex` runs through the whole function.
`main()` hands the variables `VariableHunter` has found to `TypeHunter`; they are found by a walk over
the addresses and looked up by a walk over the blocks, and both follow `ESP` on their own.  The call of
the solver is commented out (`main.cpp:114`).

What is hard to test in each of them is listed in `PROJECT.json` under `hazards`.

## 2. Modules and the code

| Module | Models | State and actions |
| --- | --- | --- |
| `BlockGraph` | reference: reachability and distance in a graph of blocks | operators only |
| `BlockOrder` | `calcDeep()`, the loop of `analyzeBinary()`, the verdict of `mergeBranch()` | `depth`, `pQueue`, `index`, `j` are those of `calcDeep()`; `Pop`, `Reach`, `Skip`, `CalcDone` are its loops.  `deep`, `analysed` are those of `analyzeBinary()`; `Analyse(b)` takes a block and merges its fathers, `Deepen` is `deep++`, `Finish` the return.  `halt` names the failed `ASSERT` |
| `BlockOrderAbs` | what the order promises, without queue, depth and counter | `AnalyseNearest`, `Stop` |
| `ControlFlow` | `buildCFG()`, `buildMatrix()` | `ScanPlain/Jump/Branch/Bad/End` are the first loop by class of instruction, `Join`, `JoinSkip`, `JoinEntry`, `JoinEnd` the second, `BuildMatrix` the rest; `Successors` is the processor's transfer of control, beside what the scan takes an instruction for |
| `FunctionAnalysis` | the composition of the two | `StartOrder` hands the matrix to `BlockOrder`, which is an INSTANCE |
| `Variables`, `Registers` | ids; the register file with `setRegister()` | `SetRegister(R, slot, v)` on a function from slots to variables |
| `Instructions` | what the helpers of `utility.cpp` read | records; `UsesFrame` is the early return of `generateConstraint()` |
| `Trailer` | `trackESP()` | `TrackESP`, `TrackFails` |
| `StackDistance` | the trailer beside the processor | one action per class of instruction; each tracks and executes it.  `distance` is the processor's EBP − ESP; `pushed` and `slack` account for its difference from the belief |
| `Extract` | the constraint functions | a constraint is a sequence of parts, a part a sequence of elements |
| `ConstraintGen` | `assignConstraint()` and all it calls, over the instructions of a block | `reg`, `esp`, `flag`, `varIndex` of `Register` and `Tracker`; `emitted` is what the last instruction added; one action per case of the switch, `Ignore` for the others, `Abort` for a failing `ASSERT` or a null pointer |
| `BranchMerge` | the merge of several branches | `target`, `merge`; a step is one call of `mergeSet()` with the outcomes `Keep`, `Take`, `Again`, `Make`; `Emit` is the rest of `mergeRegister()` |
| `TypeHunter` | `analyzeBinary()`, `mergeBranch()`, `inferType()` down to the instruction | composes `FunctionAnalysis`, `BranchMerge` and `ConstraintGen`: `FindBlock` takes a block and its first father's environment, `MergeRegister` and `StateMerge` merge the others, `InferInstruction` is a step of `ConstraintGen`, `LeaveBlock` fills `regPtr` |
| `VariableRecovery` | `VariableHunter` and its loop | two maps from offset to size; `Find(i)` is `findVariable()`, `GetResult` sorts, sizes and numbers; `Undecodable`, `TrackAssert` are the other ends |
| `FrameRecovery` | the same beside the processor | `Scan` does `VariableRecovery`'s `Find` and `StackDistance`'s step of one instruction, and notes every place that the processor accesses through EBP or ESP: operands, with what an index register adds (`Indices`), those of PUSH and POP included, and the words that a CALL, PUSHF or the like pushes or pops |
| `Driver` | `main()` | `Recover`, then `FunctionAnalysis` with the ESP and the lookups of each block (`AnalyseBlock`) |
| `TypeSystem` | `getLevel()`, `CompareType()` | operators only |
| `TypeSolver` | `processSolving()` and what it calls | the elements, in order, and a cursor; one action per kind of element in each of the two passes; `Report` is the output |
| `*Proofs` | theorems of the module they are named after | |
| `MC*` | TLC instances | |

Definitions marked "Slip" in a comment are variants of the definition after them with a plausible
mistake in it.  No specification uses them: each is the mutation by which one property is shown to
be sensitive to the code (`mutants` in `PROJECT.json`).

Choices made in the translation:

* **Addresses** in `ControlFlow` are instruction ordinals.  A jump into the middle of an
  instruction is left out.  Jumps below the function and beyond it are there.
* **Undefined behaviour**: with a jump to address 0, `*(--itr)` (`typeinfer.cpp:197`) reads before
  the set's first element; `JoinEntry` allows every outcome of using what it reads.
* **Integers**: `deep` wraps around at `IntMax` (the makefile builds without optimisation), because
  the loop really gets there.  `ESP`, offsets and ids are unbounded: no input of a realistic size
  brings them near 2^31.
* **ASSERTs and null pointers** are end states (`halt`).  Memory that is never freed is left out.
* **Sizes**: sizes of operands select constraints and are kept.  Sizes of variables are kept where
  they are a result, in `VariableRecovery`; tracking and merging copy them but never read them for a
  decision, so they are left out there.
* **Misread jumps**: the scan of `buildCFG()` knows JMP, the conditional jumps and LOOPs of its switch,
  and RET.  A JMP through a register or memory is the same class as a direct one; it has no branch
  displacement, so it reads as a jump to the next instruction (kind `ijmp`).  JCXZ and JECXZ have no case and read as plain
  instructions (`jcxz`), and so do those behind which control does not go on: a far JMP, an IRET, HLT or UD2
  (`stop`).  `Misread` says which of the three an instance has.  `Successors` gives all of them
  their real transfers of control; the properties that need the scan to be right speak of what it
  understands (`Understood`), or of functions it understands in whole (`Readable`).
* **Instruction classes**: rotations behave as `SHL`; `XCHG`, `AND`, `TEST`, `IMUL` and every other
  class without a case are `Ignore`.
* **XED's operands**: an `LEA` computes an address and accesses no memory, so its operand is found by
  neither `xed_operand_values_accesses_memory` nor a memory operand; a `CALL` whose operand is not in memory, a `PUSHF`, `POPF`, `PUSHA` and `POPA` access `[ESP]`, although
  what they push comes to lie below it.
* **Recovery is linear**: `VariableHunter` reads the addresses in a row, so its `esp` at a label is
  that of the instruction before it in memory, dead or not.
* **`ptr--` on an empty map** (`varinfer.cpp:204`) is undefined; with the library the makefile links,
  it follows a null pointer, and the process dies (`outcome = "dead"`).
* **DIV**: the implicit second operand is the dividend register, AX for a division by a byte, so
  the branch for size 8 is dead code; it is in the model all the same (`QuotientSlot`).
* **ESP on the processor's side** moves as x86 moves it.  What `trackESP()` has no case for, or takes
  for something else, is `slack`: AND, LEA, POP ESP and every other class that writes ESP may move it by any member
  of `Moves`, the callee of a CALL may pop its arguments (the negative ones), PUSHF, PUSHA and their pops move it by
  their words, a 16 bit PUSH by two bytes instead of four, and an ENTER reserves what it is told to, while the belief
  starts from 0.  `CodeAssumption` leaves out writes of SP and BP by themselves, and a nested ENTER.
* **The frame**: `InOwnFrame` says that EBP and ESP were used for an access only between the set-up of the frame and
  its end, which is LEAVE, RET, or a write of EBP (`FrameAfter`).

## 3. Runs

`-config` files have the same name as below; each is one question.  CHECK_DEADLOCK is off in all of
them because all models end: the program does.

| Run (cfg) | Bounds | What it shows |
| --- | --- | --- |
| `MCBlockOrder` | graphs of 1–4 blocks, 2 successors, counter −5..4 (308 525 states) | `DepthIsDistance`, `NearerFirst`; only unreachable blocks end the process (`OnlyUnreachedHalts`) and they are never analysed even when the counter wraps (`UnreachedNeverAnalysed`) |
| `MCBlockOrderLive` | graphs of 1–3 blocks, any edges, counter −4..3 | `ImplementsOrder`: refinement of `BlockOrderAbs` with its liveness; `LoopEnds` |
| `MCControlFlow` | functions of 1–4 instructions, jumps to −1..5, indirect JMPs and instructions that end the flow among them (6.2 million states) | `MatrixIsControlFlow`: the matrix is the control flow of what the scan understands, plus a step to the next address for each misread instruction; `BlocksAreStraight` |
| `MCFunctionAnalysis` | functions of 1–3 instructions, jumps to −1..4, all three misread kinds, counter −8..7 | `MatrixIsControlFlow` for every misread kind; where there is none, `DepthForLiveBlocks`: buildCFG, buildMatrix and calcDeep lose no live block; `WellFormedAnalysed`: a well formed function is analysed to its end |
| `MCConstraintGen` | 42 instructions, blocks of up to 5 of them; EAX, EDX with bytes, ESI; two stack variables, one absolute | `HalvesAgree`, `NothingFromNowhere`, `FreshResults`, `NumberedIsHeld` |
| `MCBranchMerge` | three branches; a register with its bytes; three variables | `EveryBranchCounts`, `AgreementKept`, `MergeIsNewer`, `NeverSingle`, `HalvesAgree` |
| `MCTypeHunter` | five functions of 4–11 instructions, each other one any of six; EAX with bytes, ESI (1.7 million states) | `StandsForItsPaths`: over all blocks and merges a register stands for exactly the values the paths give it, where instructions write whole registers; `FlagsOfSomePath` |
| `MCFrameRecovery` | 21 instructions, every sequence of up to 6 that sets a frame up with its first or second, beside the processor; unseen moves of −8 and 4, an index of 4 (2.7 million states) | `DriftIsPushes`, `FoundWhereAddressed`, `EachPlaceInOneVariable`, `KeysInOrder` |
| `MCDriver` | functions of 1–5 instructions that set up their frame first, jumps inside them, five bodies | `EspOfSomePath`: a block starts with the ESP of a path to it; `LookupsFind`: where the paths agree on ESP, every stack variable that is looked up was found |
| `MCTypeSolver` | up to 3 constraints of the kinds `extract.cpp` makes, three memory and two temporary variables, an id of no variable | `OneNamePerClass`, `NamedByMemory`, `PairsLeadToName`, `BoundIsTightest` |

Why the bounds are enough.  Four blocks hold a diamond, a loop, a loop with a side entry, an
unreachable block with an edge into live code, and two fathers at different depths; that covers
every way two paths can disagree about a distance.  Three instructions hold a forward and a
backward jump with code after it.  A state of `ConstraintGen` is decided by three groups of slots,
flags and the next id; five instructions are a pointer load, a store of it, two calculations on it
and a SETcc.  With three branches, a merge variable is made by the second and met by the third,
on the whole register and again on its bytes; registers do not influence each other.  The functions
of `MCTypeHunter` are an if/else followed by an if, a join of three branches, a join of what a join has
made, a loop around an if/else, and dead code that jumps.  Its bodies load, copy, clear and calculate on
two registers, which is what makes the paths to a block differ; what other instructions do to
registers is a matter of one block, which `MCConstraintGen` has in full.  Six instructions set a
frame up, align or reserve, push, address a place through EBP and through ESP, and call or leave.  Five
instructions of `MCDriver` are the set-up of the frame, a branch with a push on one side and a load
through ESP behind both.  Three constraints are two equalities that meet in one
variable, in either order, and a bound on any of the three; a fourth adds a longer chain of the same.

`FoundWhereAddressed` and the second half of `EachPlaceInOneVariable` speak of functions that address the stack inside their own
frame (`InOwnFrame`); they say where an access is filed, which is not where it goes if it is through ESP after a push
or an unseen move, or has an index register.  An access by PUSH or POP is addressed, but not looked at (`LookedAt`), and
the word of a CALL is looked at although no operand names it: what is found differs from what the operands address by just
these.  `EspOfSomePath`, `LookupsFind`, `StandsForItsPaths` and `FlagsOfSomePath` of functions the scan understands, without dead
code and whose jumps stay inside (`AllLive`, `Entering`): a jump in dead code behind another jump leaves the same block, and the
code does not look whether it is reached.

Runs that TLC must find violated, because a comment of the source says one thing and the code does
another (`findings` in `PROJECT.json`):

| Run | The comment | The code |
| --- | --- | --- |
| `MCConstraintGenFrameAddress` | `typemgr.cpp:788` "the result must be a pointer." and 789 "we can also figure which variable it point to." | the address of a stack variable is looked up by `getMemoryVariable()`, which asserts an access to memory (`tracker.cpp:76`) |
| `MCStackDistancePush` | `include/register.h:68` "the distance between ESP and EBP" | PUSH counts 1, SUB counts bytes |

The models show more of the kind, which have no run of their own; each is in the definition named:

* An unreachable block keeps depth −1; the search for it runs until the counter has wrapped and
  then an `ASSERT` ends the process (`Deepen`, `MergeVerdict`), although `typeinfer.cpp:304` speaks
  of the depth of each block.
* A jump out of the function makes a block outside it (`ScanJump`, `EndAddr`), although
  `include/typeinfer.h:26` calls a block's addresses relative addresses inside the function.
* `MOVZX` from an unknown source leaves the old variable in its destination (`Extend`,
  `typemgr.cpp:110-125`); so do `ADD` and every instruction without a case.
* `ConstraintDIV()` adds one list twice and fills it in between, so both parts are the same list
  with two results (`ConstraintDIV`, `extract.cpp:202-217`).
* The result of a shift is entered as an operand (`ConstraintSHIFT`, `extract.cpp:319`).
* SETNLE is listed as signed (`typemgr.cpp:434`) but line 488 tests SETNL twice (`Signed`).
* Taking a whole register from a branch overwrites the byte another branch holds (`Take`,
  `register.cpp:233`).
* An epilogue `MOV ESP, EBP` ends the process (`TrackFails`, `trailer.cpp:30`).
* ESP and the flags of a merged block are those of its first father (`FirstFather`,
  `typeinfer.cpp:472`).
* A father at the same depth or farther is not merged (`Merged`, `typeinfer.cpp:436`), so after an if
  without an else the branch is lost, although line 461 speaks of more than two branches that merge.
* A calculation on unknown operands leaves an unnumbered result in the flags, and a SETcc after it
  states a constraint about id 0 (`SetOnCondition`, `typemgr.cpp:499`), where `include/constraint.h:166`
  says that the left hand is always a variable; the solver would print it through a null pointer
  (`Report`, `typeslvr.cpp:302`).
* A shift in memory ends the process: `ConstraintSHIFT()` dereferences the result that
  `typemgr.cpp:703` does not make (`NullResult`, `extract.cpp:304`).
* The size of a merge variable is the minimum of a size and an id (`register.cpp:259`, whose comment
  on line 244 says "set size to smaller one."); sizes are left out of the merge.
* A CALL leaves a variable at ESP, one word above the one it pushes (`MemoryOperand`, `varinfer.cpp:72`), and so do
  PUSHF and its like; what only a PUSH or a POP addresses is no variable (`SkippedClasses`).
* An array element `[EBP + ECX*4 - 16]` is filed as the variable at −16 (`StackOffset`, `varinfer.cpp:82`).
* An indirect JMP is an edge to the next instruction, and JCXZ loses its target (`Displaced`, `ScanPlain`,
  `typeinfer.cpp:134`).  An edge into a jump target is added behind a far JMP, an IRET, HLT or UD2, too
  (`FallsThrough`), where `typeinfer.cpp:204` speaks of "a flow that can reach this."
* After an AND on ESP, as in the sample code of `main.cpp:133`, one place is filed as two variables, once
  through EBP and once through ESP (`UnseenMoves`, `Filed`), where `trailer.cpp:20-22` says that "we can simply
  ignore it".
* The last stack variable gets the magnitude of its offset for its size, although
  `varinfer.cpp:119` promises a boundary variable the size of the instruction (`StackSize`, line 205).
* `main()` ignores what `VariableRecovery()` returns and analyses a fixed 64 bytes (`Recovered`,
  `main.cpp:145`).
* `replaceVariable()` leaves the right hand of an element whose left hand it has replaced
  (`Replace`, `typeslvr.cpp:61`), although line 91 speaks of every occurrence: `a = a` becomes `b = a`.
* Of two equal temporary variables the left one stays (`EqualsTemp`, `typeslvr.cpp:131`), where line 97
  says that A is replaced by B.
* `CompareType()` is not transitive: a 16 bit integer is below a 16 bit number and that below a 32 bit
  number, but the first and the last cannot be compared (`Comparable`, `constraint.cpp:100`), although
  line 111 calls the hierarchy a lattice.  Which bound a variable keeps then depends on their order, so
  `BoundIsTightest` is restricted to bounds of one size.

### Fairness

Only `FairSpec` of `BlockOrder` and `Spec` of `FunctionAnalysis` are fair: `WF(Next)`.  There is one
thread and none of the loops waits for anything, so a process that can take a step takes one.  No
action has fairness of its own.

## 4. Proofs

Every theorem is checked by `tlapm` to the last leaf, from the assumptions named in the modules:
`BoundsAssumption` (a function has at least one block and an int can count them),
`LengthAssumption` (a function has at least one instruction; the kinds of misread instructions are those named),
`RegistersAssumption` (registers with bytes and without are different), `NullAssumption` (a null
pointer is no id), `MergeAssumption` (ids in use are smaller than the next; the registers are among the six that are merged), `TrackerAssumption`
(EAX and EDX have bytes; offsets are integers), `OperandAssumption` (operands are those of 32 bit
code: sizes of 8, 16 or 32 bits, at most one operand in memory, an LEA or MOVZX writes a register), `CodeAssumption` (displacements are integers and sizes
natural numbers; SP and BP are not written by themselves; ESP moves by integers), `IndicesAssumption` (an index adds an integer; at most one
operand is in memory, and of what pushes or pops only PUSH, POP and CALL have one), `HunterAssumption` (the registers and offsets `TypeHunter` shares with
its instances are of their kinds; the instructions between the jumps write whole registers, so no SETcc and no MOV of a byte register, and are not
ones without an encoding), `SolverAssumption` (a list of constraints is made of what
`extract.cpp` makes; memory variables and temporaries are different), `BodiesAssumption` (the instructions
`Driver` puts between the jumps have integer displacements, and none of them is one on which `trackESP()` returns false).  TLC evaluates each of them in a passing run.

* `BlockOrderProofs`: `TypeCorrect`, `OnlyUnreached`, `NeverUnreached`, `Ordered`,
  `DepthsAreDistances` and `Implements`, for every graph and every size of int.  That a block is analysed after its fathers is not inductive: it needs that
  every block with a depth has a father one nearer (`HasFather`), that the children of each block
  taken from the queue have depths (`ChildrenSeen`), that depths in use have no gap (`NoGap`), that
  after `calcDeep()` the marked blocks are closed under edges (`Closed`), and that everything nearer
  than `deep` has been taken as long as the counter has not wrapped (`TakenUpToDeep`).
  `NeverUnreached` is what makes the wrapped counter harmless: a block found at depth −1 has no
  father with a depth it could merge, so it ends the process.
  For `DepthsAreDistances` a second invariant (`LevelInvariance`) says that the search goes level by
  level: the queue is sorted and nothing marked is farther than one step from the block expanded
  (`Levels`), so no edge leads more than one level down (`Tight`).  With `HasFather` and `Closed` the
  blocks of depth at most s unfold like `ReachedWithin` does (`NearSetUnfolds`, `ReachedUnfolds`),
  and the least s at which the two could differ does not exist (`LeastNumber`).  `ReachedWithin` is a
  recursive function: that its table exists and is unique is proved first (`TableExists`,
  `TablesAgree`).  `Implements` is the safety part of `ImplementsOrder`: a block found at depth `deep`
  is a nearest waiting one of `BlockOrderAbs`, and an ASSERT fails only when some block is unreachable.
* `ConstraintGenProofs` and `BranchMergeProofs`: `setRegister()` keeps bytes and registers in agreement
  (the lemma `SetRegisterAgrees`, stated in both), and `BytesAgree` of each lifts it to every code and to
  every set of branches.
* `ConstraintGenProofs`: besides the bytes, `NumberedOnly`, `Nowhere`, `Fresh` and `NothingLost`, for any
  instructions.  Every handler is typed by itself: its constraints are sequences of sequences of
  elements over the variables it may name (`ConstraintsOver`, one lemma per function of `extract.cpp`).
  The temporaries of a step are split in two: the first ones are what its operands point to, the later
  ones are results (`First`, `Later`).  That results and pointees are disjoint is `Fresh`; that
  nothing else is named is `Nowhere`; and for `NothingLost` (in a register or pointed to: the flags do not count) a pointee stays in the constraint that was
  added for it, through every concatenation, while a result stays in the slot it was put in (`Kept`).
  With two operands in memory the second temporary would be lost: `NothingLost` is where the model
  relies on there being at most one.
* `BranchMergeProofs`: `Newer` (no cycle among what stands for what) and `AssertHolds` (line 393 is
  never reached) from an invariant in which every pair leads from an id of this merge to an older
  one and each variable made stands for two different ones.  `Agreement` (a register all
  branches agree on stays) needs the agreement of the bytes: setting the whole register or the other byte
  could only disturb it where what comes differs from what is there, and there the whole register of
  every branch, or of the target, tells the byte (`SetKeepsAgreed`).  `EveryBranch` rests on the order
  of `mergeEnvironment()`: all whole registers come before any byte (`WholesFirst`), so when a byte is
  merged its register already accounts for the branch (`CoverInv`) and the byte, which agrees with it,
  neither makes a variable nor invalidates the whole (`CoverStep`).
* `FunctionAnalysisProofs`, for functions of any length with jumps to anywhere: `CfgTypeCorrect`,
  `Straight`, `Matrix` and `LiveAnalysed`.  That the finished matrix is right is no invariant of the passes;
  `CfgInv` says what they have collected so far: the labels and the blocks are the ones the addresses
  already scanned give, the edges those of the jumps scanned and of the blocks already entered from above
  (`Collected`).  When both passes have been over all addresses, that is the definition of the transfers
  of control (`SuccessorEdges`) for the instructions the scan understands, and of the step behind them for those it misreads
  (`MisreadEdges`).  For `LiveAnalysed` the invariant joins `CfgInv`
  with what `calcDeep()` has marked (`Marked`) and whose children it has seen
  (`ChildrenSeen`); when it returns, the marked blocks are closed under the edges.  So are then the
  addresses in them under the transfers of control: into a block a transfer is an edge, whatever a jump
  to the entry has added (`TransfersKept`), and otherwise it stays in its block (`Leaving`).  `Live` is
  the least such set (`LiveInduction`).
* `DriverProofs`, for functions the scan understands, of any length, without dead code: `EspOnPaths` and `PassesMeet`.  That a
  block starts with the ESP of some path would follow from its father's alone if any number of steps
  made a path; but `PathEsps` looks only as many steps far as the function has instructions.  So the
  invariant counts (`ReachedThrough`): a block was reached through instructions of other blocks only,
  each passed once, in as many steps as there are of them; with its own instructions it stays within
  the length of the function, and hands that on to the blocks that take it for a father
  (`BlocksOnPaths`).  What is looked up and missed was missed with the ESP of such a path
  (`MissedOnPaths`).  For the first pass, `ScanInv` says that what an instruction addresses is filed under the ESP
  that the order of the addresses gives it (`Filed`), and the walk of `getResult()` through a map misses none of
  its keys (`KeysFound`).  `PassesMeet` puts the two side by side: where every path has the ESP of the
  linear order, a lookup asks for what was filed.
* `TypeHunterProofs`, for functions the scan understands, of any length, without dead code whose jumps stay inside, made of
  instructions that write whole registers: `ValuesCome` and
  `FlagsCome`.  What the paths to a block bring is defined by counting steps (`OnPaths`); it is also the
  solution of equations, "what comes to a block is what leaves its fathers" (`Solution`, `PathsSolve`),
  because a father is nearer to the entry, so as many rounds as there are blocks change nothing any more
  (`PathsSettle`).  Likewise what a variable stands for is found by following pairs to their ends, which
  always lead to older variables (`Means`, `OriginalsUnfold`).  The two theorems show of every such solution
  that the program keeps to it (`ValuesFollow`, `FlagsFollow`): at an instruction, in the registers a
  block has left, and when a merge begins and ends.  The references speak of what each instruction
  has written; it writes once, when its block is analysed, so what held of a solution before holds after it
  (`SolutionKept`, `SolutionsRemain`).  For that they need which blocks have registers, and
  that their fathers have them, too (`BaseInv`), and of the variables (`IdsInv`): each is older than `varIndex` and
  the pairs are ordered by age (`IdsKnown`), the branches merged are the registers the fathers left (`FathersListed`),
  and in the middle of a merge each register holds, itself or through the variable made for it,
  exactly what the branches so far bring (`AllHeld`), and no two registers share a variable made
  (`MergeSound`).  The bytes written there are those of whole registers, by `HunterAssumption`; the merge
  of a byte then changes nothing.
* `FrameRecoveryProofs`, for every sequence of instructions: `Drift` (by how much the tracked ESP is wrong), `FoundPlaces`
  (the stack variables found are where the accesses looked at are filed), `RecoveryTypeCorrect`, `Numbered` (keys follow
  offsets) and `OneVariable` (the variables partition the frame, and each access looked at is in the one it was filed
  for).  For `Drift` each step moves the belief, the operands pushed and the slack by amounts that add up to what it moves
  the processor's ESP by (`DriftMoves`).  The invariant of the others is that
  together with `FoundWhereAddressed` and with what the maps and the container hold (`MapsInv`).  Of an instruction that is
  no PUSH or POP, XED's memory operand 0 is the operand it names or the word it pushes or pops by itself
  (`ExplicitIsAccess`), such an instruction never moves the belief about ESP (`AccessKeepsESP`), so the place it accesses is
  filed with the drift of that moment (`NotedIsFiled`).  `getResult()` walks a map from its smallest key to the next: the
  key that is k-th in the walk has k - 1 smaller ones (`WalkRanks`), which gives the numbers; and since a variable reaches
  to the next key, no two share a byte (`Sizes`, `Partition`).
* `TypeSolverProofs`, for every list of constraints: `SolverTypeCorrect`, `OneName`, `MemoryNamed`,
  `PairsLead` and `Tightest`.  The invariant gives each variable a representative (`Solved`): the function
  exists that is constant on the equalities walked through and sends each variable to an equal one, the
  left hand of every element is the representative of its class, and so is the right hand
  unless the two were equal already, a class with a memory variable has one for its
  representative, and the pairs lead from memory variable to memory variable towards it.  A replacement changes
  the representative of one class.  For `Tightest` a bound is one of the types seen so far with none
  of them smaller (`Tight`); this needs that types of one size are compared by their levels, which
  makes `Smaller` transitive there.

Only model-checked is the liveness of the block order (`LoopEnds`, `WellFormedAnalysed` and the fairness of
`ImplementsOrder`): liveness under fairness is out of the prover's reach.  The prover does not carry
theorems through an INSTANCE, so what `TypeHunterProofs` needs of one merge and of one instruction is
stated and proved there, in the form the whole function needs, beside `BranchMergeProofs` and `ConstraintGenProofs`.
That `HunterAssumption` excludes byte writes is no convenience: with them the merge may lose what a branch wrote
into a byte (`Take`), and the theorem is false.  The sample of `main.cpp:134` has such a write (SETLE AL), so for it the
theorem says nothing.
The library's induction theorems take an
operator, which the provers cannot instantiate; where a recursive function is proved about, as in
`DepthsAreDistances`, `LiveAnalysed`, `EspOnPaths`, `ValuesCome` and `Numbered`, the induction is carried by a least counterexample
instead.

## 5. Not modelled

`xed2-ia32` is a vendored library: a binary with its headers, manual and examples, about 23 700 of the
28 800 lines of code in the repository.  What it decodes is an input of the models.  What is left of
`source/` and `include/` is wording (`Print()`, `type2str()`, the `printf`s), memory management, and
functions without a body or without a caller: `findHeapVariable()`, `TypeMeet()`, `TypeJoin()`,
`searchResult()`, the second `replaceVariable()`, `resetESP()`, `getResultConstraint()`,
`getOperandConstraint()`.

## 6. Plan

The most important behaviour came first: `BlockOrder` and its abstract specification, the control
flow graph and the function as a whole, registers and constraint generation, the branch merge, the
stack distance, variable recovery, the type system and the solver, and the compositions `TypeHunter`
and `Driver`.  Every part of the code with a state is modelled, and the safety properties the runs check
are proved.  What is left are proofs of what the models say beyond them: for instance that a function with dead
code, or with byte writes, loses no more than `Take` and `MergeVerdict` explain, and that the
refinement of `BlockOrderAbs` holds of the function as a whole.
