# Formal models of gnuSMV

TLA+ models of the gnuSMV symbolic model checker (`src/`), checked with TLC
and, where it matters most, proved with TLAPS.

## The system

gnuSMV reads an SMV-like model. It compiles its expressions into ADDs (the
`BECompiler` walker in `src/src/model/compiler.cc` and
`src/src/model/compiler/internals.cc`), using bit-level encodings of the
variables (`src/src/enc/enc.cc`). It then answers commands. The central
command, `reach` (`src/src/cmd/commands/reach.hh`), decides whether a target
condition is reachable. It runs SAT-based bounded model checking: two
strategy threads race, a forward and a backward one, and each owns one SAT
engine.

| Part | Source | Interaction |
|---|---|---|
| Reachability race | `src/unnamed/part_001` (backward strategy); forward strategy, `sync_set_status`, `Engine`, `EngineMgr` outside `src/` | The threads share the reachability status, the `WitnessMgr` and `EngineMgr::interrupt()` |
| `reach` command | `src/src/cmd/commands/reach.hh` | Collects the target and the constraints, runs the race, prints the status |
| Compiler | `compiler.cc`, `internals.cc`, `fixed.cc` | Produces the compilation units the engines assert |
| Encodings, CNF | `src/src/enc/enc.cc` | Map variables to ADD bits and ADDs to clauses |
| Evaluator | `src/src/expr/expr_eval.cc` | Evaluates expressions over a witness |
| Witness | `src/src/witness/witness.cc` | Time frames of variable values |
| Init consistency | `src/src/algorithms/fsm/init.cc` | One solve of INIT ∧ INVAR |
| Options, main | `src/unnamed/part_000`, `src/src/main.cc` | Word width, verbosity, SIGTSTP handler |

## Modules

### `Reach`: the BMC race

**State.**

- `cmd`: the command's target and its forward, backward and global
  constraints. Each one is a set of states.
- `pc[e]`: the label thread `e` is at.
- `k[e]`: the depth thread `e` has reached.
- `asserted[e]`: the formulas in `e`'s engine. Each formula is a kind, a time
  frame and a group.
- `groups[e]`: which groups of the engine are enabled.
- `registered` and `interrupted`: the `EngineMgr` state.
- `status`: the shared reachability status.
- `witnesses`: the `WitnessMgr` records.
- `witness`: the witness set on the `Reachability` object.

**Actions.** Each backward action is one segment of `backward_strategy`
between two solves:

| Action | Lines | What it covers |
|---|---|---|
| `BackwardStart` | 33–54 | Goal constraints |
| `BackwardGoalCheck` | 56–76 | Goal consistency solve |
| `BackwardWitnessCheck` | 78–125 | INIT in a new group, solve, race for the status, record the witness |
| `BackwardUnroll` | 127–152 | Invert the group, unroll, add uniqueness, re-check the status |
| `BackwardProofCheck` | 154–184 | Proof solve and loop condition |
| `Cleanup` | 186–193 | `EngineMgr::interrupt` |

The forward actions mirror these at times 0, 1, …. They are modelled from the
design, because `forward_strategy` is not under `src/`.

**The SAT engine.** `solve()` answers SAT iff some assignment of states to
the asserted time frames satisfies every formula of the main group and of the
enabled groups. An interrupted engine may return `STATUS_UNKNOWN` at any solve.
The interrupts modelled are those a finishing strategy issues through
`EngineMgr::interrupt`. The user's SIGTSTP is not modelled: a second press
within one second terminates every solver and leaves the command
undecided.

**The model under analysis** is abstracted to finite sets: `States`,
`InitStates`, `Trans` and `Invar`.

### `ReachVerdict`: the abstract specification

The status starts `UNKNOWN` and moves once, and only once, to the verdict.
`Reach` implements it under the refinement mapping
`verdict <- Verdict`. `Verdict` is the truth, computed by the recursive
function `ReachableIn`.

### `ReachRace`: what the race promises, short of completeness

This is spec P5 (witness correctness) and P7 (status monotonicity) as a
state machine over `cmd`, `status` and `witness`:
- the status leaves `UNKNOWN` once;
- `Reachable` sets it to REACHABLE together with a witness `w` such that
  `IsWitness(cmd, w)` holds: INIT at frame 1, TRANS between consecutive
  frames, INVAR at every frame, and the target at the last frame;
- `Unreachable` sets it to UNREACHABLE and leaves the witness empty.

Nothing else ever changes `cmd`, `status` or `witness`. `Reach` implements
it under the identity mapping (`RR == INSTANCE ReachRace`,
`RaceSpec == RR!Spec`). Unlike `ReachVerdict`, it does not say the verdict
is the true one, so it needs neither `ReachableIn` nor liveness. It is the
part of the contract that TLAPS can prove.

### `Evaluator`: the expression evaluator

This module models `Evaluator` in `src/src/expr/expr_eval.cc`.

**State.**
- `values`: the value stack (`f_expr_stack`).
- `times`: the time-frame stack (`f_time_stack`).
- `work`: the walker's pending pre-, in- and post-order visits.
- `body`, `time0`, `witness`: the input.

**Data.** An expression is a record tree. Two widths are kept apart:
- `value_t` is a `ValueBits`-bit two's complement integer, a machine word
  (its typedef is not under `src/`). Every evaluator result goes through
  `Wrap`, and `/` and `%` truncate as in C.
- A variable is encoded in `Width` bits (4 per digit). Its witness value is
  the unsigned number `AlgebraicEncoding::expr` rebuilds (`EncValue`).
  The encoded formula the solver decides computes in these words and drops
  the carry out.

**Actions.** One per kind of visit:
- `WalkPreorder`: the pre-order hooks. `next` and `prev` push a shifted time
  frame there.
- `WalkLeaf`: `walk_leaf`, covering constants, variables read from the
  witness at the current frame, and defines expanded in place. A variable
  missing from the witness fails the `assert`.
- `WalkPostorder`: the post-order hooks through `ApplyBinary`, plus `not`,
  `ite` and `cond`.
- `Finish`: `process` pops the result.

**Reference.** `RefIn` is a direct recursive definition of each
operator's meaning. Its arithmetic fits the result either to `value_t`
(`Ref`) or to the encoded words (`EncRef`).
- `EvalCorrect` compares the popped value with `Ref`. When a variable read
  is missing, it instead requires the `assert` to fail. It is about the
  walker: pop order, time frames and defines.
- `EvalMatchesEncoding` compares it with `EncRef`. It is about whether
  the evaluator agrees with the model the witness came from (spec P5).

### `Compiler`: the compiler's side tables

This module models the side tables of `src/src/model/compiler/internals.cc`.
The walker runs over a DAG of nodes. A node is a Boolean or algebraic
variable, an algebraic binary operator, or an algebraic ITE. A DD is a
variable digit or a fresh auto DD.

**State.** `adds` (`f_add_stack`), `micros` (`f_micro_descriptors`),
`muxmap` (`f_mux_map`, keyed by the toplevel expression), `cache`
(`f_cache`) and `acts` (the activation clauses).

**Actions.**
- `Hit`: `cache_miss` on a hit replays the entry. It pushes the DDs,
  re-appends the micro descriptors and `insert`s the MUX map.
- `Leaf`: `push_dds` followed by `post_node_hook`.
- `Operator`: `register_microdescriptor` over fresh `z` DDs.
- `Ite`: one `MuxDescriptor` per digit, with a fresh aux DD each.
- `PostProcessMuxes`: the activation chain, with the code's `prev = act`.

Every node ends with `PostNodeHook`. That hook caches the *whole* tables
accumulated so far, as the code does.

The per-operator walker rules are not under `src/`; they follow spec 4.5
(`Expand`, `Ite`, `Init` are marked `spec_modelled`). The cache lives for
one `process` call, as the spec says. `clear_internals` does not clear
`f_cache` (see the hazards).

**Assumptions.** `KindAssumption` and `ArgsAssumption` state that the
DAG is type checked. An operator has two algebraic operands. An ITE has a
Boolean condition and two algebraic branches.

**Properties.**
- `NoDanglingDDs`: every auto DD on the stack or in a descriptor is the
  output or aux bit of some micro or MUX descriptor. It is proved in
  `CompilerProofs`.
- `MuxExclusive`: at the end, each assignment of the Boolean variables
  activates at most one aux bit per toplevel.
- `CacheReproduces`: spec I5, stating that a cache entry equals what
  compiling its node cold gives (`ColdMicros`, `ColdMuxes`).

### `BECompiler`: the compiler's walker on Boolean formulas

This module models the walker of `BECompiler` in
`src/src/model/compiler.cc` on formulas over Boolean variables.

**State.**
- `adds`: the ADD stack (`f_add_stack`).
- `times`: the time-frame stack (`f_time_stack`).
- `types`: the type stack (`f_type_stack`).
- `encodings`: `f_encodings`, from `<<variable, time>>` to the bit of its
  Boolean encoding.
- `bitval`: the value each bit takes.
- `work`: the walker's pending visits.
- `body`, `time0`, `calls`: the current call of `process` and how many
  calls have been made.

ADD operations are pointwise. So an ADD is modelled by its value, 0 or 1,
under one assignment of the bits. A bit's value is chosen when
`make_encoding` creates it, so every assignment is explored.

**Actions.**
- `Init` and `Process`: `process` clears the four stacks, pushes the time
  frame and walks the body. `f_encodings` is not cleared, so a second call
  reuses the first call's encodings.
- `WalkPreorder`: the pre-order hooks. `cache_miss` always misses, because
  nothing in `compiler.cc` fills the memo. `next` pushes the next frame.
- `WalkLeaf`: `walk_leaf`. For a variable, it looks up or makes and
  registers the encoding of `<<var, time>>` and pushes `dds()[0]`. For a
  define, it compiles the body in place.
- `WalkPostorder`: the Boolean branches of the logical hooks (`iff` calls
  `xnor`), the monolithic branches of `eq`, `ne` and the relationals (a
  Boolean is monolithic), `not`, `ite`/`cond`, and `next`, which pops the
  frame.
- `Finish`: the sanity assertions of `process`. The constant `Assertions`
  says whether the build keeps `assert`.

**Properties.**
- `CompileCorrect`: after the walk, the one ADD left is the formula's
  truth at the call's frame. `Ref` reads each variable through the bit
  `f_encodings` gives it.
- `EncodingsShared`: the encodings outlive `process` (spec 3, lifecycles).
  The ghost variable `returned` keeps the ADDs `process` handed to its
  caller. Every one of them, from this call or an earlier one, must still
  denote its formula under the encodings now registered. Its keys must
  still be registered, too. If `process` cleared `f_encodings`, the second
  call would give a variable new bits, and the first result would no
  longer be read through the same bits.
- `ProcessSane`: the sanity assertions hold.

**Left out.** Constant leaves are left out, because
`push_const_value_algebraic` and `push_const_value_boolean` are not
defined under `src/`. The monolithic and algebraic leaves are left out
too; the hazards list what they do.

### `AlgebraicOps`: the algebraic paths of the post-order hooks

`src/src/model/compiler.cc` holds the `is_binary_algebraic` branches of
`walk_<op>_postorder` for these operators:
- arithmetic: `add`;
- bitwise: `and`, `or`, `xor`, `xnor`, `implies`;
- equality: `eq`, `ne`;
- relational: `gt`, `ge`, `lt`, `le`.

**How the hooks are modelled.** ADD operations are pointwise. A hook is
therefore modelled by what it computes at one assignment: every DD becomes
the digit it evaluates to there.

**Digit order.** A hook pops `rhs[width..1]` and `lhs[width..1]`. Its digit
loop then runs from `width` down to 1. Digit `width` is the least
significant, since the adder's carry starts there.

**State and actions.** `PostOrder` is the one action: it runs `Hook(op)`
on the operands chosen by `Init`.

**Property.** `OpCorrect` reads the pushed DDs as the digits the loop
produced and compares them with `Ref`. `Ref` is the operator's meaning on
the integers the operands encode: arithmetic modulo `Base^Width`, bitwise
logic, and 0/1 relations.

**Code taken by intent.**
- The code writes through uninitialised `ADD* lhs[width]` arrays, one past
  their end.
- `eq`, `ne` and the relational hooks redeclare `tmp` (`ADD tmp *=`), which
  does not compile.

The model takes the evident intent in both cases and lists the undefined
behaviour as a hazard. The module uses `Bitwise` and is checked by TLC
only.

### `Encoding`: variable encodings

This module models `src/src/enc/enc.cc`:
- `make_bit` and `make_monolithic_encoding`. The first bit made is the most
  significant.
- The Boolean encoding, and the non-temporary algebraic encoding (one
  4-bit monolithic DD per digit, its bits appended to `f_bits` in order).
- The enum encoding, whose constructor drops the DD it builds.
- `bits_begin`/`bits_end`, `range_repr_bits`, and both `expr` decoders.

**Data.** Bits are numbered 1, 2, … in the order the manager hands them
out.

**Actions.** The `Make*` actions are `EncodingMgr::make_encoding` for each
kind. That code is not under `src/`, so these actions are
`spec_modelled`.

**Properties.**
- `DigitBits`: the iterators of digit `k` cover exactly digit `k`'s bits.
- `EnumBitsSuffice`: every literal's number fits in the enum's bits, and
  no bit is shared between encodings.
- `EnumRoundTrip`: an enum value decodes back.
- `AlgebraicRoundTrip`: spec P8, least-significant-first decoding.

### `Witness`: time frames

This module models `src/src/witness/witness.cc`.

**State.**
- `heap`: the `TimeFrame`s `new_frame` allocates.
- `frames`: the copies pushed on `f_frames`.
- `given`: the object `new_frame` returned for each step.

**Actions.**
- `NewFrame`: `Witness::new_frame`.
- `WriteValue`: the extraction (spec 4.7, not under `src/`) writes a value
  with `set_value`, which is `std::map::insert`, into the frame it was
  given.

`NoValue` is a model value, distinct from every value.

**Properties.**
- `WitnessRecords`: what is written through the returned frame is in the
  witness.

## Runs

### The BMC race

- **`reach_race`** (`MCReach.cfg`, pass). The model has four states: 0 is
  initial, and the transitions are 0→1→2→1, 1→0 and 3→3. Six commands are
  checked: targets {1}, {2} and {3}, each with and without a global
  constraint that cuts off 2. Both strategies run. These cases cover all of
  the following:
  - reachable at depth 1 and at depth 2;
  - unreachable by exhausting the unique paths (target 3);
  - the goal check trivially UNSAT (target 2 under the constraint);
  - wins, losses and interrupts for each thread.

  The run checks five properties:
  - `VerdictSpec` (refinement, liveness included);
  - `RaceSpec` (refinement of `ReachRace`);
  - `WitnessValid`;
  - `SingleWitness`;
  - `DepthBound`.

  The run reaches 559 states, and every action and every disjunct fires.
- **`reach_backward_constraint`** (`MCReachBackward.cfg`, violation). The
  backward strategy runs alone, with the backward constraint {0, 2} and
  target {2}. The code asserts the constraint only at the goal frame
  (`part_001:44-48`). So it reports REACHABLE along 0→1→2, although 1 violates
  the constraint. The design says backward constraints apply at every frame
  the backward strategy unrolls.

`CHECK_DEADLOCK FALSE`: the command ends when both threads are done, so a
terminal state is expected. The liveness part of `VerdictSpec` still demands
that the verdict is reached.

### Evaluator, compiler, encodings, witness

- **`eval_ops`** (`MCEvaluator.cfg`, pass, 356 states, `EvalCorrect`).
  - The expressions use every binary operator except `mul` and `rshift`,
    plus `next`, `prev`, a define and a conditional.
  - `ValueBits` is 8 and `Width` is 4.
  - They run at time frames 0 and 1 over two witnesses of frames 0..2:
    - a complete witness;
    - one that lacks `x` at frame 1.
  - Frame 1 is what makes `prev` and the define count:
    - `prev y` reads `y@0`;
    - the define `d = x + next x`, reached inside `eq`, reads `x@1` and
      `x@2`.
    Both are evaluated to a value there. At frame 0, `prev` reads frame -1,
    which no witness has, so the `assert` path is taken.
- **`eval_width`** (`MCEvaluatorWidth.cfg`, violation,
  `EvalMatchesEncoding`).
  - The evaluator computes in `value_t`, wider than the 4-bit encoding.
  - So `1 << (9 / 2)` is 16 to the evaluator, but 0 in the encoded word.
  - Likewise, with x = 9 and y = 12, `x + y = 5` holds in the 4-bit model
    but evaluates to false. A witness the solver returns for such a target
    fails spec P5.
- **`compiler_cache`** (`MCCompiler.cfg`, pass, 120 states, `NoDanglingDDs`).
  The DAGs share operator nodes, so cache hits happen under one toplevel.
  They nest ITEs three deep, with `Width = 2`. `NoDanglingDDsTheorem`
  proves the same invariant for every width and every type-checked DAG.
- **`compiler_mux`** (`MCCompilerMux.cfg`, violation, `MuxExclusive`). Node
  11 is `ite(c1, ite(c2, x, y), ite(c3, y, x))`. Its chain has six MUX
  descriptors under one toplevel. With `prev = act`, the assignment with
  c1 and c3 true activates two aux bits of the same digit.
- **`compiler_cache_unit`** (`MCCompilerCache.cfg`, violation,
  `CacheReproduces`). The entry of a leaf compiled after an operator holds
  that operator's micro descriptor. Spec I5 says an entry reproduces
  compiling its key alone.
- **`alg_ops`** (`MCAlgebraicOps.cfg`, pass, 2560 states, `OpCorrect`).
  - Operators: `and`, `xor`, `xnor`, `eq`, `ne`.
  - Two-digit operands whose digits are 0, 1, 8 and 15. These values are
    the boundaries of a nibble and its high bit.
- **`encoding`** (`MCEncoding.cfg`, pass, 400 states: `DigitBits`,
  `EnumBitsSuffice`). It covers every sequence of three encodings drawn
  from:
  - Boolean;
  - one- or two-digit algebraic;
  - enums of 1 to 4 literals. Three literals is the case where a short
    `range_repr_bits` fails.
- **`encoding_enum`** (`MCEncodingEnum.cfg`, violation, `EnumRoundTrip`).
  `EnumEncoding` leaves `f_dv` empty, so `expr` reads `f_dv[0]` past the end.
- **`witness_records`** (`MCWitnessRecords.cfg`, violation,
  `WitnessRecords`). The first write through the frame `new_frame` returned
  is missing from `f_frames`.

- **`becompiler_walk`** (`MCBECompiler.cfg`, pass, 50,160 states,
  `CompileCorrect`, `EncodingsShared`). The build is NDEBUG (`Assertions = FALSE`).
  - There are two calls of `process`, at frames 0 and 1. Between them,
    the formulas use every logical, equality and relational operator, plus
    `not`, `ite`/`cond` and `next`.
  - A define reads the next frame and is itself used under `next`, so
    frames nest two deep.
  - The second call meets encodings that the first call made, while the
    first call's result is kept in `returned`.

**Further counterexample configurations.** The project lists at most
twelve runs, so these cfgs are kept beside the listed runs. Each makes TLC
report a code bug, listed under the hazards:

| Cfg | What TLC reports |
|---|---|
| `MCEvaluatorMul.cfg` | `mul` divides |
| `MCEvaluatorShift.cfg` | `rshift` shifts left |
| `MCAlgebraicOpsOr.cfg` | algebraic `or` is `BWTimes` |
| `MCAlgebraicOpsImplies.cfg` | `implies` is `~a xor b` |
| `MCAlgebraicOpsRel.cfg` | relationals add up per-digit comparisons |
| `MCAlgebraicOpsAdd.cfg` | the adder's carry is `Base < tmp`, so `0x01 + 0x0F` is compiled to `0x00` |
| `MCBECompilerSanity.cfg` | with `assert` kept, every `process` aborts: nothing pushes `f_type_stack`, yet `process` asserts it holds one entry |
| `MCEncodingAlg.cfg` | `AlgebraicEncoding::expr` is most-significant-first, against spec P8 |

**Mutants.** Every property of a passing run is broken by a plausible
mutant of the code it is about:

| Property | Mutant |
|---|---|
| `EvalCorrect` | `sub` with swapped operands |
| `NoDanglingDDs` | `register_muxdescriptor` not creating a missing entry |
| `OpCorrect` | `eq` summing its digit equalities |
| `CompileCorrect` | `gt` computing `lhs.LT(rhs)` |
| `DigitBits` | `bits_end` one short |
| `EnumBitsSuffice` | `range_repr_bits` one short |
| `EncodingsShared` | `process` also clearing `f_encodings` |

The five `reach_race` properties are covered by the mutants of `Reach`.
`RaceSpec` and `WitnessValid` are broken by reading the backward witness
in time order, not reversed. The mutant that records the witness outside
the race leaves `RaceSpec` intact on this model, because both threads read
off the same shortest witness; it breaks `SingleWitness`.

**Bounds.** Each bound is the smallest that reaches the case its
property is about:
- three nested ITEs for `prev = act`;
- a digit sum of exactly 16 for the carry;
- three literals for `range_repr_bits`;
- two frames for `new_frame`.

## Fairness

**Reach.** `WF` on each thread. The strategies are OS threads that run
until they leave their loop, and nothing in the code blocks one thread on
another.

**Evaluator, Compiler and BECompiler.** These are sequential walkers. They carry
`WF_vars(Next)`, but no property of their runs depends on it.

## Proofs

### `ReachProofs`

Each theorem below holds for all values of the constants:

- **`SingleWitnessInvariant`**: `Spec => []SingleWitness`. `SingleWitness` is
  inductive as it stands. The proof rests on the lemma `ThreadStatusStep`:
  every step of every thread changes the shared status and witness state in
  one of only three ways:
  - it leaves them unchanged;
  - it performs a `sync_set_status` alone;
  - it performs a `sync_set_status(REACHABLE)` together with a witness
    recording, guarded by the same race.
- **`StatusStableProperty`**: a decided status never changes.
- **`TypeCorrect`**: `Spec => []TypeOK`. The proof goes through the
  inductive invariant `IInv == TypeOK /\ FramesAsserted`. `FramesAsserted`
  says that every frame a thread has unrolled carries an INVAR constraint in
  its engine. Without it, nothing shows that a witness read off a solver
  model is a sequence of states.

`VerdictSpec` is checked by TLC only. It involves liveness, and both
halves of its safety need induction over data:
- a valid witness puts the target in `ReachableIn[...]`;
- an UNSAT proof check means no path exists.

Unfolding the recursive function `ReachableIn` itself needs the library's
recursive-definition theorems, which take an operator parameter.

### `ReachPathProofs`

These theorems reason about what a SAT model means. They hold for every
model, command and set of strategies:
- **`WitnessPathInvariant`**: `Spec => []WitnessInv`. A witness set on the
  Reachability object satisfies `WitnessPath`: it starts in INIT and ends in
  the target and in the backward constraints, it steps by TRANS, and every
  state satisfies INVAR and the global and forward constraints.
- **`WitnessValidTheorem`**: `Spec => []WitnessValid`, under the hypothesis
  that no command gives a backward constraint. That hypothesis holds in run
  `reach_race`. It is not an `ASSUME`: with a backward constraint,
  `WitnessValid` is false. The backward strategy asserts that constraint at
  the goal frame only, and `reach_backward_constraint` shows the result.
  `WitnessPathInvariant` is what holds then.
- **`DepthBoundTheorem`**: `Spec => []DepthBound`.

All three follow from the inductive invariant
`PInv == IInv /\ PathAsserted /\ WitnessInv /\ DepthInv`. TLC checked `PInv`
on the `reach_race` model and on the backward-constraint model before
it was proved. The conjuncts:
- **`PathAsserted`** (through `FramesHeld`) lists the formulas each engine
  holds at the frames `0 .. Depth(e)` it has unrolled:
  - global constraints at every frame;
  - pairwise uniqueness of the frames;
  - TRANS between consecutive frames;
  - INIT and the forward constraints at frame 0 (forward), or the target
    and the backward constraints at `UINT_MAX` (backward).
  `WitnessPath` is not inductive without it. It is the only link between a
  solver model and the model under analysis.
- **`DepthInv`** says a thread about to look for a witness, or any forward
  thread, has `k < Cardinality(States)`.

The argument for `DepthInv`:
- A thread deepens only after a SAT answer over its unrolled frames.
- By `UniqueFrames` (the pigeonhole principle, `FS_PigeonHole`), a model of
  `D + 1` pairwise distinct frames needs `D < Cardinality(States)`.
- That gives `SatDepth`.

The witness half rests on the lemmas below, and `NextPInv` combines them
action by action:
- `ModelUnary`, `ModelTrans` and `ModelUniq`: what an active formula says
  about the model;
- `NewGroupEnabled`: the group `new_group` opens is in force;
- `ForwardWitnessPath` and `BackwardWitnessPath`: the forward and the
  reversed backward extraction give paths.

### `ReachRaceProofs`

- **`RaceRefinement`**: `Spec => RaceSpec`, i.e. the race implements
  `ReachRace`. It is proved in the standard way:
  - the initial states map to `RR!Init`;
  - under `PInv` and `PInv'`, every step maps to a `Reachable` step, an
    `Unreachable` step or a stutter.

  The step lemma `ThreadRaceStep` says a thread either leaves `cmd`,
  `status` and `witness` alone, or decides UNREACHABLE, or decides
  REACHABLE with a non-empty witness. All of this happens under the
  `sync_set_status` guard. `WitnessInv'` then makes the witness one that
  satisfies P5.


### `WitnessProofs`

These theorems hold for every set of keys and values and every number of
frames:

- **`TypeCorrect`**: `Spec => []TypeOK`. `TypeOK` is inductive. It includes
  the conjunct that every `given[i]` is an allocated frame, which the
  `WriteValue` step needs.
- **`WitnessNeverRecords`**: `Spec => []FramesUnwritten`. Every frame in
  `f_frames` stays empty, whatever the extraction writes. This states the
  `witness_records` finding for every instance, not only the two frames of
  that run.
  - The invariant is inductive as it stands.
  - `new_frame` appends an empty copy.
  - A write only changes `heap`, the objects `new_frame` returned.

### `EncodingProofs`

These theorems hold for every set of widths and literal sets and any number
of encodings:
- **`DigitBitsTheorem`**: `Spec => []DigitBits`.
- **`EnumBitsSufficeTheorem`**: `Spec => []EnumBitsSuffice`.

Neither property is inductive on its own, because neither says what an
encoding looks like. Both rest on the invariant `IInv`
(`IInvInvariant`), which states:
- every encoding is one that `make_encoding` builds from some counter
  value (the set `Made`);
- its bits lie between 1 and the manager's counter;
- no two encodings share a bit.

A new encoding takes the bits above the counter (`FreshBits`). So
appending it keeps all three conjuncts (`AppendKeeps`). `DigitBits` then
follows from `AlgebraicDigitBits`, which is `SubSeq` arithmetic on a fresh
encoding. The enum half follows from `EnumNumbersFit`.

`EnumNumbersFit` uses the assumption `RangeReprAssumption`: every literal
count `n` has a bit count `b` with `2^(b-1) <= n < 2^b`. That is an
arithmetic fact, but its proof is an induction, which is out of the
provers' reach. TLC evaluates the assumption on every run of `MCEncoding`.

### `CompilerProofs`

- **`NoDanglingDDsTheorem`**: `Spec => []NoDanglingDDs`. It holds for every
  width and every expression DAG that satisfies the typing assumptions of
  `Compiler`:
  - `KindAssumption`: every node has a kind and every body is a node;
  - `ArgsAssumption`: an operator has two algebraic operands, and an ITE
    has a Boolean condition and two algebraic branches.

  The compiler only compiles type-checked expressions
  (`is_binary_algebraic`, spec 4.5.5), so both assumptions hold for every
  `process` call. TLC evaluates them on every `MCCompiler` run.

`NoDanglingDDs` is not inductive on its own, for two reasons:
- `Operator` and `Ite` read the add stack with `Top`, `Pop` and an index.
  That is only meaningful when the stack holds the operands.
- A cache hit replays an entry's DDs and descriptors, so the entries must
  be as clean as the tables.

The inductive invariant is
`IInv == TypeOK /\ StackHeights /\ CacheClean /\ NoDanglingDDs`. TLC
checked it on all three `MCCompiler` models before it was proved.
- **`StackHeights`** says there is a height function `h` over the pending
  visits. `h[p]` is the height of the add stack when visit `p` starts.
  `h[1]` is the current height, and each visit changes the height by its
  `Effect`:
  - a pre-order visit of `n` leaves `DigitsOf(n)` DDs;
  - a post-order visit pops `ArgDigits(n)` DDs and pushes `Width`.

  A post-order visit finds `h[p] >= ArgDigits(n)`. Every constraint is
  local to two neighbouring visits, so no sum over the work list is
  needed, and no induction.
- **`CacheClean`** says every fresh DD a cache entry uses or defines is
  defined by the current tables. The tables only grow, so this survives
  every step. `post_node_hook` copies the whole tables, so a new entry is
  clean once `NoDanglingDDs'` holds.

Each action has its own step lemma (`HitStep`, `LeafStep`, `ExpandStep`,
`OperatorStep`, `IteStep`, `PostProcessStep`). Each also shows that the
step keeps every defined DD defined. `IInvInductive` combines them. The height function is rebuilt by two lemmas:
- `PopHeights`: a finished visit shifts it;
- `ExpandHeights`, through `SpliceHeights`: an expanded operator splices in
  its operands' heights.

The table lemmas (`RegisterMuxes`, `InsertMuxes`, `DefMicro`, `UseMicro`,
`DefMux`, `UseMux`, `UsePush`) say what each table operation adds to the
defined and used DDs.

Two more theorems follow from the same invariant:
- **`TypeCorrect`**: `Spec => []TypeOK`. The add stack holds DDs, and every
  cache entry holds as many DDs as its node has digits.
- **`DefinedGrows`**: `Spec => [][DefinedDDs \subseteq DefinedDDs']_vars`.
  No step unregisters a micro or MUX descriptor. The registrations and the
  insert of `cache_miss` only add, and `clear_internals` is not part of a
  `process` call. A DD that was defined once therefore stays defined, which
  is why a cache hit can reuse DDs from an earlier visit.

**Parsing note.** tlapm reads `UNION A \cup B` as `UNION (A \cup B)`.
SANY and TLC read it as `(UNION A) \cup B`. `DefinedDDs` and `UsedDDs` in
`Compiler` therefore carry explicit parentheses. They give the reading TLC
always used, so no run changed.

### What stays with TLC

TLAPS cannot reach the following, so TLC checks them:
- liveness, and anything that needs induction over data, such as the
  recursive references `Ref` of `Evaluator` and `BECompiler` and
  `ReachableIn` (hence `VerdictSpec`);
- every module that uses `Bitwise` or `RECURSIVE` (`Evaluator`,
  `BECompiler`, `AlgebraicOps`), because the provers lose their SMT backend there.

## Not modelled

**Options manager** (`src/unnamed/part_000`). It is outside the spec's
scope. The constructor sets `f_help` and `f_word_width` but not
`f_color` or `f_started`. Their declarations (`opts.hh`) are not in the
repository, so the model cannot tell whether a default initialiser
exists. If none does, two things go wrong:
- the `TRACE` at `main.cc:176`, before the parse, can read the empty
  options map;
- `color()` is indeterminate without `--color`.

Both are listed as hazards.

**Main and SIGTSTP handler** (`main.cc`). The handler's decision rests on
wall-clock time. Its effect, `EngineMgr::interrupt`, is modelled in
`Reach`. Its calls that are not async-signal-safe are a deadlock hazard.

**`init.cc`.** It is one solve and a status mapping.

**CNF conversion** (`enc.cc` 211–335). It is driven by a `dd_walker`
whose rules are not under `src/`.

**Also not modelled:**
- temporary algebraic encodings, the signed and fractional flags, and
  `ArrayEncoding`;
- the monolithic ADD paths of the compiler and its constant leaves. Their
  ADD constants (`push_const_value_*`) are not under `src/`.
- `fixed.cc`. It holds empty stubs; the body of `fixed_ite` is under
  `#if 0`.
- the `reach` command's printing;
- logging;
- the parser;
- ExprMgr interning, which is not under `src/`;
- build scripts.

## Plan for later work

1. Chain the algebraic hooks through the walker's stack. This would expose
   the digit push/pop reversal (`compiler.cc:166`) and the stack imbalance
   of `lshift`.
2. Model the remaining algebraic and monolithic post-order hooks: `sub`,
   `mul`, `div`, `mod`, the shifts, `neg`, `not` and `ite`. The Boolean
   `not` and `ite` are in `BECompiler`.
3. Compose `Encoding` with `AlgebraicOps`, so that the compiler's digit
   order is checked against the decoder's.
4. Model the reach command's forward strategy in more depth, and the
   refinement of `Witness` by an abstract trace store.
