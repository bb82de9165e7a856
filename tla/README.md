# TLA+ models of the ocs2 LQ solver interface

This directory holds TLA+ models of the parts of this ocs2 snapshot that
decide whether the LQ subproblem solver is correct:

- the HPIPM interface (`src/ocs2_sqp/hpipm_catkin/src/HpipmInterface.cpp`);
- its workspace management;
- its transcription of the LQ approximation into HPIPM's QP;
- its extraction of the feedback policy and the value function.

It also covers:

- the quadratic cost;
- the soft-constraint copy semantics;
- the DDP correctness test: its fixture's index walk, and the partitioned
  DDP loop it runs (globalization loop and partition executor, from the
  spec, since the DDP sources are not in the tree).

The MPC_OCS2 thread hand-off, the loopshaping filter and `printStatus` are
listed but not modelled; "Not modelled" says why.

It also lists the other parts of the source tree and what is planned for
them. Every run below is checked with TLC. `PROJECT.json` lists the runs,
the mutants that show each property can fail, the source lines each
definition models, the findings and the hazards.

## The system

| Part | Source | State | Operations |
|------|--------|-------|------------|
| MemoryBlock | HpipmInterface.cpp 44-84 | `ptr_`, `size_` | `reserve(size)`: grow only; free, then malloc; throw `bad_alloc` on failure |
| Workspace (Impl) | 91-175, 419-450 | `ocpSize_`, `settings_`, five MemoryBlocks and the HPIPM structures `dim_`, `qp_`, `qpSol_`, `arg_`, `workspace_` | constructor, `resize(size)`, `resize(size, settings)` → `initializeMemory` |
| Transcription | 177-282 | pointer arrays into the caller's data | `solve(x0, dynamics, cost, constraints, ...)` |
| HPIPM IPM | external C library | `qpSol_`, `workspace_` | `d_ocp_qp_ipm_solve` |
| Extraction | 284-369 | reads `qpSol_` and `workspace_` | `getStateSolution`, `getRiccatiZeroStage`, `getRiccatiFeedbackFeedforward`, `getRiccatiCostToGo` |
| Diagnostics (not modelled) | 371-417 | none | `printStatus` |
| MPC_OCS2 (not modelled) | `ocs2_mpc/.../MPC_OCS2.h` | worker thread, mutex, `activateOCS2_`, atomic `terminateOCS2_`, condition variable, collected SLQ data | `run` (MPC thread), `runOCS2` (worker), destructor; only the declarations are in the tree |
| DDP loop and partitions | not in the tree (spec 4.5, 4.6, 5) | per-partition value functions, nominal trajectory, iteration count | backward sweep per partition, barrier, stitching, rollout and line search, convergence test |
| DDP correctness test | `ocs2_ddp/test/CorrectnessTest.cpp` | test fixture | SLQ/ILQR × line search/LM × constrained × 1 or 2 partitions, `maxNumIterations = 2 + (P-1)` |
| Loopshaping filter (not modelled) | `LoopshapingFilterDynamics.h` 1-89 | `filter_state_`, a shared `ode_fun_` bound to `this` | `integrate(dt, input)`, set/get filter state |
| ModeSchedule | same file, 90-167 | event times, modes | declarations only |
| StateInputSoftConstraint | same file, 168-250 | `constraintPtr_` (unique_ptr), `penalty_`, `constraintOrder_` | two constructors, copy constructor, `clone`, `getValue`, `getQuadraticApproximation` |
| QuadraticCostFunction | `ocs2_core/.../QuadraticCostFunction.h` | `x_deviation_`, `u_deviation_`, Q, R, nominal and final points | `setCurrentStateAndControl`, `evaluate`, derivative getters, terminal cost |
| Dummy node | `Dummy_Double_Slit_Node.cpp` | none | ROS `main` wiring |

How the parts interact:

1. The SQP solver (not in the tree) sizes the interface with `resize`.
2. Each iteration it calls `solve` with per-stage LQ data.
3. The interface writes `qp_` and HPIPM fills `qpSol_` and `workspace_`.
4. The solver reads the trajectory and the Riccati quantities back through
   the getters.

Stage 0 has no state in the QP (`nx[0] = 0`), so:

- `solve` folds the fixed `x0` into the stage-0 data;
- `getRiccatiZeroStage` rebuilds the stage-0 policy and value from the
  stage-1 quantities and HPIPM's stage-0 factor `Lr0`.

What makes the code hard:

- the early return that compares against values stored before the
  allocations;
- the dependence of the workspace size on settings applied just before it;
- algebra that only misbehaves with nonzero `x0`, coupled inputs or
  off-diagonal factors.

## Modules

### `HpipmWorkspace` (instantiated by `MC_HpipmWorkspace`)

This module models `MemoryBlock` and `Impl::initializeMemory` with the public
constructor and `resize` overloads.

State:

| Variable | Models |
|----------|--------|
| `ocpSize_`, `settings_` | the members of the same names |
| `blk[b]` | each MemoryBlock: `size_`, `ptr_` as the generation of the malloc that produced it (0 is nullptr), the bytes really allocated at `ptr_`, and the malloc count |
| `obj[b]` | the HPIPM structure created in block `b`: the pointer it was created at and the dimensions it was created for; for the workspace, the `iter_max` it was sized for |
| `argv` | the contents of `arg_` |
| `pc` | where `initializeMemory` is: one block per step, in code order; `"gone"` once `bad_alloc` was thrown |
| `calls`, `req` | the caller: calls made, and the last request |

Data are abstracted:

- an OcpSize is `[N, nx0, nu]`;
- a Settings value is `[mode, iter_max]`, where `iter_max` stands for the
  individual setters and is the one setting the workspace size depends on;
- HPIPM's memsize functions are constant operators.

An allocation failure is fatal (spec section 7), so `bad_alloc` ends the
behaviour: the model never uses an object after it threw.

Actions:

| Action | Models |
|--------|--------|
| `InitializeMemory` | lines 96-103: normalise, compare, early return or store |
| `CreateStep(b)` | one reserve + create pair (lines 105-128), with `applySettings` after `arg_` |
| `ReserveFails(b)` | malloc returning null inside `reserve` (lines 59-63): the old block is freed, `ptr_` is null, and `bad_alloc` ends the run |
| `Construct`, `Resize`, `ResizeWithSettings` | the public API |
| `Solve` | `solve`: the asserts (the data has the stored horizon) and the read of `dynamics[0]` (so N ≥ 1). It writes only the contents of the structures. |

The getters only read the structures, so they are not actions.

### `HpipmTranscription` (instantiated by `MC_HpipmTranscription`)

`Transcribe` is lines 203-251 for one state, one input, one constraint and
horizon 1:

- `b0 = f + A x0`;
- `r0 = r + S x0`;
- the stage-0 bound `lg = ug = -e - C x0`;
- the terminal bound `-e`.

The state is one
stage-0/terminal data set, an `x0`, and whether constraints are passed.

### `RiccatiExtraction` (instantiated by `MC_RiccatiExtraction`; helpers in `LinearAlgebra`)

`getRiccatiZeroStage` (lines 301-335) and `FeedbackGain` (line 347,
`K = -(Ls Lr^-1)'`) are operators over integer matrices. The dimensions are
one state and two inputs, so `Lr0` is a genuine 2×2 lower-triangular
factor. It has a unit diagonal, which makes every inverse exact.

The model uses HPIPM's factorisation through its defining relations:
`Lr Lr' = R + B'PB` and `Ls Lr' = (S + B'PA)'`. The input Hessian `R0` of
each problem is chosen so that `Lr0` is its factor.

### `QuadraticCost` (instantiated by `MC_QuadraticCost`)

The state is the object's members: `Q_`, `R_`, the nominal and final points,
and the cached `x_deviation_` and `u_deviation_`. It also holds the base
class's `x_` and `u_`, which the terminal functions read.

- **`Init`** is the constructor. The Eigen members it leaves uninitialised
  start at any value.
- **`setCurrentStateAndControl`** is the one action.
- **Queries.** `evaluate` and the derivative and terminal getters are
  operators over the state, with costs doubled to stay integers.
- **Dimensions.** Two states and one input.

### `FeasibleTrajectory` (instantiated by `MC_DDPCorrectness`)

This module models the index walk of the test fixture's
`getFeasibleTrajectory` (CorrectnessTest.cpp 146-170), a RECURSIVE operator
that follows the code's loop over the stages. The two Eigen lines of the
projection are not modelled. The trajectory's shape (N and the per-stage
`nx`, `nu`) is the state.

### `PartitionedDDP` (instantiated by `MC_DDPCorrectness`)

This module models the DDP run that `TestSLQ` and `TestILQR` start. The
solver's sources are not in the tree, so its steps follow spec 4.5, 4.6
and 5. The settings come from the test's `getSettings` (one thread per
partition, `maxNumIterations_ = 2 + (numPartitions - 1)`), and the number
of partitions from `getPartitioningTimes`.

| Variable | Meaning |
|----------|---------|
| `boundary[p]` | the terminal value function partition `p` sweeps from (the final cost for the last partition) |
| `result[p]` | partition `p`'s latest sweep: its value function at its start |
| `stitchAt` | the next boundary stitching fills, from the last to the first |
| `optimal`, `isConverged` | the nominal trajectory is the QP optimum; the last iteration improved the cost by less than `minRelCost_` |
| `terminate` | the external termination flag |

| Action | Step |
|--------|------|
| `StartIteration`, `Stop` | the loop condition at an iteration boundary: not converged, under the budget, not terminated |
| `Sweep(p)` | one partition's backward Riccati sweep, from its terminal value function |
| `Barrier` | stitching waits for every partition's sweep |
| `Stitch(p)`, `Stitched` | partition `p + 1`'s start value becomes partition `p`'s terminal condition, last to first |
| `LineSearch` | forward rollout, line search and the convergence test |
| `RequestTermination` | the caller raises the flag, at any time |

The test problem is linear-quadratic, and the data are abstracted to match.
A value function is the boundary it belongs to, plus whether it is exact.
A sweep from the exact value function at its partition's end gives the
exact policy. The full step of the exact policy on every partition reaches
the QP optimum, and from the optimum no step improves the cost. An inexact
policy's step, whether accepted or rejected, leaves the trajectory off the
optimum. A sweep is atomic: with one thread per partition, no sweep waits
for a thread. Per spec 4.5, a failed line search keeps the trajectory and
the loop goes on.

`MC_DDPCorrectness` checks this module and `FeasibleTrajectory` side by
side, because together they are the one test. They share no state.

### `StateInputSoftConstraint` (instantiated by `MC_StateInputSoftConstraint`)

Soft-constraint objects live in a fixed set of slots. The
`StateInputConstraint` objects they own live on a heap of cells that are
never reused, so a read or a delete of a dead cell stays visible.

- **Abstraction.** A constraint is abstracted to the function it computes
  and a penalty to a value, because their code is not in the tree.
- **Constructors** allocate a cell for the caller's constraint.
- **The copy constructor and `clone`** clone the constraint into a fresh
  cell and copy `penalty_` and `constraintOrder_`.
- **The destructor** deletes the owned cell.
- **`getValue` and `getQuadraticApproximation`** are operators. The latter
  switches on `constraintOrder_`.
- **`made`** is a history variable recording what each object's first
  construction defined.

## Runs

| Run | Expect | What it checks |
|-----|--------|----------------|
| `hpipm_workspace` | pass | Up to 4 calls after construction, and malloc may fail (which ends the run). `ConfiguredAsRequested`: every call that returns leaves the stored size and settings equal to the request. It also leaves the five structures live and built for them, with `arg_` holding the settings and the workspace sized for that `arg_`. The one exception is the default pair before anything was built. This ties the early return at line 98, the store order at 102-103, `isSettingsEqual` and `applySettings` together. `TypeOK` includes "a block never claims more capacity than its live allocation". |
| `hpipm_transcription` | pass | `EliminationPreservesProblem`: for every decision (u0, x1) in a grid, the QP given to HPIPM and the original problem with `x0` fixed agree on feasibility, and their costs differ by one constant. |
| `riccati_extraction` | pass | `ZeroStageSolvesRiccatiStep`: `H K0 = -G`, `H k0 = -g`, and `P0`, `p0` are the value that remains (spec 8, stage-0 reconstruction consistency). `InteriorGainMatchesZeroStage`: the interior formula gives the same gain from HPIPM's `(Lr, Ls)`. `TypeOK` checks the gains' shapes, which dynamic Eigen matrices would not. |
| `quadratic_cost` | pass | Symmetric weights. `QuadraticModelIsExact`: after any `setCurrentStateAndControl`, the running cost `evaluate` reports and the terminal cost equal exactly the quadratic models built from the getters at the previous point. This ties the caching in `set` to all nine query functions. |
| `ddp_correctness` | pass | One to three partitions (the test's SINGLE and MULTI, and one more). `ConvergesWithinBudget`: unless terminated, the loop declares convergence within `2 + (numPartitions - 1)` iterations. `SegmentsFollowLayout`: the segments the fixture's loop takes are the blocks `dx[0], du[0], ..., dx[N]` of the layout comment. Each segment starts at the sum of the earlier blocks, and the walk ends at the end of `w`. Checked for N ≤ 3, `nx ∈ 1..2` and `nu ∈ 0..2`. |
| `riccati_spec_formula` | violation | The code's `K0` against the spec 4.4 formula. See Findings. |
| `soft_constraint` | pass | Three object slots and four cells, with symmetry over slots and cells, over every sequence of constructions, copies, clones and destructions. `EvaluatesItsConstruction`: each live object owns a live constraint that no other object owns, and its `getValue` and `getQuadraticApproximation` compute what its original construction defined. |

Every property of a passing run has a mutant in `PROJECT.json`: a plausible
bug in the code it is about, which TLC finds. Examples:

- a field dropped from `isSettingsEqual`;
- malloc with the old size;
- the `S x0` term dropped;
- a transpose or an inverse dropped;
- the `B0'P1b0` term dropped;
- a stale input deviation;
- a copy constructor that shares the constraint pointer;
- the fixture's index not advanced by `nu`;
- the budget without the extra iteration per added partition.

## Bounds and why they suffice

- **Workspace.** Four sizes (N ∈ {1, 2}, nu ∈ {1, 2}) plus the default, and
  three settings. These make every pair of strictly larger, smaller and
  equal requirements occur for each block. They include two settings that
  differ only in `iter_max`, so only the workspace size changes, and two
  modes whose defaults differ from the requested `iter_max`. Four calls
  allow a grow, a shrink, a value-equal repeat and a solve in one
  behaviour. Malloc may fail at every block that grows.
- **Transcription.** Every entry is ±1, `x0 ∈ {-1, 2}` (so `C x0 ≠ -C x0`),
  the terminal constraint is on or off, and the decisions range over
  `-3..3 × -4..4`. This covers every sign combination of every term that
  involves `x0`.
- **Quadratic cost.** Three symmetric `Q` (identity and couplings of both
  signs), two `R`, two nominal points and two final points, and current
  points over `{-1,0,1}² × {-1,1}`. Nonzero `dx` and `du` of every sign
  occur from every point.
- **Feasible trajectory.** Every shape with N ≤ 3 (518 shapes): per-stage
  sizes differ and inputs may be empty, which is what an index off-by-one
  needs to show.
- **DDP loop.** One to three partitions. With three partitions,
  value-function information has to cross two boundaries, so the budget's
  per-partition term matters.
- **Soft constraint.** Three slots and four cells allow a construction, a
  copy, a clone of the copy, the destruction of any of them in any order
  and a further construction. Both constructors are used. Slots and cells
  are model values under symmetry: the code never orders them.
- **Riccati.** Entries are ±1, `P1 ∈ {1, 2}`, and `Lr0`'s off-diagonal is
  `-1..1`. This is the smallest domain in which the inputs are coupled.

## Fairness

Only `PartitionedDDP` is checked for liveness. Every other module is
sequential and is checked for safety only.

In `PartitionedDDP`, every loop step, every sweep and every stitch is
weakly fair. The loop and the workers only compute, and they block only at
the barrier (spec 5), so a step that stays enabled is taken. The caller's
termination flag has no fairness, and the liveness property is stated for
behaviours in which it is never raised.

## Findings

1. **`riccati_spec_formula`** (spec/code divergence, line 328). The code
   uses `Lr0_inv' Lr0_inv = (Lr0 Lr0')^-1`, which satisfies the Riccati step.
   The spec writes `(Lr0' Lr0)^-1`, and the two differ whenever `Lr0` has an
   off-diagonal entry. The code is right; the spec's formula is wrong.

One further observation is recorded as a hazard note, not as a finding:

- **Asymmetric weights (QuadraticCostFunction.h:88).** With
  `QSet <- MCQAsymmetricSet`, `QuadraticModelIsExact` fails. The getters
  are the derivatives of `evaluate` only for a symmetric `Q`, and the
  constructor accepts any `Q`. Every caller in the tree passes symmetric
  weights.

## Not modelled

- **HPIPM itself.** It is not in the repository, so it is used only through
  its contract. The getters (`getStateSolution`, `getInputSolution`,
  `getRiccatiCostToGo`) only copy HPIPM's results out and are not modelled.
  Neither is the unused `fake_k0` read.
- **Continuing after `bad_alloc` (lines 60-63, 102).** `initializeMemory`
  stores the new size and settings before the allocations, and a failed
  `reserve` leaves `ptr_` null with the old `size_`. A caller that caught
  the exception and retried would hit the early return with nothing built.
  Spec 7 makes allocation failure fatal, so the model ends there and
  these are kept as hazards.
- **`printStatus` (lines 371-417).** It only prints. It reads `iter + 1`
  rows of the IPM statistics table, whose size HPIPM sets (`stat_max`, from
  `d_ocp_qp_ipm_arg_set_default`). HPIPM is not in the tree, so whether the
  rows fit cannot be modelled from code.
- **MPC_OCS2.** Only the declarations (lines 149-161) are in the tree. The
  bodies of `run`, `runOCS2`, `reset` and the destructor are not. Whether
  the hand-off replaces untaken data, and whether the terminate flag is
  stored under the mutex (which decides a lost wakeup at shutdown), cannot
  be read from the repository. A model would check the modeller's choices.
- **Loopshaping filter.** `integrate` rebinds the shared flow map to this
  object and input and then integrates. Used sequentially, as everywhere in
  the tree, each integration uses its own input. What remains is ODE45's
  numerics, which are out of TLC's reach.
- **MemoryBlock's defaulted move (lines 78-79).** Nothing in the file
  moves a block or an `Impl`.
- **Stage 0 of the Riccati getters (lines 341, 363).** The loops fill
  stages 1 to N-1 of vectors that `resize` does not clear, so a reused
  vector keeps an earlier solve's stage-0 entry. No caller is in the tree,
  so this is kept as a hazard.
- **Per-stage size mismatch (line 182).** The model keeps data at the level
  of dimension records, so buffer overreads cannot be expressed.
- **Parts of the DDP loop.** `PartitionedDDP` is modelled from the spec,
  because the solver code is not in the tree. It checks the budget under
  two assumptions: the spec's account that one boundary is crossed per
  sweep, and the linear-quadratic test problem. The barrier and the
  stitching come from spec 5, so no property about them is checked: it
  would check the spec against itself. The model does not cover the
  Levenberg-Marquardt strategy, a thread pool smaller than the number of
  partitions, the random-problem generation with its retry loop, or the
  dense QP reference.
- **Singular `Lr0` (line 321).** HPIPM's regularisation of the
  factorisation is outside the repository. The Riccati model uses exact
  unit-diagonal factors.
- **ModeSchedule.** The tree holds only the declarations and the default
  constructor's delegation (line 136). The bodies of the lookup, the
  checking constructor and `swap` are in `ModeSchedule.cpp`, which is not in
  the tree.
- **The ROS node.** `main` is straight-line wiring of components that are
  all outside the tree. There is no interleaving, retry or state to
  explore, so a model would only restate the sequence of calls.
