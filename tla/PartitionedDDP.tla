--------------------------- MODULE PartitionedDDP ---------------------------
(***************************************************************************)
(* The globalization loop and the partition executor of the DDP solvers    *)
(* (SLQ, ILQR), as DDPCorrectness (ocs2_ddp/test/CorrectnessTest.cpp)      *)
(* runs them.  The solver sources are not part of the tree, so the loop    *)
(* follows spec sections 4.5, 4.6 and 5; the settings and the run come     *)
(* from the test.                                                          *)
(*                                                                         *)
(* Each outer iteration sweeps every partition backward, each from the     *)
(* terminal value function at its end (the final cost for the last        *)
(* partition); after a barrier, stitching hands partition p + 1's value    *)
(* function at its start to partition p as its terminal condition, from    *)
(* the last partition to the first; then the forward rollout and the line  *)
(* search take the step, and the loop checks for convergence, the          *)
(* iteration budget and the external termination flag.                     *)
(*                                                                         *)
(* The test problem is linear-quadratic.  A value function is abstracted   *)
(* to the boundary it belongs to and whether it is the exact one: a sweep  *)
(* from the exact value function at its partition's end yields the exact   *)
(* policy of that partition, whatever the nominal trajectory; the full     *)
(* step (alpha = 1) of the exact policy on every partition reaches the QP  *)
(* optimum, and from the optimum no step improves the cost.  A step of an  *)
(* inexact policy, accepted or rejected by the line search, leaves the     *)
(* trajectory off the optimum with an improvement above minRelCost_.       *)
(***************************************************************************)
EXTENDS Naturals

CONSTANT PartitionCounts   \* numbers of time partitions the test runs with

ASSUME PartitionCounts \subseteq Nat \ {0}

VARIABLES
  numPartitions,  \* partitioningTimes.size() - 1
  iteration,      \* outer iterations started
  phase,          \* "check" | "sweep" | "stitch" | "rollout" | "stopped"
  boundary,       \* boundary[p]: the terminal value function partition p sweeps from
  result,         \* result[p]: partition p's latest sweep (its value function at its start)
  stitchAt,       \* the next boundary stitching fills, 0 when done
  optimal,        \* the nominal trajectory is the QP optimum
  isConverged,    \* the last iteration improved the cost by less than minRelCost_
  terminate       \* the external termination flag

vars == <<numPartitions, iteration, phase, boundary, result, stitchAt, optimal,
          isConverged, terminate>>

Partitions == 1..numPartitions

\* A value function: the boundary index it is attached to (partition p runs
\* from boundary p - 1 to boundary p), whether it is exact, and the iteration
\* whose sweep produced it (0 for the initial ones).
ValueFunction(at, exact, iter) == [at |-> at, exact |-> exact, iter |-> iter]

-----------------------------------------------------------------------------
(***************************************************************************)
(* The code                                                                *)
(***************************************************************************)

\* Fault: the budget without the extra iteration per added partition.
getSettingsNoExtra(P) == [nThreads |-> P, maxNumIterations |-> 1 + (P - 1)]

\* getSettings(algorithm, numPartitions, strategy): one thread per
\* partition and maxNumIterations_ = 2 + (numPartitions - 1).
getSettings(P) == [nThreads |-> P, maxNumIterations |-> 2 + (P - 1)]

MaxNumIterations == getSettings(numPartitions).maxNumIterations

\* TestSLQ / TestILQR: ddp.run(startTime, initState, finalTime,
\* partitioningTimes) from the operating trajectories; the last partition
\* ends at the final cost, the other boundaries hold no value function yet.
Init ==
  /\ numPartitions \in PartitionCounts
  /\ iteration = 0 /\ phase = "check"
  /\ boundary = [p \in Partitions |-> ValueFunction(p, p = numPartitions, 0)]
  /\ result = [p \in Partitions |-> ValueFunction(p - 1, FALSE, 0)]
  /\ stitchAt = 0
  /\ optimal = FALSE /\ isConverged = FALSE /\ terminate = FALSE

\* The loop condition, at an iteration boundary: neither converged, nor out
\* of iterations, nor asked to terminate.
StartIteration ==
  /\ phase = "check"
  /\ ~isConverged /\ iteration < MaxNumIterations /\ ~terminate
  /\ iteration' = iteration + 1
  /\ phase' = "sweep"
  /\ UNCHANGED <<numPartitions, boundary, result, stitchAt, optimal, isConverged, terminate>>

\* The loop ends; run() returns the nominal trajectory.
Stop ==
  /\ phase = "check"
  /\ isConverged \/ iteration >= MaxNumIterations \/ terminate
  /\ phase' = "stopped"
  /\ UNCHANGED <<numPartitions, iteration, boundary, result, stitchAt, optimal,
                 isConverged, terminate>>

\* A worker's backward Riccati sweep of partition p, from its terminal
\* value function: exact when that is the exact value function at p's end.
Sweep(p) ==
  /\ phase = "sweep" /\ result[p].iter < iteration
  /\ result' = [result EXCEPT ![p] =
                  ValueFunction(p - 1, boundary[p].exact /\ boundary[p].at = p, iteration)]
  /\ UNCHANGED <<numPartitions, iteration, phase, boundary, stitchAt, optimal,
                 isConverged, terminate>>

\* The barrier: stitching starts once every partition's sweep is done.
Barrier ==
  /\ phase = "sweep" /\ \A p \in Partitions : result[p].iter = iteration
  /\ phase' = "stitch" /\ stitchAt' = numPartitions - 1
  /\ UNCHANGED <<numPartitions, iteration, boundary, result, optimal, isConverged, terminate>>

\* Stitching, from the last boundary to the first: partition p + 1's value
\* function at its start becomes partition p's terminal condition.
Stitch(p) ==
  /\ phase = "stitch" /\ stitchAt = p /\ p > 0
  /\ boundary' = [boundary EXCEPT ![p] = result[p + 1]]
  /\ stitchAt' = p - 1
  /\ UNCHANGED <<numPartitions, iteration, phase, result, optimal, isConverged, terminate>>

\* Stitching done: the next phase may start.
Stitched ==
  /\ phase = "stitch" /\ stitchAt = 0
  /\ phase' = "rollout"
  /\ UNCHANGED <<numPartitions, iteration, boundary, result, stitchAt, optimal,
                 isConverged, terminate>>

\* Forward rollout and line search with this iteration's policy, then the
\* convergence test on the relative cost improvement.
LineSearch ==
  /\ phase = "rollout"
  /\ optimal' = (optimal \/ \A p \in Partitions : result[p].exact)
  /\ isConverged' = optimal
  /\ phase' = "check"
  /\ UNCHANGED <<numPartitions, iteration, boundary, result, stitchAt, terminate>>

\* The caller raises the termination flag, at any time.
RequestTermination ==
  /\ ~terminate
  /\ terminate' = TRUE
  /\ UNCHANGED <<numPartitions, iteration, phase, boundary, result, stitchAt,
                 optimal, isConverged>>

\* The run has returned.
Returned ==
  /\ phase = "stopped"
  /\ UNCHANGED vars

Next ==
  \/ StartIteration \/ Stop \/ Barrier \/ Stitched \/ LineSearch
  \/ \E p \in Partitions : Sweep(p) \/ Stitch(p)
  \/ RequestTermination
  \/ Returned

\* The loop and the workers run until they block on the barrier; the
\* termination flag is the caller's choice and is not owed.
Fairness ==
  /\ WF_vars(StartIteration) /\ WF_vars(Stop) /\ WF_vars(Barrier)
  /\ WF_vars(Stitched) /\ WF_vars(LineSearch)
  /\ WF_vars(\E p \in Partitions : Sweep(p) \/ Stitch(p))

Spec == Init /\ [][Next]_vars /\ Fairness

-----------------------------------------------------------------------------
(***************************************************************************)
(* Properties                                                              *)
(***************************************************************************)

ValueFunctions == [at : Nat, exact : BOOLEAN, iter : Nat]

TypeOK ==
  /\ numPartitions \in PartitionCounts
  /\ iteration \in 0..MaxNumIterations
  /\ phase \in {"check", "sweep", "stitch", "rollout", "stopped"}
  /\ boundary \in [Partitions -> ValueFunctions]
  /\ result \in [Partitions -> ValueFunctions]
  /\ stitchAt \in 0..numPartitions
  /\ optimal \in BOOLEAN /\ isConverged \in BOOLEAN /\ terminate \in BOOLEAN

\* The budget 2 + (numPartitions - 1) of getSettings lets the loop declare
\* convergence: value-function information crosses one partition boundary
\* per iteration, so the first partition's policy is exact after
\* numPartitions iterations and one more observes no improvement.  Unless
\* the caller raises the termination flag, run() returns converged.
ConvergesWithinBudget ==
  []~terminate => <>(phase = "stopped" /\ isConverged)
=============================================================================
