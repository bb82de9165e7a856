------------------------- MODULE MC_DDPCorrectness -------------------------
(***************************************************************************)
(* The DDPCorrectness test (ocs2_ddp/test/CorrectnessTest.cpp) for TLC:    *)
(* the fixture's feasible-trajectory index walk and the DDP run the test   *)
(* starts.  The two parts share no state; the run checks them side by      *)
(* side.                                                                   *)
(***************************************************************************)
EXTENDS Naturals

VARIABLES numPartitions, iteration, phase, boundary, result, stitchAt,
          optimal, isConverged, terminate, traj

\* SINGLE and MULTI partitioning (one and two partitions), as the test is
\* instantiated, and three partitions beyond it.
MCPartitionCounts == 1..3

DDP == INSTANCE PartitionedDDP WITH PartitionCounts <- MCPartitionCounts

\* Horizons 0..3 (N = 0 skips the loop), state sizes 1 and 2, input sizes
\* 0 to 2, so that the stages differ in both and an input may be empty.
FT == INSTANCE FeasibleTrajectory WITH Horizons <- 0..3, NxSet <- 1..2, NuSet <- 0..2

vars == <<DDP!vars, traj>>

Spec == DDP!Init /\ FT!Init /\ [][DDP!Next /\ FT!Next]_vars /\ DDP!Fairness

\* See PartitionedDDP and FeasibleTrajectory for the statements.
ConvergesWithinBudget == DDP!ConvergesWithinBudget
SegmentsFollowLayout == FT!SegmentsFollowLayout
=============================================================================
