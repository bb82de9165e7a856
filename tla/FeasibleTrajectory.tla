------------------------- MODULE FeasibleTrajectory -------------------------
(***************************************************************************)
(* DDPCorrectness::getFeasibleTrajectory (ocs2_ddp/test/CorrectnessTest.cpp *)
(* lines 146-170): the fixture corrects its nominal trajectory by the      *)
(* minimum-norm w with A w + b = 0 and then splits w, which its comment    *)
(* lays out as w = [dx[0], du[0], dx[1], du[1], ..., dx[N]], into the      *)
(* per-stage state and input corrections with a running index.             *)
(*                                                                         *)
(* The projection is two lines of Eigen; what the model checks is the      *)
(* index walk: which segment of w each stage's correction is taken from,   *)
(* for stages of different state and input sizes (nu may be 0).            *)
(***************************************************************************)
EXTENDS Naturals, Sequences
LOCAL INSTANCE Functions

CONSTANTS Horizons, NxSet, NuSet

VARIABLE traj  \* the shape of the trajectory: [N, nx : 0..N -> , nu : 0..N-1 -> ]

Shapes == UNION {[N : {n}, nx : [0..n -> NxSet], nu : [0..n-1 -> NuSet]] : n \in Horizons}

-----------------------------------------------------------------------------
(***************************************************************************)
(* The code: the segments (start, length) of w added to stateTrajectory[k] *)
(* and inputTrajectory[k], in the order the code takes them.               *)
(***************************************************************************)

\* Fault: the running index not advanced past the input correction.
RECURSIVE WalkNoInput(_, _, _)
WalkNoInput(s, k, nextIndex) ==
  IF k = s.N THEN << [start |-> nextIndex, len |-> s.nx[k]] >>
  ELSE << [start |-> nextIndex, len |-> s.nx[k]],
          [start |-> nextIndex + s.nx[k], len |-> s.nu[k]] >>
       \o WalkNoInput(s, k + 1, nextIndex + s.nx[k])

\* for k < N: dx[k] = w.segment(nextIndex, nx), du[k] = w.segment(nextIndex
\* + nx, nu), nextIndex += nx + nu; then dx[N] = w.segment(nextIndex, nx[N]).
RECURSIVE Walk(_, _, _)
Walk(s, k, nextIndex) ==
  IF k = s.N THEN << [start |-> nextIndex, len |-> s.nx[k]] >>
  ELSE << [start |-> nextIndex, len |-> s.nx[k]],
          [start |-> nextIndex + s.nx[k], len |-> s.nu[k]] >>
       \o Walk(s, k + 1, nextIndex + s.nx[k] + s.nu[k])

getFeasibleTrajectory(s) == Walk(s, 0, 0)

-----------------------------------------------------------------------------

\* The block sizes of w in the order of the comment: nx[0], nu[0], ..., nx[N].
Blocks(s) == [i \in 1..2 * s.N + 1 |-> IF i % 2 = 1 THEN s.nx[(i - 1) \div 2]
                                        ELSE s.nu[(i - 2) \div 2]]

\* The size of w: every state and input correction once.
WSize(s) == SumFunction(s.nx) + SumFunction(s.nu)

Init == traj \in Shapes
Next == UNCHANGED traj
Spec == Init /\ [][Next]_traj

-----------------------------------------------------------------------------
(***************************************************************************)
(* Properties                                                              *)
(***************************************************************************)

\* The index walk of getFeasibleTrajectory takes every stage's correction
\* from exactly the block the layout comment assigns to it: the i-th segment
\* starts where blocks 1..i-1 end and is as long as block i, and the walk
\* ends exactly at the end of w (no entry skipped, none read twice).
SegmentsFollowLayout ==
  LET seg == getFeasibleTrajectory(traj)
      b == Blocks(traj)
  IN /\ Len(seg) = Len(b)
     /\ \A i \in 1..Len(b) :
          /\ seg[i].len = b[i]
          /\ seg[i].start = SumFunction([j \in 1..i - 1 |-> b[j]])
     /\ seg[Len(seg)].start + seg[Len(seg)].len = WSize(traj)
=============================================================================
