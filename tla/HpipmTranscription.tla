------------------------ MODULE HpipmTranscription ------------------------
(***************************************************************************)
(* The transcription in HpipmInterface::Impl::solve (HpipmInterface.cpp):  *)
(* OCS2's per-stage LQ approximation around a nominal trajectory, with the *)
(* initial state x0 fixed, becomes HPIPM's OCP QP in which stage 0 has no  *)
(* state (nx[0] = 0).  x0 is folded into the stage-0 dynamics offset       *)
(* (b0 = f0 + A0 x0), the stage-0 input gradient (r0 = r + S0 x0) and the  *)
(* stage-0 constraint bound (-e0 - C0 x0); OCS2's equality constraints     *)
(* C dx + D du + e = 0 become HPIPM's two-sided bounds with lg = ug = -e.  *)
(*                                                                         *)
(* One state, one input and one constraint per stage, horizon N = 1 (stage *)
(* 0 and the terminal stage 1); costs are doubled so that they stay        *)
(* integers.  The reference is the original problem with x0 fixed.         *)
(***************************************************************************)
EXTENDS Integers

CONSTANTS
  X0Set,     \* initial states x0
  StageSet,  \* stage-0 data [A, B, f, Q, R, S, q, r, C, D, e]
  FinalSet,  \* terminal data [Q, q, C, e]
  USet, XSet \* the decisions u0, x1 over which the two problems are compared

VARIABLES x0, s0, s1, constrained  \* constrained: constraints != nullptr

vars == <<x0, s0, s1, constrained>>

-----------------------------------------------------------------------------
(***************************************************************************)
(* The code                                                                *)
(***************************************************************************)

\* Fault: the cross term S0 x0 not folded into the input gradient.
TranscribeNoCross(x, d, t) ==
  [B0 |-> d.B, b0 |-> d.f + d.A * x, R0 |-> d.R, r0 |-> d.r,
   D0 |-> d.D, lg0 |-> - d.e - d.C * x, ug0 |-> - d.e - d.C * x,
   Q1 |-> t.Q, q1 |-> t.q, C1 |-> t.C, lg1 |-> - t.e, ug1 |-> - t.e]

\* The HPIPM data solve() builds: only the blocks HPIPM reads are kept (with
\* nx[0] = 0 it ignores A0, Q0, S0, q0 and C0).
Transcribe(x, d, t) ==
  [B0 |-> d.B, b0 |-> d.f + d.A * x,              \* b0 += dfdx * x0
   R0 |-> d.R, r0 |-> d.r + d.S * x,              \* r0 += dfdux * x0
   D0 |-> d.D, lg0 |-> - d.e - d.C * x, ug0 |-> - d.e - d.C * x,
   Q1 |-> t.Q, q1 |-> t.q,
   C1 |-> t.C, lg1 |-> - t.e, ug1 |-> - t.e]

-----------------------------------------------------------------------------
(***************************************************************************)
(* HPIPM's problem and the original one                                    *)
(***************************************************************************)

\* Twice HPIPM's cost of decisions (u0, x1), and its constraints.
QpCost2(qp, u, y) == qp.R0 * u * u + 2 * qp.r0 * u + qp.Q1 * y * y + 2 * qp.q1 * y
QpFeasible(qp, c, u, y) ==
  /\ y = qp.B0 * u + qp.b0
  /\ c => qp.lg0 <= qp.D0 * u /\ qp.D0 * u <= qp.ug0
  /\ c => qp.lg1 <= qp.C1 * y /\ qp.C1 * y <= qp.ug1

\* Twice the original cost of (x0, u0, x1), and its constraints.
OcpCost2(x, d, t, u, y) ==
  d.Q * x * x + 2 * u * d.S * x + 2 * d.q * x + d.R * u * u + 2 * d.r * u
    + t.Q * y * y + 2 * t.q * y
OcpFeasible(x, d, t, c, u, y) ==
  /\ y = d.A * x + d.B * u + d.f
  /\ c => d.C * x + d.D * u + d.e = 0
  /\ c => t.C * y + t.e = 0

Init == x0 \in X0Set /\ s0 \in StageSet /\ s1 \in FinalSet /\ constrained \in BOOLEAN
Next == UNCHANGED vars
Spec == Init /\ [][Next]_vars

-----------------------------------------------------------------------------
(***************************************************************************)
(* Properties                                                              *)
(***************************************************************************)

\* The QP handed to HPIPM is the original problem with x0 fixed: a decision
\* (u0, x1) is feasible for one exactly when it is feasible for the other,
\* and the two costs differ by the same constant for every decision (the
\* terms in x0 alone, e.g. q0'x0, which the code comments may be left out).
EliminationPreservesProblem ==
  LET qp == Transcribe(x0, s0, s1)
      offset(u, y) == OcpCost2(x0, s0, s1, u, y) - QpCost2(qp, u, y)
      u1 == CHOOSE u \in USet : TRUE
      y1 == CHOOSE y \in XSet : TRUE
  IN \A u \in USet, y \in XSet :
       /\ QpFeasible(qp, constrained, u, y) <=> OcpFeasible(x0, s0, s1, constrained, u, y)
       /\ offset(u, y) = offset(u1, y1)
=============================================================================
