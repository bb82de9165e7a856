------------------------- MODULE RiccatiExtraction -------------------------
(***************************************************************************)
(* Extraction of the feedback policy and the value function from HPIPM's   *)
(* Riccati factorisation (HpipmInterface.cpp, getRiccatiZeroStage and      *)
(* getRiccatiFeedbackFeedforward).                                         *)
(*                                                                         *)
(* HPIPM factorises, per stage, the Hessian of the stage cost plus the     *)
(* cost-to-go of the next stage,                                           *)
(*     [ Q + A'PA   G' ]            G = S + B'PA,  H = R + B'PB,           *)
(*     [ G          H  ]  = L L',   L = [Lr 0; Ls Lq],                     *)
(* so that Lr Lr' = H and Ls Lr' = G'.  Stage 0 has no state in the QP     *)
(* (the initial state is eliminated), so HPIPM returns no K0, P0; the code *)
(* rebuilds them from stage-1 P1, p1 and stage-0 Lr0.  The reference is    *)
(* the LQR backward step itself: the policy u = K x + k minimises the      *)
(* stage cost plus the stage-1 cost-to-go, i.e. H K = -G and H k = -g, and *)
(* the value function is what remains.                                     *)
(*                                                                         *)
(* Dimensions: one state and two inputs, so that Lr is a genuine 2x2       *)
(* triangular factor; Lr has unit diagonal so all arithmetic is exact.     *)
(***************************************************************************)
EXTENDS Integers, Sequences, LinearAlgebra

CONSTANTS
  LrSet,          \* lower-triangular Cholesky factors Lr0 (2x2)
  ASet, BSet,     \* stage-0 dynamics Jacobians A0 (1x1), B0 (1x2)
  SSet,           \* stage-0 cost cross term S0 (2x1)
  PSet, pSet,     \* stage-1 cost-to-go P1 (1x1), p1 (1x1)
  bSet, rSet,     \* stage-0 dynamics offset b0 (1x1), cost gradient r0 (2x1)
  Q0, q0          \* stage-0 state cost Hessian and gradient

VARIABLE data     \* one stage-0 problem and the stage-1 Riccati quantities

Problems ==
  [Lr : LrSet, A : ASet, B : BSet, S : SSet, P1 : PSet, p1 : pSet, b : bSet, r : rSet]

\* R0 is the input Hessian for which HPIPM's factor is Lr0: Lr0 Lr0' = R0 + B0'P1B0.
InputHessian(d) == MatSub(MatMul(d.Lr, Tr(d.Lr)), MatMul(MatMul(Tr(d.B), d.P1), d.B))


-----------------------------------------------------------------------------
(***************************************************************************)
(* The code                                                                *)
(***************************************************************************)

\* Fault: k0 without the B0'P1b0 term of the affine dynamics.
getRiccatiZeroStageNoOffset(A0, B0, b0, Q, R0, S0, q, r0, P1, p1, Lr0) ==
  LET W == MatMul(Tr(MatInv(Lr0)), MatInv(Lr0))
      G == MatAdd(S0, MatMul(MatMul(Tr(B0), P1), A0))
      g == MatAdd(r0, MatMul(Tr(B0), p1))
  IN [K0 |-> MatNeg(MatMul(W, G)),
      k0 |-> MatNeg(MatMul(W, g)),
      P0 |-> MatSub(MatAdd(Q, MatMul(MatMul(Tr(A0), P1), A0)), MatMul(MatMul(Tr(G), W), G)),
      p0 |-> MatSub(MatAdd(MatAdd(q, MatMul(Tr(A0), p1)), MatMul(MatMul(Tr(A0), P1), b0)),
                    MatMul(MatMul(Tr(G), W), g))]

\* getRiccatiZeroStage: K0, k0, P0, p0 from the stage-0 data, the stage-1
\* cost-to-go (P1, p1) and HPIPM's stage-0 factor Lr0 (R0 is not used).
getRiccatiZeroStage(A0, B0, b0, Q, R0, S0, q, r0, P1, p1, Lr0) ==
  LET W == MatMul(Tr(MatInv(Lr0)), MatInv(Lr0))       \* Lr0_inv' * Lr0_inv
      G == MatAdd(S0, MatMul(MatMul(Tr(B0), P1), A0))  \* S0 + B0'P1A0
      g == MatAdd(MatAdd(r0, MatMul(Tr(B0), p1)), MatMul(MatMul(Tr(B0), P1), b0))
  IN [K0 |-> MatNeg(MatMul(W, G)),
      k0 |-> MatNeg(MatMul(W, g)),
      P0 |-> MatSub(MatAdd(Q, MatMul(MatMul(Tr(A0), P1), A0)), MatMul(MatMul(Tr(G), W), G)),
      p0 |-> MatSub(MatAdd(MatAdd(q, MatMul(Tr(A0), p1)), MatMul(MatMul(Tr(A0), P1), b0)),
                    MatMul(MatMul(Tr(G), W), g))]

\* Fault: the transpose left out.
FeedbackGainNoTranspose(Lr, Ls) == MatNeg(MatMul(Ls, MatInv(Lr)))

\* Fault: the factor itself used where its inverse belongs.
FeedbackGainNoInverse(Lr, Ls) == MatNeg(Tr(MatMul(Ls, Lr)))

\* getRiccatiFeedbackFeedforward, stage k >= 1: K = -(Ls * Lr^-1)'.
FeedbackGain(Lr, Ls) == MatNeg(Tr(MatMul(Ls, MatInv(Lr))))

-----------------------------------------------------------------------------

ZeroStage(d) ==
  getRiccatiZeroStage(d.A, d.B, d.b, Q0, InputHessian(d), d.S, q0, d.r, d.P1, d.p1, d.Lr)

\* Cross term and input gradient of the stage-0 Q-function.
CrossTerm(d) == MatAdd(d.S, MatMul(MatMul(Tr(d.B), d.P1), d.A))
InputGradient(d) ==
  MatAdd(MatAdd(d.r, MatMul(Tr(d.B), d.p1)), MatMul(MatMul(Tr(d.B), d.P1), d.b))

\* What HPIPM stores as Ls for a stage with this data: Ls Lr' = G'.
LsOf(d) == MatMul(Tr(CrossTerm(d)), Tr(MatInv(d.Lr)))

\* M is an r x c integer matrix.
IsMat(M, r, c) == Rows(M) = r /\ Cols(M) = c /\ \A i \in 1..r : M[i] \in [1..c -> Int]

\* The problem is one state and two inputs with a lower-triangular factor,
\* and the extracted gains are (nu x nx), feedforwards nu, values nx.
TypeOK ==
  /\ data \in Problems
  /\ IsMat(data.Lr, 2, 2) /\ data.Lr[1][2] = 0
  /\ IsMat(FeedbackGain(data.Lr, LsOf(data)), 2, 1)
  /\ LET z == ZeroStage(data)
     IN IsMat(z.K0, 2, 1) /\ IsMat(z.k0, 2, 1) /\ IsMat(z.P0, 1, 1) /\ IsMat(z.p0, 1, 1)

Init == data \in Problems
Next == UNCHANGED data
Spec == Init /\ [][Next]_data

-----------------------------------------------------------------------------
(***************************************************************************)
(* Properties                                                              *)
(***************************************************************************)

\* The stage-0 quantities rebuilt by getRiccatiZeroStage satisfy the LQR
\* backward step from stage 1 with H = R0 + B0'P1B0: the feedback and
\* feedforward solve H K0 = -G and H k0 = -g, and P0, p0 are the curvature
\* and gradient of the value function that remains (spec: stage-0
\* reconstruction consistency).
ZeroStageSolvesRiccatiStep ==
  LET z == ZeroStage(data)
      H == MatAdd(InputHessian(data), MatMul(MatMul(Tr(data.B), data.P1), data.B))
      G == CrossTerm(data)
      g == InputGradient(data)
      AtP == MatMul(Tr(data.A), data.P1)
  IN /\ MatMul(H, z.K0) = MatNeg(G)
     /\ MatMul(H, z.k0) = MatNeg(g)
     /\ z.P0 = MatAdd(MatAdd(Q0, MatMul(AtP, data.A)), MatMul(Tr(G), z.K0))
     /\ z.p0 = MatAdd(MatAdd(MatAdd(q0, MatMul(Tr(data.A), data.p1)), MatMul(AtP, data.b)),
                      MatMul(Tr(G), z.k0))

\* The gain getRiccatiFeedbackFeedforward derives from HPIPM's (Lr, Ls) for
\* an interior stage is the gain getRiccatiZeroStage computes for the same
\* stage data: the two extraction paths of the controller agree.
InteriorGainMatchesZeroStage ==
  FeedbackGain(data.Lr, LsOf(data)) = ZeroStage(data).K0

\* Spec 4.4: K0 = -(Lr0' Lr0)^-1 (S0 + B0'P1A0).
SpecZeroStageGain(d) ==
  MatNeg(MatMul(MatInv(MatMul(Tr(d.Lr), d.Lr)), CrossTerm(d)))

\* The stage-0 feedback gain the code computes is the one spec 4.4 writes.
ZeroStageMatchesSpecFormula == ZeroStage(data).K0 = SpecZeroStageGain(data)
=============================================================================
