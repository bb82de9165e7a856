--------------------------- MODULE QuadraticCost ---------------------------
(***************************************************************************)
(* QuadraticCostFunction (ocs2_core/cost/QuadraticCostFunction.h).         *)
(*                                                                         *)
(* The object caches the deviations of the current point from the nominal *)
(* one in setCurrentStateAndControl; evaluate, the derivative getters and  *)
(* the terminal-cost functions then read that cached state (the terminal   *)
(* ones read the base class's x_, set by the same call).  An LQ solver     *)
(* builds its quadratic model of the cost from these getters at one point  *)
(* and relies on it to predict the cost at the next point.                 *)
(*                                                                         *)
(* Two states and one input; vectors are one-column matrices; costs are    *)
(* doubled so that they stay integers.                                     *)
(***************************************************************************)
EXTENDS Integers, Sequences, LinearAlgebra

CONSTANTS
  QSet, RSet,          \* state and input weights Q, R
  XNominalSet, UNominalSet,
  XFinalSet, QFinalSet,
  XSet, USet           \* points a caller passes to setCurrentStateAndControl

VARIABLES
  Q_, R_, x_nominal_, u_nominal_, x_final_, Q_final_,
  x_, u_,                     \* CostFunctionBase's current state and input
  x_deviation_, u_deviation_,
  isSet                       \* setCurrentStateAndControl has been called

params == <<Q_, R_, x_nominal_, u_nominal_, x_final_, Q_final_>>
vars == <<params, x_, u_, x_deviation_, u_deviation_, isSet>>

\* v'Mv of a column vector v.
Quad(M, v) == MatMul(MatMul(Tr(v), M), v)[1][1]

-----------------------------------------------------------------------------
(***************************************************************************)
(* The code                                                                *)
(***************************************************************************)

\* evaluate: 0.5 dx'Q dx + 0.5 du'R du (doubled).
evaluate2 == Quad(Q_, x_deviation_) + Quad(R_, u_deviation_)

stateDerivative == MatMul(Q_, x_deviation_)
stateSecondDerivative == Q_

controlDerivative == MatMul(R_, u_deviation_)
controlSecondDerivative == R_

\* control_feedback_t::Zero().
stateControlDerivative == Mat(Rows(u_), Rows(x_), LAMBDA i, j : 0)

\* terminalCost: 0.5 (x - x_final)'Q_final(x - x_final) (doubled).
terminalCost2 == Quad(Q_final_, MatSub(x_, x_final_))

\* Fault: the running deviation used in place of the final one.
terminalCostStateDerivativeRunning == MatMul(Q_final_, x_deviation_)

terminalCostStateDerivative == MatMul(Q_final_, MatSub(x_, x_final_))
terminalCostStateSecondDerivative == Q_final_

\* Fault: the input deviation not refreshed.
setCurrentStateAndControlStaleInput(x, u) ==
  /\ x_' = x /\ u_' = u
  /\ x_deviation_' = MatSub(x, x_nominal_)
  /\ UNCHANGED u_deviation_
  /\ isSet' = TRUE
  /\ UNCHANGED params

\* setCurrentStateAndControl(t, x, u): the base class stores the point,
\* then the deviations are cached.
setCurrentStateAndControl(x, u) ==
  /\ x_' = x /\ u_' = u
  /\ x_deviation_' = MatSub(x, x_nominal_)
  /\ u_deviation_' = MatSub(u, u_nominal_)
  /\ isSet' = TRUE
  /\ UNCHANGED params

\* The constructor stores the weights and the nominal and final points; the
\* Eigen members x_deviation_, u_deviation_ (and the base's x_, u_) are left
\* uninitialised, which is any value.
Init ==
  /\ Q_ \in QSet /\ R_ \in RSet
  /\ x_nominal_ \in XNominalSet /\ u_nominal_ \in UNominalSet
  /\ x_final_ \in XFinalSet /\ Q_final_ \in QFinalSet
  /\ x_ \in XSet /\ u_ \in USet /\ x_deviation_ \in XSet /\ u_deviation_ \in USet
  /\ isSet = FALSE

Next == \E x \in XSet, u \in USet : setCurrentStateAndControl(x, u)

Spec == Init /\ [][Next]_vars

-----------------------------------------------------------------------------
(***************************************************************************)
(* Properties                                                              *)
(***************************************************************************)

\* The quadratic model a solver builds from the getters at the current point
\* predicts exactly the cost evaluate() reports after the caller moves to any
\* other point with setCurrentStateAndControl; likewise for the terminal cost
\* and its derivatives.  This ties evaluate, the five derivative getters, the
\* terminal functions and the caching in setCurrentStateAndControl together.
QuadraticModelIsExact ==
  [][isSet =>
     LET dx == MatSub(x_', x_)
         du == MatSub(u_', u_)
         running == evaluate2
                    + 2 * MatMul(Tr(stateDerivative), dx)[1][1]
                    + 2 * MatMul(Tr(controlDerivative), du)[1][1]
                    + Quad(stateSecondDerivative, dx)
                    + Quad(controlSecondDerivative, du)
                    + 2 * MatMul(MatMul(Tr(du), stateControlDerivative), dx)[1][1]
         terminal == terminalCost2
                     + 2 * MatMul(Tr(terminalCostStateDerivative), dx)[1][1]
                     + Quad(terminalCostStateSecondDerivative, dx)
     IN evaluate2' = running /\ terminalCost2' = terminal]_vars
=============================================================================
