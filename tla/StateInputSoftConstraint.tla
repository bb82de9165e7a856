--------------------- MODULE StateInputSoftConstraint ---------------------
(***************************************************************************)
(* StateInputSoftConstraint (ocs2_core/soft_constraint/                     *)
(* StateInputSoftConstraint.cpp).  A soft constraint owns its constraint   *)
(* through the unique_ptr constraintPtr_, holds a penalty penalty_ by      *)
(* value and a constraintOrder_; the copy constructor clones the           *)
(* constraint, clone() copy-constructs on the heap, and getValue /         *)
(* getQuadraticApproximation apply the penalty to the constraint's value   *)
(* or to its linear or quadratic approximation.                            *)
(*                                                                         *)
(* Soft-constraint objects live in a fixed set of slots; StateInputConstraint *)
(* objects live on a heap of cells that are never reused, so that a read   *)
(* or a delete of a dead cell stays visible.  A constraint is abstracted   *)
(* to the function it computes (a kind), a penalty to a value.             *)
(***************************************************************************)
EXTENDS Naturals

CONSTANTS
  Objects,      \* slots for soft-constraint objects
  Cells,        \* heap cells for StateInputConstraint objects
  Kinds,        \* the functions a StateInputConstraint computes
  Penalties,    \* penalty functions
  Counts,       \* numConstraints passed to the second constructor
  None          \* empty slot or pointer

Orders == {"Linear", "Quadratic"}

\* penalty_: a penalty per constraint, or one penalty repeated n times.
PenaltyValues == [each : Penalties] \cup [repeated : Penalties, n : Counts]

VARIABLES
  constraintPtr_,    \* constraintPtr_[o]: a cell, or None for an empty slot
  penalty_,
  constraintOrder_,
  heap,              \* heap[c]: [state : "unused" | "live" | "deleted", kind]
  made               \* history: the evaluation o's first construction defined

vars == <<constraintPtr_, penalty_, constraintOrder_, heap, made>>

Live(o) == constraintPtr_[o] # None
Unused == {c \in Cells : heap[c].state = "unused"}

-----------------------------------------------------------------------------
(***************************************************************************)
(* The code                                                                *)
(***************************************************************************)

\* getQuadraticApproximation: the penalty of the constraint's approximation
\* of the order fixed at construction.
getQuadraticApproximation(o) ==
  CASE constraintOrder_[o] = "Linear" ->
         [penalty |-> penalty_[o], of |-> [linear |-> heap[constraintPtr_[o]].kind]]
    [] constraintOrder_[o] = "Quadratic" ->
         [penalty |-> penalty_[o], of |-> [quadratic |-> heap[constraintPtr_[o]].kind]]

\* getValue: the penalty of the constraint's value.
getValue(o) == [penalty |-> penalty_[o], of |-> [value |-> heap[constraintPtr_[o]].kind]]

\* What an object evaluates; a read of a dead cell defines nothing.
Evaluation(o) ==
  IF heap[constraintPtr_[o]].state = "live"
  THEN <<getValue(o), getQuadraticApproximation(o)>>
  ELSE << >>

\* Store a new object in slot o owning cell c.
Store(o, c, pen, ord) ==
  /\ constraintPtr_' = [constraintPtr_ EXCEPT ![o] = c]
  /\ penalty_' = [penalty_ EXCEPT ![o] = pen]
  /\ constraintOrder_' = [constraintOrder_ EXCEPT ![o] = ord]

\* The caller creates a constraint of kind k (make_unique) and passes it.
Constructed(o, c, k, pen, ord) ==
  /\ ~Live(o) /\ c \in Unused
  /\ heap' = [heap EXCEPT ![c] = [state |-> "live", kind |-> k]]
  /\ Store(o, c, pen, ord)
  /\ LET e == [penalty |-> pen, kind |-> k, order |-> ord]
     IN made' = [made EXCEPT ![o] = e]

\* StateInputSoftConstraint(constraintPtr, penaltyFunctionPtrArray, order).
ConstructWithPenaltyArray(o, c, k, p, ord) == Constructed(o, c, k, [each |-> p], ord)

\* StateInputSoftConstraint(constraintPtr, numConstraints, penaltyFunction,
\* order): one penalty for all numConstraints constraints.
ConstructWithPenalty(o, c, k, p, n, ord) ==
  Constructed(o, c, k, [repeated |-> p, n |-> n], ord)

\* Fault: the copy shares other's constraint (constraintPtr_(other.
\* constraintPtr_.get())) instead of cloning it.
copyShallow(o, other, c) ==
  /\ ~Live(o) /\ Live(other) /\ c \in Unused
  /\ UNCHANGED heap
  /\ Store(o, constraintPtr_[other], penalty_[other], constraintOrder_[other])
  /\ made' = [made EXCEPT ![o] = made[other]]

\* StateInputSoftConstraint(const StateInputSoftConstraint& other): clone
\* other's constraint into a fresh cell, copy penalty_ and constraintOrder_.
copy(o, other, c) ==
  /\ ~Live(o) /\ Live(other) /\ c \in Unused
  /\ heap' = [heap EXCEPT ![c] = [state |-> "live", kind |-> heap[constraintPtr_[other]].kind]]
  /\ Store(o, c, penalty_[other], constraintOrder_[other])
  /\ made' = [made EXCEPT ![o] = made[other]]

\* clone(): new StateInputSoftConstraint(*this).
clone(o, other, c) == copy(o, other, c)

\* The destructor: the unique_ptr deletes the constraint it holds.
Destroy(o) ==
  /\ Live(o)
  /\ heap' = [heap EXCEPT ![constraintPtr_[o]].state = "deleted"]
  /\ constraintPtr_' = [constraintPtr_ EXCEPT ![o] = None]
  /\ UNCHANGED <<penalty_, constraintOrder_, made>>

\* The model's heap bound: every cell has been handed out and every object
\* destroyed; nothing more can be constructed.
CellsUsedUp ==
  /\ Unused = {} /\ \A o \in Objects : ~Live(o)
  /\ UNCHANGED vars

Init ==
  /\ constraintPtr_ = [o \in Objects |-> None]
  /\ penalty_ = [o \in Objects |-> None]
  /\ constraintOrder_ = [o \in Objects |-> None]
  /\ heap = [c \in Cells |-> [state |-> "unused", kind |-> None]]
  /\ made = [o \in Objects |-> None]

Next ==
  \/ \E o \in Objects, c \in Cells, k \in Kinds, p \in Penalties, ord \in Orders :
       \/ ConstructWithPenaltyArray(o, c, k, p, ord)
       \/ \E n \in Counts : ConstructWithPenalty(o, c, k, p, n, ord)
  \/ \E o, other \in Objects, c \in Cells : copy(o, other, c) \/ clone(o, other, c)
  \/ \E o \in Objects : Destroy(o)
  \/ CellsUsedUp

Spec == Init /\ [][Next]_vars

-----------------------------------------------------------------------------
(***************************************************************************)
(* Properties                                                              *)
(***************************************************************************)

TypeOK ==
  /\ constraintPtr_ \in [Objects -> Cells \cup {None}]
  /\ penalty_ \in [Objects -> PenaltyValues \cup {None}]
  /\ constraintOrder_ \in [Objects -> Orders \cup {None}]
  /\ heap \in [Cells -> [state : {"unused", "live", "deleted"}, kind : Kinds \cup {None}]]

\* Every live soft constraint, whether constructed, copy-constructed or
\* cloned, and whatever copies or originals have been destroyed since,
\* owns a live constraint no other object owns, and getValue and
\* getQuadraticApproximation compute what its original construction
\* defined: the penalty applied to that constraint kind at that order.
EvaluatesItsConstruction ==
  \A o \in Objects : Live(o) =>
    /\ \A p \in Objects \ {o} : constraintPtr_[p] # constraintPtr_[o]
    /\ Evaluation(o) =
         LET e == made[o]
             ap == IF e.order = "Linear" THEN [linear |-> e.kind] ELSE [quadratic |-> e.kind]
         IN <<[penalty |-> e.penalty, of |-> [value |-> e.kind]],
              [penalty |-> e.penalty, of |-> ap]>>
=============================================================================
