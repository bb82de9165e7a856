----------------------- MODULE MC_RiccatiExtraction -----------------------
(***************************************************************************)
(* Every stage-0 problem with entries of magnitude one (so that no term of  *)
(* the formulas vanishes), P1 in {1, 2}, and every unit lower-triangular   *)
(* 2x2 factor Lr0 with off-diagonal entry in -1..1 (diagonal and not).     *)
(***************************************************************************)
EXTENDS RiccatiExtraction

V == {-1, 1}
MCLrSet == {<<<<1, 0>>, <<c, 1>>>> : c \in -1..1}
MCASet == {Scalar(a) : a \in V}
MCBSet == {<<<<x, y>>>> : x, y \in V}
MCSSet == {<<<<x>>, <<y>>>> : x, y \in V}
MCPSet == {Scalar(p) : p \in 1..2}
MCpSet == {Scalar(p) : p \in V}
MCbSet == {Scalar(b) : b \in V}
MCrSet == {<<<<x>>, <<y>>>> : x, y \in V}
MCQ0 == Scalar(1)
MCq0 == Scalar(1)
=============================================================================
