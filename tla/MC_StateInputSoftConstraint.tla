-------------------- MODULE MC_StateInputSoftConstraint --------------------
EXTENDS StateInputSoftConstraint, TLC
CONSTANTS o1, o2, o3, c1, c2, c3, c4, k1, k2, p1
MCObjects == {o1, o2, o3}
MCCells == {c1, c2, c3, c4}
MCKinds == {k1, k2}
\* Slots and cells are interchangeable names: the code never orders them.
MCSymmetry == Permutations(MCObjects) \cup Permutations(MCCells)
=============================================================================
