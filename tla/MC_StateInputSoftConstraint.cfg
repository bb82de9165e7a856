\* Three object slots and four heap cells: enough for a construction, a
\* copy of it, a clone of the copy, the original's destruction and a
\* further construction, with every order of destruction.
CONSTANTS
  o1 = o1  o2 = o2  o3 = o3  c1 = c1  c2 = c2  c3 = c3  c4 = c4  k1 = k1  k2 = k2  p1 = p1
  None = None
  Objects <- MCObjects
  Cells <- MCCells
  Kinds <- MCKinds
  Penalties = {p1}
  Counts = {2}
SYMMETRY MCSymmetry
SPECIFICATION Spec
INVARIANT EvaluatesItsConstruction
