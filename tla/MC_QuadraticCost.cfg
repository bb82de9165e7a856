CONSTANTS
  QSet <- MCQSet
  RSet <- MCRSet
  XNominalSet <- MCXNominalSet
  UNominalSet <- MCUNominalSet
  XFinalSet <- MCXFinalSet
  QFinalSet <- MCQFinalSet
  XSet <- MCXSet
  USet <- MCUSet
SPECIFICATION Spec
PROPERTY QuadraticModelIsExact
