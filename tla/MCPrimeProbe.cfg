SPECIFICATION Spec
CONSTANTS
  Sets = 2
  Ways = 3
  Foreign = {x, y, z}
SYMMETRY ForeignSymmetry
INVARIANTS
  TypeOK
  InBounds
  MissesCountNoise
  MissesBoundedByNoise
PROPERTIES
  ProbeSparesTheUnprobed
