CONSTANTS
  size = 5
  IndexRange = 6
  Data <- MCData

SPECIFICATION Spec

INVARIANTS
  TypeOK
  NoTwoOwners

PROPERTIES
  ImplementsStack
  ResetEnds
