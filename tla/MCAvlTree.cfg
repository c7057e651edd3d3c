CONSTANTS
  Size = 8
  Keys <- MCKeys
  Null = Null

SPECIFICATION Spec

INVARIANTS
  TypeOK
  SearchOrder
  NoLeak
  Balanced
  NoNullDereference
  TargetTracked

PROPERTIES
  ImplementsSet
  Returns
