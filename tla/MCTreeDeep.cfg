CONSTANTS
  Keys <- MCKeys
  Null = Null
  Erased = 54

SPECIFICATION DeepSpec

INVARIANTS
  Balanced
  TargetTracked
  StackFits
  EnumerationInOrder

CHECK_DEADLOCK FALSE
