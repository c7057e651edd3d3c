CONSTANTS
  Key = {k1, k2, k3, k4}
  Value <- MCValue
  maxWeight = 32
  factor = 3
  FactorUnit = 4
  FloatRange = 16
  End = End

SPECIFICATION Spec

INVARIANTS
  TypeOK
  Agreement
  PurgeReadsElement
  WeightBounded

PROPERTIES
  ImplementsRecency
  PurgeEnds
