CONSTANTS
  Size = 6
  Keys <- MCKeys
  Null = Null

SPECIFICATION TreeSpec

INVARIANTS
  TreeTypeOK
  HeapPartition
  ClearTouchesLiveNodes

PROPERTIES
  TreeImplementsSets
  TreeReturns
