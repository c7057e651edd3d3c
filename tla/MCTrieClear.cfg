CONSTANTS
  ItemBits = 4
  Key <- MCKey
  Null = Null

SPECIFICATION SpecClear

INVARIANTS
  NoDangling
