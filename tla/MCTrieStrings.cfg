CONSTANTS
  ItemBits = 2
  Key <- MCKey
  Null = Null

SPECIFICATION SpecInner

INVARIANTS
  FindsExactly

