CONSTANTS
  ItemBits = 4
  Key <- MCKey
  Null = Null

SPECIFICATION SpecInner

INVARIANTS
  FindsExactly
