CONSTANTS
  ItemBits = 4
  Key <- MCKey
  Null = Null

SPECIFICATION SpecErase

INVARIANTS
  FindsExactly
