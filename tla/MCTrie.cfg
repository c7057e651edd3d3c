CONSTANTS
  ItemBits = 4
  Key <- MCKey
  Null = Null

SPECIFICATION SpecAboveLeaf

INVARIANTS
  TypeOK
  FindsExactly
  TraversesAll
