------------------------------ MODULE BitStream ------------------------------
(***************************************************************************)
(* BitStreamAdaptor: a string of items, read as a string of bits, the      *)
(* lowest bit of an item first.                                            *)
(***************************************************************************)
EXTENDS Integers, Sequences, FiniteSetsExt

CONSTANT ItemBits      \* sizeof(item_type) * 8

\* An item is the set of its bits that are 1: {} is the terminator of a string.
Item == SUBSET (0 .. ItemBits - 1)

size(k) == Len(k) * ItemBits

\* Beyond the end, bits are 0; at the end, bit throws out_of_range.
bitThrows(k, pos) == pos <= size(k) /\ pos \div ItemBits >= Len(k)

bit(k, pos) == pos < size(k) /\ (pos % ItemBits) \in k[(pos \div ItemBits) + 1]

\* The lowest bit that tells two items apart.
LowestBit(x, y) == Min({b \in 0 .. ItemBits - 1 : b \in x <=> b \notin y})

\* The first bit that tells k from other, within its item; -1 when one of them is
\* a prefix of the other.  std::mismatch looks for the item in the whole of k; at
\* the end of other it finds a terminator, which is no item of k.
mismatch(k, other) ==
  LET differ == {i \in 1 .. Len(k) : i > Len(other) \/ k[i] # other[i]}
  IN  IF differ = {} \/ Min(differ) > Len(other) THEN -1
      ELSE LowestBit(k[Min(differ)], other[Min(differ)])

=============================================================================
