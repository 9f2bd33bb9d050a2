-------------------------------- MODULE Pte --------------------------------
(***************************************************************************)
(* The fields of a page table entry and of an address (mm.h, bitops.h and  *)
(* mm.c).  A word of 32 bits is the set of the positions of its ones, so   *)
(* that | is union, & intersection and a shift a translation.              *)
(***************************************************************************)
EXTENDS Integers

BitPos == 0 .. 31
Word == SUBSET BitPos

GENMASK(h, l) == l .. h

Shl(v, n) == {b \in BitPos : b - n \in v}
Shr(v, n) == {b \in BitPos : b + n \in v}

SETBIT(v, mask) == v \cup mask
CLRBIT(v, mask) == v \ mask
SETVAL(v, value, mask, offst) == (v \ mask) \cup (Shl(value, offst) \cap mask)
GETVAL(v, mask, offst) == Shr(v \cap mask, offst)

PRESENT_MASK == {31}
SWAPPED_MASK == {30}
FPN_MASK == GENMASK(12, 0)
SWPTYP_MASK == GENMASK(4, 0)
SWPOFF_MASK == GENMASK(25, 5)

PAGE_PRESENT(pte) == pte \cap PRESENT_MASK # {}
PAGE_SWAPPED(pte) == pte \cap SWAPPED_MASK # {}
PAGING_FPN(pte) == GETVAL(pte, FPN_MASK, 0)
PAGING_PTE_SWPTYP(pte) == GETVAL(pte, SWPTYP_MASK, 0)
PAGING_PTE_SWP(pte) == GETVAL(pte, SWPOFF_MASK, 5)

pte_set_swap(pte, swptyp, swpoff) ==
    LET swapped == SETBIT(SETBIT(pte, PRESENT_MASK), SWAPPED_MASK)
    IN  SETVAL(SETVAL(swapped, swptyp, SWPTYP_MASK, 0), swpoff, SWPOFF_MASK, 5)

\* The page stays marked as swapped.
pte_set_fpn_swapped(pte, fpn) ==
    SETVAL(CLRBIT(SETBIT(pte, PRESENT_MASK), SWPOFF_MASK), fpn, FPN_MASK, 0)

pte_set_fpn(pte, fpn) ==
    LET online == CLRBIT(SETBIT(pte, PRESENT_MASK), SWAPPED_MASK)
    IN  SETVAL(CLRBIT(online, SWPOFF_MASK), fpn, FPN_MASK, 0)
=============================================================================
