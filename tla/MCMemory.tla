------------------------------ MODULE MCMemory ------------------------------
EXTENDS Memory, TLC

\* Growth by one page and by two; regions that end within a page and that cross two.
MCSizes == {2, 3}

\* The region IDs are only compared with each other.
MCSymmetry == Permutations(RgId)
=============================================================================
