--------------------------- MODULE MCPriorityHeap ---------------------------
\* Instance of PriorityHeap for TLC.  Six entries are the least for which the
\* leaf that replaces a removed entry can come from another subtree and have to
\* rise.
EXTENDS PriorityHeap, TLC

CONSTANTS x1, x2, x3, x4, x5, x6

Symmetry == Permutations(Items)
=============================================================================
