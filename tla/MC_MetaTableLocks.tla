------------------------- MODULE MC_MetaTableLocks -------------------------
EXTENDS MetaTableLocks, TLC

CONSTANTS w1, w2, x, y, c

\* x holds the nested table c in its only cell; y holds scalars only.
MCCells == [t \in {x, y, c} |-> IF t = x THEN <<c>> ELSE <<>>]

\* Every script may store any handle in any table.
AllPairs == {x, y, c} \X {x, y, c}

=============================================================================
