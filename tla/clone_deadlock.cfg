CONSTANTS
  Threads = {w1, w2}
  Tables = {x, y, c}
  Cells <- MCCells
  Assign <- AllPairs
  None = None
  w1 = w1  w2 = w2  x = x  y = y  c = c
SPECIFICATION Spec
INVARIANT NoLockCycle
