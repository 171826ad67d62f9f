CONSTANTS
  States = {st1}
  NumKeys = {}
  StrKeys = {}
  Inputs <- NumStrTable
  Ops = {"len", "push", "pop", "shift", "unshift"}
  CheckLen = FALSE
  MaxCells = 3
  MaxAlloc = 3
  KeyBound = 3
  Nil = Nil
  vN1 = vN1  vN2 = vN2  vS = vS  vB = vB  vT = vT
  st1 = st1  st2 = st2  k1 = k1
SPECIFICATION Spec
INVARIANT TypeOK NoDangling
CHECK_DEADLOCK FALSE
