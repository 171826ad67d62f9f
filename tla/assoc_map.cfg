CONSTANTS
  States = {st1, st2}
  NumKeys = {1, 2}
  StrKeys = {k1}
  Inputs <- NumStr
  Ops = {"set", "delete", "index"}
  CheckLen = FALSE
  MaxCells = 3
  MaxAlloc = 3
  KeyBound = 4
  Nil = Nil
  vN1 = vN1  vN2 = vN2  vS = vS  vB = vB  vT = vT
  st1 = st1  st2 = st2  k1 = k1
SPECIFICATION Spec
PROPERTY MapSpec
